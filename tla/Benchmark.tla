----------------------------- MODULE Benchmark ------------------------------
(***************************************************************************)
(* The scheduling of the benchmark (benchmark/2018-fibers/src/main.c) on   *)
(* top of the fibers that FiberSpec promises: one thread per CPU, more     *)
(* fibers than threads, a SIGALRM that makes whichever thread gets it      *)
(* switch to a random fiber, and a fiber 1 that waits for all the others.  *)
(*                                                                         *)
(* Left out: the simulation itself (an event is a unit of work), the fiber *)
(* storage (see Fls) and the timing figures.                               *)
(***************************************************************************)
EXTENDS Integers, FiniteSets

CONSTANTS
  Thread,      \* bound: the threads there may be, one per CPU
  Main,        \* the thread that runs main()
  num_fibers,  \* the command-line argument
  Events,      \* bound: the work of a fiber (COMPLETE_CALLS in the code)
  MaxDepth     \* bound: handlers of SIGALRM suspended in one fiber

NoFiber == 0
Worker  == 1..num_fibers     \* the fibers main() keeps in its array
\* and one per other thread, which its thread abandons.
FiberId == 1..(num_fibers + Cardinality(Thread) - 1)

\* main() stops when there are not more fibers than CPUs.
ASSUME BenchmarkAssumption ==
  /\ Main \in Thread
  /\ IsFiniteSet(Thread)
  /\ num_fibers \in Nat /\ num_fibers > Cardinality(Thread)
  /\ Events \in Nat /\ MaxDepth \in Nat

VARIABLES
  run, fibs, ctx,    \* the fibers, as in FiberSpec
  online,            \* the threads there are: cpus of main()
  created,           \* i of main(): how many fibers the array has
  init_complete,
  left,              \* the events each worker has still to process
  done,              \* the workers that have decremented completed_fibers
  completed_fibers,
  depth,             \* handlers of SIGALRM suspended in each fiber
  blocked,           \* threads in whose mask SIGALRM is blocked
  timer,             \* alarm(1) is running
  pending,           \* SIGALRM is pending
  exited             \* the process has called exit

fiberVars == <<run, fibs, ctx>>
setup     == <<online, created, init_complete>>
work      == <<left, done, completed_fibers>>
signals   == <<depth, blocked, timer, pending>>
vars      == <<fiberVars, setup, work, signals, exited>>

Fiber == INSTANCE FiberSpec WITH Phases <- 0

Init ==
  /\ Fiber!Init
  /\ online \in {T \in SUBSET Thread : Main \in T}
  /\ created = 0
  /\ init_complete = FALSE
  /\ left = [f \in Worker |-> Events]
  /\ done = {}
  /\ completed_fibers = num_fibers
  /\ depth = [f \in FiberId |-> 0]
  /\ blocked = {}
  /\ timer = FALSE
  /\ pending = FALSE
  /\ exited = FALSE

-----------------------------------------------------------------------------
(***************************************************************************)
(* main and thread_initialization                                          *)
(***************************************************************************)

MainConvert ==
  /\ created = 0
  /\ Fiber!Convert(Main, 1)
  /\ created' = 1
  /\ UNCHANGED <<online, init_complete, work, signals, exited>>

MainCreate ==
  /\ created \in 1..(num_fibers - 1)
  /\ Fiber!Create(Main, created + 1)
  /\ created' = created + 1
  /\ UNCHANGED <<online, init_complete, work, signals, exited>>

\* signal, alarm(1) and init_complete; then Main enters main_loop as fiber 1.
MainReady ==
  /\ created = num_fibers
  /\ ~init_complete
  /\ init_complete' = TRUE
  /\ timer' = TRUE
  /\ UNCHANGED <<fiberVars, online, created, work, depth, blocked, pending, exited>>

ThreadConvert(t) ==
  /\ t \in online \ {Main}
  /\ \E f \in FiberId \ Worker : Fiber!Convert(t, f)
  /\ UNCHANGED <<setup, work, signals, exited>>

-----------------------------------------------------------------------------
(***************************************************************************)
(* main_loop: what the code of fiber f does when a thread runs it          *)
(***************************************************************************)

\* Thread t runs the code of f itself, not a handler suspended in it.
Executes(t, f) == run[t] = f /\ depth[f] = 0 /\ init_complete /\ ~exited

ProcessEvent(t, f) ==
  /\ Executes(t, f)
  /\ f \in Worker
  /\ left[f] > 0
  /\ left' = [left EXCEPT ![f] = @ - 1]
  /\ UNCHANGED <<fiberVars, setup, done, completed_fibers, signals, exited>>

\* __sync_fetch_and_sub(&completed_fibers, 1)
FetchAndSubLost == UNCHANGED completed_fibers
FetchAndSub == completed_fibers' = completed_fibers - 1

Complete(t, f) ==
  /\ Executes(t, f)
  /\ f \in Worker \ done
  /\ left[f] = 0
  /\ done' = done \cup {f}
  /\ FetchAndSub
  /\ UNCHANGED <<fiberVars, setup, left, signals, exited>>

\* while(completed_fibers > 0)
SpinEndsEarly == completed_fibers <= 1
SpinEnds == completed_fibers <= 0

\* Fiber 1 waits for the others and ends the process.
Exit(t, f) ==
  /\ Executes(t, f)
  /\ f = 1 /\ f \in done
  /\ SpinEnds
  /\ exited' = TRUE
  /\ UNCHANGED <<fiberVars, setup, work, signals>>

\* get_random_fiber: an index of the array, whether or not the fiber runs.
RandomFiber == Worker

\* The loops that only look for a fiber to run: a worker that is done calls
\* schedule(0), an abandoned fiber calls SwitchToFiber.
IdleAlsoOne(f) == f \notin Worker \/ f \in done
Idle(f) == f \notin Worker \/ (f \in done /\ f # 1)

\* schedule calls alarm(1) before it switches; the abandoned fibers do not.
RearmForgotten == UNCHANGED timer
Rearm == timer' = TRUE
Schedule(f) == IF f \in Worker THEN Rearm ELSE UNCHANGED timer

SwitchAway(t, f, g) ==
  /\ Executes(t, f)
  /\ Idle(f)
  /\ Fiber!Switch(t, g)
  /\ Schedule(f)
  /\ UNCHANGED <<setup, work, depth, blocked, pending, exited>>

\* The random fiber runs elsewhere: SwitchToFiber fails and the loop goes on.
SwitchFails(t, f, g) ==
  /\ Executes(t, f)
  /\ Idle(f)
  /\ ~Fiber!Suspended(g)
  /\ Schedule(f)
  /\ UNCHANGED <<fiberVars, setup, work, depth, blocked, pending, exited>>

-----------------------------------------------------------------------------
(***************************************************************************)
(* SIGALRM.  It is blocked in the thread that runs the handler.  When      *)
(* schedule switches inside the handler, the thread goes on with another   *)
(* fiber and SIGALRM stays blocked in it; the handler returns, and         *)
(* unblocks it, in whichever thread resumes the interrupted fiber.         *)
(***************************************************************************)

Expire ==
  /\ timer /\ ~exited
  /\ timer' = FALSE
  /\ pending' = TRUE
  /\ UNCHANGED <<fiberVars, setup, work, depth, blocked, exited>>

Interrupted(t) == pending /\ t \in online \ blocked /\ ~exited

AlarmSwitch(t, g) ==
  /\ Interrupted(t)
  /\ run[t] # NoFiber
  /\ depth[run[t]] < MaxDepth
  /\ Fiber!Switch(t, g)
  /\ depth' = [depth EXCEPT ![run[t]] = @ + 1]
  /\ blocked' = blocked \cup {t}
  /\ Rearm
  /\ pending' = FALSE
  /\ UNCHANGED <<setup, work, exited>>

\* The switch fails, and the handler returns at once.
AlarmFails(t, g) ==
  /\ Interrupted(t)
  /\ run[t] = NoFiber \/ ~Fiber!Suspended(g)
  /\ Rearm
  /\ pending' = FALSE
  /\ UNCHANGED <<fiberVars, setup, work, depth, blocked, exited>>

\* The mask from before the handler is restored, in the thread that returns.
UnblockForgotten(t) == UNCHANGED blocked
Unblock(t) == blocked' = blocked \ {t}

HandlerReturn(t, f) ==
  /\ run[t] = f /\ ~exited
  /\ depth[f] > 0
  /\ depth' = [depth EXCEPT ![f] = @ - 1]
  /\ Unblock(t)
  /\ UNCHANGED <<fiberVars, setup, work, timer, pending, exited>>

-----------------------------------------------------------------------------

MainStep == MainConvert \/ MainCreate \/ MainReady

\* The code of fiber f, or a handler in it, takes a step on whatever thread.
FiberStep(f) == \E t \in Thread :
  ProcessEvent(t, f) \/ Complete(t, f) \/ Exit(t, f)
Return(f) == \E t \in Thread : HandlerReturn(t, f)

\* Some thread switches to f.
Resume(f) == \E t \in Thread :
  AlarmSwitch(t, f) \/ \E g \in FiberId : SwitchAway(t, g, f)

Next ==
  \/ MainStep
  \/ Expire
  \/ \E f \in FiberId : FiberStep(f) \/ Return(f)
  \/ \E g \in RandomFiber : Resume(g)
  \/ \E t \in Thread :
       \/ ThreadConvert(t)
       \/ \E g \in RandomFiber :
            AlarmFails(t, g) \/ \E f \in FiberId : SwitchFails(t, f, g)

Spec == Init /\ [][Next]_vars

\* No thread is in a loop that keeps setting the alarm back.
NobodyRearms == \A t \in Thread :
  run[t] \in Worker => ~(Idle(run[t]) /\ depth[run[t]] = 0)

ReturnsToItsCode(f) ==
  []<>(~exited /\ \E t \in Thread : run[t] = f)
    => []<>(\E t \in Thread : Executes(t, f))

(***************************************************************************)
(* Every CPU runs its thread.  The alarm is a second away, so that a fiber *)
(* that is resumed again and again gets to return from all the handlers in *)
(* it (ReturnsToItsCode), and to make a step of its own.  random() picks   *)
(* every fiber again and again, also while it is suspended.  An alarm that *)
(* nobody sets back expires and is delivered.                              *)
(***************************************************************************)
Fairness ==
  /\ WF_vars(MainStep)
  /\ WF_vars(Expire /\ NobodyRearms)
  /\ WF_vars(\E t \in Thread : ThreadConvert(t))
  /\ \A f \in Worker :
       /\ SF_vars(FiberStep(f))
       /\ ReturnsToItsCode(f)
       /\ SF_vars(Resume(f))

FairSpec == Spec /\ Fairness

-----------------------------------------------------------------------------

\* completed_fibers counts the fibers that are not done, and the process
\* exits only when every fiber has processed all its events.
ExitsComplete ==
  /\ completed_fibers = num_fibers - Cardinality(done)
  /\ exited => \A f \in Worker : left[f] = 0

\* The threads that run the array's fibers, or will: not those that are still in
\* thread_initialization.
Working == {t \in online : t = Main \/ run[t] \in Worker}

\* SIGALRM is never blocked for good: when it is blocked in every thread that
\* runs fibers, a fiber of the array has a handler in it whose return will
\* unblock it.  (A handler that interrupted thread_initialization, which "lives
\* in an abandoned fiber: no-one will ever get back here", does not count: it
\* never returns.)
AlarmGetsThrough ==
  Working \subseteq blocked => \E f \in Worker : depth[f] > 0

\* On one CPU the alarm preempts fiber 1 and no other: while another fiber has
\* the thread SIGALRM is blocked, and in fiber 1, which spins until the others
\* are done, it is not, once the handler has returned.
OnlyFiberOnePreempted == online = {Main} =>
  /\ \A f \in FiberId \ {1} : depth[f] = 0
  /\ depth[1] = IF Main \in blocked THEN 1 ELSE 0
  /\ Main \notin blocked => run[Main] \in {NoFiber, 1}

\* The benchmark ends: whatever the alarm interrupts and wherever fibers are
\* resumed, all of them finish and fiber 1 gets to see it.
Ends == <>exited

=============================================================================
