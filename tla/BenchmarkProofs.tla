-------------------------- MODULE BenchmarkProofs ---------------------------
(***************************************************************************)
(* Proofs about Benchmark, for any number of threads, fibers and events:   *)
(* fiber 1 ends the process only when all the work is done, SIGALRM is     *)
(* never blocked for good, and on one CPU it preempts only fiber 1.        *)
(***************************************************************************)
EXTENDS Benchmark, FiniteSetTheorems, TLAPS

\* The types that the arguments need.
Types ==
  /\ run \in [Thread -> FiberId \cup {NoFiber}]
  /\ left \in [Worker -> Nat]
  /\ done \subseteq Worker

\* A worker that has decremented completed_fibers has no events left, and the
\* process exits when every worker has decremented it.
BenchmarkInv ==
  /\ Types
  /\ \A f \in done : left[f] = 0
  /\ completed_fibers = num_fibers - Cardinality(done)
  /\ exited => done = Worker

\* The workers can be counted, and there is at least one.
LEMMA WorkersCounted ==
  /\ num_fibers \in Nat /\ 1 \in Worker
  /\ IsFiniteSet(Worker) /\ Cardinality(Worker) = num_fibers
  /\ Worker \subseteq FiberId
<1>1. Cardinality(Thread) \in Nat /\ num_fibers \in Nat /\ num_fibers > Cardinality(Thread)
  BY BenchmarkAssumption, FS_CardinalityType
<1>2. Cardinality(Thread) # 0
  BY BenchmarkAssumption, FS_EmptySet
<1>3. IsFiniteSet(Worker) /\ Cardinality(Worker) = num_fibers
  BY <1>1, FS_Interval DEF Worker
<1> QED BY <1>1, <1>2, <1>3 DEF Worker, FiberId

\* What the fibers of FiberSpec do to run.
LEMMA RunTyped ==
  ASSUME Types, NEW t \in Thread, NEW f \in FiberId,
         Fiber!Convert(t, f) \/ Fiber!Create(t, f) \/ Fiber!Switch(t, f)
  PROVE  run' \in [Thread -> FiberId \cup {NoFiber}]
BY DEF Types, Fiber!Convert, Fiber!Create, Fiber!Switch

\* A step that leaves the work alone keeps the invariant.
LEMMA QuietStep ==
  ASSUME BenchmarkInv, UNCHANGED <<work, exited>>,
         run' \in [Thread -> FiberId \cup {NoFiber}]
  PROVE  BenchmarkInv'
BY DEF BenchmarkInv, Types, work

\* A step lets a thread run a worker, or a fiber that it makes.
LEMMA RunStep ==
  ASSUME Types, [Next]_vars
  PROVE  run' \in [Thread -> FiberId \cup {NoFiber}]
<1> USE WorkersCounted
<1>1. ASSUME UNCHANGED run
      PROVE  run' \in [Thread -> FiberId \cup {NoFiber}]
  BY <1>1 DEF Types
<1>2. ASSUME NEW t \in Thread, NEW f \in FiberId,
             Fiber!Convert(t, f) \/ (f \in Worker /\ Fiber!Switch(t, f))
      PROVE  run' \in [Thread -> FiberId \cup {NoFiber}]
  BY <1>2, RunTyped DEF Fiber!Convert
<1>3. CASE MainConvert
  BY <1>2, <1>3, BenchmarkAssumption DEF MainConvert
<1>4. CASE MainCreate
  BY <1>1, <1>4 DEF MainCreate, Fiber!Create
<1>5. CASE MainReady \/ Expire
  BY <1>1, <1>5 DEF MainReady, Expire, fiberVars
<1>6. ASSUME NEW t \in Thread, ThreadConvert(t)
      PROVE  \E f \in FiberId : Fiber!Convert(t, f)
  BY <1>6 DEF ThreadConvert
<1>7. ASSUME NEW f \in FiberId, FiberStep(f) \/ Return(f) PROVE UNCHANGED run
  BY <1>7 DEF FiberStep, Return, ProcessEvent, Complete, Exit, HandlerReturn, fiberVars
<1>8. ASSUME NEW g \in RandomFiber, Resume(g)
      PROVE  \E t \in Thread : g \in Worker /\ g \in FiberId /\ Fiber!Switch(t, g)
  BY <1>8 DEF Resume, RandomFiber, AlarmSwitch, SwitchAway
<1>9. ASSUME NEW t \in Thread, NEW g \in RandomFiber,
             AlarmFails(t, g) \/ \E f \in FiberId : SwitchFails(t, f, g)
      PROVE  UNCHANGED run
  BY <1>9 DEF AlarmFails, SwitchFails, fiberVars
<1>10. CASE UNCHANGED vars
  BY <1>1, <1>10 DEF vars, fiberVars
<1> QED
  BY <1>1, <1>2, <1>3, <1>4, <1>5, <1>6, <1>7, <1>8, <1>9, <1>10 DEF Next, MainStep

\* The invariant is inductive: only processing an event, completing and exiting
\* change what it is about.
LEMMA BenchmarkStep ==
  ASSUME BenchmarkInv, [Next]_vars
  PROVE  BenchmarkInv'
<1> USE WorkersCounted
<1>0. Types /\ run' \in [Thread -> FiberId \cup {NoFiber}]
  BY RunStep DEF BenchmarkInv
<1>1. ASSUME NEW t \in Thread, NEW f \in FiberId, ProcessEvent(t, f)
      PROVE  BenchmarkInv'
  <2>1. f \notin done /\ f \in Worker /\ left[f] \in Nat /\ left[f] > 0
    BY <1>1 DEF ProcessEvent, BenchmarkInv, Types
  <2>2. left' = [left EXCEPT ![f] = left[f] - 1] /\ UNCHANGED <<done, completed_fibers, exited>>
    BY <1>1 DEF ProcessEvent
  <2>3. left' \in [Worker -> Nat]
    BY <1>0, <2>1, <2>2 DEF Types
  <2>4. \A g \in done : left'[g] = 0
    BY <1>0, <2>1, <2>2 DEF BenchmarkInv, Types
  <2> QED BY <1>0, <2>2, <2>3, <2>4 DEF BenchmarkInv, Types
<1>2. ASSUME NEW t \in Thread, NEW f \in FiberId, Complete(t, f)
      PROVE  BenchmarkInv'
  <2>1. f \in Worker \ done /\ left[f] = 0 /\ done' = done \cup {f}
        /\ completed_fibers' = completed_fibers - 1 /\ UNCHANGED <<left, exited>>
    BY <1>2 DEF Complete, FetchAndSub
  <2>2. IsFiniteSet(done) /\ Cardinality(done) \in Nat
    BY <1>0, FS_Subset, FS_CardinalityType DEF Types
  <2>3. Cardinality(done') = Cardinality(done) + 1
    BY <2>1, <2>2, FS_AddElement
  <2>4. completed_fibers' = num_fibers - Cardinality(done')
    BY <2>1, <2>2, <2>3 DEF BenchmarkInv
  <2>5. ~exited
    BY <1>2 DEF Complete, Executes
  <2> QED BY <1>0, <2>1, <2>4, <2>5 DEF BenchmarkInv, Types
<1>3. ASSUME NEW t \in Thread, NEW f \in FiberId, Exit(t, f)
      PROVE  BenchmarkInv'
  <2>1. completed_fibers <= 0 /\ UNCHANGED work
    BY <1>3 DEF Exit, SpinEnds
  <2>2. IsFiniteSet(done) /\ Cardinality(done) \in Nat /\ Cardinality(done) <= num_fibers
    BY <1>0, FS_Subset, FS_CardinalityType DEF Types
  <2>3. Cardinality(done) = Cardinality(Worker)
    BY <2>1, <2>2 DEF BenchmarkInv
  <2>4. done = Worker
    BY <1>0, <2>3, FS_Subset DEF Types
  <2> QED BY <1>0, <2>1, <2>4 DEF BenchmarkInv, Types, work
<1>4. CASE MainStep \/ Expire
  <2>1. UNCHANGED <<work, exited>>
    BY <1>4 DEF MainStep, MainConvert, MainCreate, MainReady, Expire
  <2> QED BY <1>0, <2>1, QuietStep
<1>5. ASSUME NEW f \in FiberId, Return(f) PROVE UNCHANGED <<work, exited>>
  BY <1>5 DEF Return, HandlerReturn
<1>6. ASSUME NEW g \in RandomFiber, Resume(g) PROVE UNCHANGED <<work, exited>>
  BY <1>6 DEF Resume, AlarmSwitch, SwitchAway
<1>7. ASSUME NEW t \in Thread,
             \/ ThreadConvert(t)
             \/ \E g \in RandomFiber :
                  AlarmFails(t, g) \/ \E f \in FiberId : SwitchFails(t, f, g)
      PROVE  UNCHANGED <<work, exited>>
  BY <1>7 DEF ThreadConvert, AlarmFails, SwitchFails
<1>8. CASE UNCHANGED vars
  BY <1>0, <1>8, QuietStep DEF vars
<1> QED
  BY <1>0, <1>1, <1>2, <1>3, <1>4, <1>5, <1>6, <1>7, <1>8, QuietStep DEF Next, FiberStep

\* The invariant holds of every state.
LEMMA BenchmarkInvariant == Spec => []BenchmarkInv
<1>1. Init => BenchmarkInv
  <2> SUFFICES ASSUME Init PROVE BenchmarkInv
    OBVIOUS
  <2>1. Types
    BY BenchmarkAssumption DEF Init, Types, Fiber!Init
  <2>2. Cardinality(done) = 0
    BY FS_EmptySet DEF Init
  <2> QED BY <2>1, <2>2, WorkersCounted DEF Init, BenchmarkInv
<1>2. BenchmarkInv /\ [Next]_vars => BenchmarkInv'
  BY BenchmarkStep
<1> QED BY <1>1, <1>2, PTL DEF Spec

\* The atomic counter ends the wait of fiber 1 only when every fiber has
\* processed all its events, wherever the alarm has moved them.
THEOREM ExitIsComplete == Spec => []ExitsComplete
<1>1. BenchmarkInv => ExitsComplete
  BY DEF BenchmarkInv, ExitsComplete
<1> QED BY <1>1, BenchmarkInvariant, PTL

-----------------------------------------------------------------------------
(***************************************************************************)
(* The mask of SIGALRM                                                     *)
(***************************************************************************)

\* Threads that run something are online, no two run the same fiber, and Main
\* runs only fibers of the array.  A handler that was suspended in an abandoned
\* fiber is there for good.
MaskTypes ==
  /\ depth \in [FiberId -> Nat]
  /\ fibs \subseteq FiberId
  /\ online \subseteq Thread /\ Main \in online
  /\ \A t \in Thread : run[t] # NoFiber => t \in online /\ run[t] \in fibs
  /\ \A t, u \in Thread : run[t] # NoFiber /\ run[t] = run[u] => t = u
  /\ run[Main] \in Worker \cup {NoFiber}
  /\ \A a \in FiberId \ Worker : depth[a] > 0 =>
       a \in fibs /\ \A t \in Thread : run[t] # a

MaskInv ==
  /\ Types /\ MaskTypes
  /\ AlarmGetsThrough
  /\ OnlyFiberOnePreempted

\* A step that leaves threads, handlers and masks alone keeps the invariant.
LEMMA MaskQuiet ==
  ASSUME MaskInv, UNCHANGED <<run, online, depth, blocked>>, Types',
         fibs \subseteq fibs', fibs' \subseteq FiberId
  PROVE  MaskInv'
BY DEF MaskInv, MaskTypes, AlarmGetsThrough, OnlyFiberOnePreempted, Working

\* A thread that becomes a fiber does not run one of the array, if it is not
\* Main.
LEMMA MaskConvert ==
  ASSUME MaskInv, NEW t \in Thread, NEW f \in FiberId, Fiber!Convert(t, f),
         t \in online, t = Main <=> f \in Worker, t = Main => f = 1,
         UNCHANGED <<online, depth, blocked>>, Types'
  PROVE  MaskInv'
<1> USE WorkersCounted, BenchmarkAssumption
<1>1. /\ run[t] = NoFiber /\ f \notin fibs /\ fibs' = fibs \cup {f}
      /\ run' = [run EXCEPT ![t] = f]
  BY DEF Fiber!Convert
<1>2. run \in [Thread -> FiberId \cup {NoFiber}] /\ MaskTypes
  BY DEF MaskInv, Types
<1>3. MaskTypes'
  BY <1>1, <1>2 DEF MaskTypes
<1>4. Working' = Working
  <2>1. \A u \in Thread : u # t => run'[u] = run[u]
    BY <1>1, <1>2
  <2>2. run'[t] = f /\ run[t] \notin Worker
    BY <1>1, <1>2 DEF Worker, NoFiber
  <2> QED BY <1>2, <2>1, <2>2 DEF Working, MaskTypes
<1>5. AlarmGetsThrough'
  BY <1>4 DEF MaskInv, AlarmGetsThrough
<1>6. OnlyFiberOnePreempted'
  BY <1>1, <1>2 DEF MaskInv, OnlyFiberOnePreempted
<1> QED BY <1>3, <1>5, <1>6 DEF MaskInv

\* A switch to a fiber of the array, from wherever: the working threads stay.
LEMMA MaskSwitch ==
  ASSUME MaskInv, NEW t \in Thread, NEW g \in Worker, Fiber!Switch(t, g),
         UNCHANGED online
  PROVE  /\ run' = [run EXCEPT ![t] = g] /\ UNCHANGED fibs
         /\ run[t] \in FiberId /\ run[t] \in fibs /\ t \in online
         /\ Main \in online
         /\ \A u \in Thread : run'[u] # NoFiber => u \in online /\ run'[u] \in fibs
         /\ \A u, v \in Thread : run'[u] # NoFiber /\ run'[u] = run'[v] => u = v
         /\ run'[Main] \in Worker \cup {NoFiber}
         /\ \A u \in Thread, a \in FiberId \ Worker :
              run'[u] = a => run[u] = a /\ u # t
         /\ Working \subseteq Working'
<1> USE WorkersCounted, BenchmarkAssumption
<1>1. /\ run[t] # NoFiber /\ g \in fibs /\ \A u \in Thread : run[u] # g
      /\ run' = [run EXCEPT ![t] = g] /\ UNCHANGED fibs
  BY DEF Fiber!Switch, Fiber!Suspended
<1>2. run \in [Thread -> FiberId \cup {NoFiber}] /\ MaskTypes
  BY DEF MaskInv, Types
<1>3. run[t] \in FiberId /\ run[t] \in fibs /\ t \in online /\ Main \in online
  BY <1>1, <1>2 DEF MaskTypes
<1>4. /\ run'[t] = g
      /\ \A u \in Thread : u # t => run'[u] = run[u]
  BY <1>1, <1>2
<1>5. \A u \in Thread : run'[u] # NoFiber => u \in online /\ run'[u] \in fibs
  BY <1>1, <1>2, <1>3, <1>4 DEF MaskTypes
<1>6. \A u, v \in Thread : run'[u] # NoFiber /\ run'[u] = run'[v] => u = v
  BY <1>1, <1>2, <1>4 DEF MaskTypes
<1>7. run'[Main] \in Worker \cup {NoFiber}
  BY <1>2, <1>4 DEF MaskTypes
<1>8. Working \subseteq Working'
  BY <1>2, <1>4 DEF Working, MaskTypes
<1> QED BY <1>1, <1>3, <1>4, <1>5, <1>6, <1>7, <1>8

\* The alarm takes the thread away from the fiber it runs.
LEMMA MaskAlarmSwitch ==
  ASSUME MaskInv, NEW t \in Thread, NEW g \in Worker, AlarmSwitch(t, g), Types'
  PROVE  MaskInv'
<1> USE WorkersCounted, BenchmarkAssumption
<1>1. /\ run' = [run EXCEPT ![t] = g] /\ UNCHANGED <<fibs, online>>
      /\ run[t] \in FiberId /\ run[t] \in fibs /\ t \in online /\ Main \in online
      /\ \A u \in Thread : run'[u] # NoFiber => u \in online /\ run'[u] \in fibs
      /\ \A u, v \in Thread : run'[u] # NoFiber /\ run'[u] = run'[v] => u = v
      /\ run'[Main] \in Worker \cup {NoFiber}
      /\ \A u \in Thread, a \in FiberId \ Worker :
           run'[u] = a => run[u] = a /\ u # t
      /\ Working \subseteq Working'
  <2>1. Fiber!Switch(t, g) /\ UNCHANGED online
    BY DEF AlarmSwitch, setup
  <2> QED BY <2>1, MaskSwitch
<1>2. /\ t \notin blocked /\ blocked' = blocked \cup {t}
      /\ depth' = [depth EXCEPT ![run[t]] = depth[run[t]] + 1]
  BY DEF AlarmSwitch, Interrupted
<1>3. MaskTypes /\ run \in [Thread -> FiberId \cup {NoFiber}]
  BY DEF MaskInv, Types
<1>4. /\ depth' \in [FiberId -> Nat]
      /\ depth'[run[t]] > 0 /\ depth'[run[t]] = depth[run[t]] + 1
      /\ \A f \in FiberId : f # run[t] => depth'[f] = depth[f]
  BY <1>1, <1>2, <1>3 DEF MaskTypes
<1>5. ASSUME NEW a \in FiberId \ Worker, depth'[a] > 0
      PROVE  a \in fibs' /\ \A u \in Thread : run'[u] # a
  <2>1. CASE a = run[t]
    <3>1. run[t] # NoFiber
      BY DEF AlarmSwitch
    <3>2. ASSUME NEW u \in Thread, run'[u] = a PROVE FALSE
      <4>1. run[u] = run[t] /\ u # t
        BY <1>1, <2>1, <3>2
      <4> QED BY <1>3, <3>1, <4>1 DEF MaskTypes
    <3> QED BY <1>1, <2>1, <3>2
  <2>2. CASE a # run[t]
    BY <1>1, <1>3, <1>4, <1>5, <2>2 DEF MaskTypes
  <2> QED BY <2>1, <2>2
<1>6. MaskTypes'
  BY <1>1, <1>3, <1>4, <1>5 DEF MaskTypes
<1>7. AlarmGetsThrough'
  <2>1. CASE t \in Working
    <3>1. run[t] \in Worker
      BY <1>1, <1>3, <2>1 DEF Working, MaskTypes, NoFiber, FiberId
    <3> QED BY <1>4, <3>1 DEF AlarmGetsThrough
  <2>2. CASE t \notin Working
    <3> SUFFICES ASSUME Working' \subseteq blocked'
                 PROVE  \E f \in Worker : depth'[f] > 0
      BY DEF AlarmGetsThrough
    <3>1. Working \subseteq blocked
      BY <1>1, <1>2, <2>2
    <3>2. PICK f \in Worker : depth[f] > 0
      BY <3>1 DEF MaskInv, AlarmGetsThrough
    <3>3. f # run[t]
      BY <1>1, <2>2 DEF Working
    <3> QED BY <1>4, <3>2, <3>3
  <2> QED BY <2>1, <2>2
<1>8. OnlyFiberOnePreempted'
  <2> SUFFICES ASSUME online = {Main} PROVE OnlyFiberOnePreempted'
    BY <1>1 DEF OnlyFiberOnePreempted
  <2>1. t = Main /\ run[t] = 1
    BY <1>1, <1>2 DEF MaskInv, OnlyFiberOnePreempted, FiberId, NoFiber
  <2>2. depth[1] = 0
    BY <1>2, <2>1 DEF MaskInv, OnlyFiberOnePreempted
  <2> QED BY <1>2, <1>4, <2>1, <2>2 DEF MaskInv, OnlyFiberOnePreempted
<1> QED BY <1>6, <1>7, <1>8 DEF MaskInv

\* A loop that only looks for a fiber to run switches.
LEMMA MaskSwitchAway ==
  ASSUME MaskInv, NEW t \in Thread, NEW f \in FiberId, NEW g \in Worker,
         SwitchAway(t, f, g), Types'
  PROVE  MaskInv'
<1> USE WorkersCounted, BenchmarkAssumption
<1>1. /\ run' = [run EXCEPT ![t] = g] /\ UNCHANGED <<fibs, online>>
      /\ run[t] \in FiberId /\ run[t] \in fibs /\ t \in online /\ Main \in online
      /\ \A u \in Thread : run'[u] # NoFiber => u \in online /\ run'[u] \in fibs
      /\ \A u, v \in Thread : run'[u] # NoFiber /\ run'[u] = run'[v] => u = v
      /\ run'[Main] \in Worker \cup {NoFiber}
      /\ \A u \in Thread, a \in FiberId \ Worker :
           run'[u] = a => run[u] = a /\ u # t
      /\ Working \subseteq Working'
  <2>1. Fiber!Switch(t, g) /\ UNCHANGED online
    BY DEF SwitchAway, setup
  <2> QED BY <2>1, MaskSwitch
<1>2. run[t] = f /\ Idle(f) /\ UNCHANGED <<depth, blocked>>
  BY DEF SwitchAway, Executes
<1>3. MaskTypes
  BY DEF MaskInv
<1>4. MaskTypes'
  BY <1>1, <1>2, <1>3 DEF MaskTypes
<1>5. AlarmGetsThrough'
  BY <1>1, <1>2 DEF MaskInv, AlarmGetsThrough
<1>6. OnlyFiberOnePreempted'
  <2> SUFFICES ASSUME online = {Main} PROVE OnlyFiberOnePreempted'
    BY <1>1 DEF OnlyFiberOnePreempted
  <2>1. t = Main /\ run[t] # 1
    BY <1>1, <1>2 DEF Idle
  <2>2. Main \in blocked
    BY <1>1, <2>1 DEF MaskInv, OnlyFiberOnePreempted, FiberId, NoFiber
  <2> QED BY <1>2, <2>2 DEF MaskInv, OnlyFiberOnePreempted
<1> QED BY <1>4, <1>5, <1>6 DEF MaskInv

\* A handler returns, in the thread that resumed its fiber.
LEMMA MaskReturn ==
  ASSUME MaskInv, NEW t \in Thread, NEW f \in FiberId, HandlerReturn(t, f), Types'
  PROVE  MaskInv'
<1> USE WorkersCounted, BenchmarkAssumption
<1>1. /\ run[t] = f /\ depth[f] > 0 /\ UNCHANGED <<run, fibs, online>>
      /\ depth' = [depth EXCEPT ![f] = depth[f] - 1]
      /\ blocked' = blocked \ {t}
  BY DEF HandlerReturn, Unblock, fiberVars, setup
<1>2. MaskTypes
  BY DEF MaskInv
<1>3. depth[f] \in Nat /\ depth[f] - 1 \in Nat
  BY <1>1, <1>2 DEF MaskTypes
<1>4. /\ depth' \in [FiberId -> Nat] /\ depth'[f] = depth[f] - 1
      /\ \A g \in FiberId : g # f => depth'[g] = depth[g]
  BY <1>1, <1>2, <1>3 DEF MaskTypes
<1>5. f \in Worker /\ t \in online
  BY <1>1, <1>2 DEF MaskTypes, FiberId, NoFiber
<1>6. MaskTypes'
  <2>1. ASSUME NEW a \in FiberId \ Worker, depth'[a] > 0
        PROVE  a \in fibs /\ \A u \in Thread : run[u] # a
    BY <1>2, <1>4, <1>5, <2>1 DEF MaskTypes
  <2> QED BY <1>1, <1>2, <1>4, <2>1 DEF MaskTypes
<1>7. AlarmGetsThrough'
  <2>1. t \in Working' /\ t \notin blocked'
    BY <1>1, <1>5 DEF Working
  <2> QED BY <2>1 DEF AlarmGetsThrough
<1>8. OnlyFiberOnePreempted'
  <2> SUFFICES ASSUME online = {Main} PROVE OnlyFiberOnePreempted'
    BY <1>1 DEF OnlyFiberOnePreempted
  <2>1. /\ \A g \in FiberId \ {1} : depth[g] = 0
        /\ depth[1] = IF Main \in blocked THEN 1 ELSE 0
    BY DEF MaskInv, OnlyFiberOnePreempted
  <2>2. t = Main /\ f = 1
    BY <1>1, <1>5, <2>1
  <2>3. depth'[1] = 0 /\ Main \notin blocked'
    BY <1>1, <1>4, <2>1, <2>2
  <2> QED BY <1>1, <1>4, <2>1, <2>2, <2>3 DEF OnlyFiberOnePreempted
<1> QED BY <1>6, <1>7, <1>8, <1>1 DEF MaskInv

LEMMA MaskStep ==
  ASSUME MaskInv, [Next]_vars, Types'
  PROVE  MaskInv'
<1> USE WorkersCounted, BenchmarkAssumption
<1>1. fibs \subseteq FiberId
  BY DEF MaskInv, MaskTypes
<1>2. CASE MainConvert
  <2>1. Fiber!Convert(Main, 1) /\ UNCHANGED <<online, depth, blocked>>
    BY <1>2 DEF MainConvert, signals
  <2>2. Main \in online
    BY DEF MaskInv, MaskTypes
  <2> QED BY <2>1, <2>2, MaskConvert
<1>3. CASE MainCreate
  <2>1. /\ UNCHANGED <<run, online, depth, blocked>>
        /\ fibs' = fibs \cup {created + 1} /\ created + 1 \in Worker
    BY <1>3 DEF MainCreate, Fiber!Create, signals, Worker
  <2> QED BY <1>1, <2>1, MaskQuiet
<1>4. CASE MainReady \/ Expire
  BY <1>1, <1>4, MaskQuiet DEF MainReady, Expire, fiberVars, setup
<1>5. ASSUME NEW t \in Thread, ThreadConvert(t) PROVE MaskInv'
  <2>1. PICK f \in FiberId \ Worker : Fiber!Convert(t, f)
    BY <1>5 DEF ThreadConvert
  <2>2. t \in online /\ t # Main /\ UNCHANGED <<online, depth, blocked>>
    BY <1>5 DEF ThreadConvert, setup, signals
  <2> QED BY <2>1, <2>2, MaskConvert
<1>6. ASSUME NEW f \in FiberId, FiberStep(f) PROVE MaskInv'
  <2>1. UNCHANGED <<run, fibs, online, depth, blocked>>
    BY <1>6 DEF FiberStep, ProcessEvent, Complete, Exit, fiberVars, setup, signals
  <2> QED BY <1>1, <2>1, MaskQuiet
<1>7. ASSUME NEW f \in FiberId, Return(f) PROVE MaskInv'
  BY <1>7, MaskReturn DEF Return
<1>8. ASSUME NEW g \in RandomFiber, Resume(g) PROVE MaskInv'
  <2>1. g \in Worker
    BY DEF RandomFiber
  <2> QED BY <1>8, <2>1, MaskAlarmSwitch, MaskSwitchAway DEF Resume
<1>9. ASSUME NEW t \in Thread, NEW g \in RandomFiber,
             AlarmFails(t, g) \/ \E f \in FiberId : SwitchFails(t, f, g)
      PROVE  MaskInv'
  <2>1. UNCHANGED <<run, fibs, online, depth, blocked>>
    BY <1>9 DEF AlarmFails, SwitchFails, fiberVars, setup
  <2> QED BY <1>1, <2>1, MaskQuiet
<1>10. CASE UNCHANGED vars
  BY <1>1, <1>10, MaskQuiet DEF vars, fiberVars, setup, signals
<1> QED
  BY <1>2, <1>3, <1>4, <1>5, <1>6, <1>7, <1>8, <1>9, <1>10 DEF Next, MainStep

\* The invariant holds of every state.
LEMMA MaskInvariant == Spec => []MaskInv
<1>1. Init => MaskInv
  <2> SUFFICES ASSUME Init PROVE MaskInv
    OBVIOUS
  <2> USE BenchmarkAssumption, WorkersCounted
  <2>1. Types
    BY DEF Init, Types, Fiber!Init
  <2>2. /\ \A f \in FiberId : depth[f] = 0
        /\ \A t \in Thread : run[t] = NoFiber
        /\ blocked = {} /\ fibs = {} /\ online \subseteq Thread /\ Main \in online
    BY DEF Init, Fiber!Init
  <2>3. MaskTypes
    BY <2>2 DEF Init, MaskTypes
  <2>4. AlarmGetsThrough
    <3>1. Main \in Working
      BY <2>2 DEF Working
    <3> QED BY <2>2, <3>1 DEF AlarmGetsThrough
  <2>5. OnlyFiberOnePreempted
    BY <2>2 DEF OnlyFiberOnePreempted
  <2> QED BY <2>1, <2>3, <2>4, <2>5 DEF MaskInv
<1>2. BenchmarkInv' => Types'
  BY DEF BenchmarkInv
<1>3. MaskInv /\ [Next]_vars /\ Types' => MaskInv'
  BY MaskStep
<1> QED BY <1>1, <1>2, <1>3, BenchmarkInvariant, PTL DEF Spec

\* However the alarm moves fibers from thread to thread, some thread can get it
\* or a fiber that anybody may resume will unblock it, for any number of CPUs.
THEOREM AlarmIsNeverLost == Spec => []AlarmGetsThrough
<1>1. MaskInv => AlarmGetsThrough
  BY DEF MaskInv
<1> QED BY <1>1, MaskInvariant, PTL

\* On one CPU only the wait of fiber 1 is ever interrupted, and always can be.
THEOREM OneCpuPreemptsFiberOne == Spec => []OnlyFiberOnePreempted
<1>1. MaskInv => OnlyFiberOnePreempted
  BY DEF MaskInv
<1> QED BY <1>1, MaskInvariant, PTL

=============================================================================
