---------------------------- MODULE FibersProps -----------------------------
(***************************************************************************)
(* What makes the fibers of a process correct: the properties checked by   *)
(* the runs of MCFibers, the inductive invariants behind them and the      *)
(* refinement of FiberSpec.                                                *)
(***************************************************************************)
EXTENDS Fibers

-----------------------------------------------------------------------------
(***************************************************************************)
(* Correctness                                                             *)
(***************************************************************************)

TypeTables ==
  /\ plock \in Thread \cup {NULL}
  /\ nproc \in Nat
  /\ active \in Int
  /\ lastId \in 0..MaxFibers
  /\ threads \subseteq Thread
  /\ fibers \subseteq FiberId
  /\ known \subseteq FiberId
  /\ open \in BOOLEAN

TypeLinks ==
  /\ sel \in [Thread -> 0..MaxFibers]
  /\ lock \in [FiberId -> BOOLEAN]
  /\ attached \in [FiberId -> Thread \cup {NULL}]

TypePc == pc \in [Thread -> {"user", "dead", "fault"} \cup IoctlSteps \cup ExitSteps]

TypeLocals ==
  /\ cmd \in [Thread -> {"none", "convert", "create", "switch"}]
  /\ ep \in [Thread -> {"null", "live", "freed"}]
  /\ cur \in [Thread -> 0..MaxFibers]
  /\ prev \in [Thread -> 0..MaxFibers]
  /\ final \in [Thread -> BOOLEAN]

TypeContexts ==
  /\ regs \in [FiberId -> GpContext]
  /\ fpu \in [FiberId -> FpContext]
  /\ gp \in [Thread -> GpContext]
  /\ fp \in [Thread -> FpContext]
  /\ body \in [FiberId -> Code]
  /\ phase \in [Code -> 0..Phases]

\* Every variable keeps its type: pointers name threads and fibers that can
\* exist, a fiber id is never taken from beyond last_fiber_id's range, and a
\* saved context is always a whole context.
TypeOK == TypeTables /\ TypeLinks /\ TypePc /\ TypeLocals /\ TypeContexts

\* A process has at most one struct process: do_ConvertThreadToFiber looks it
\* up and links it under struct_process_lock.
UniqueProcess == nproc <= 1

\* A thread that runs a fiber in user mode.
Runs(t, f) == pc[t] = "user" /\ t \in threads /\ sel[t] = f

\* Two threads never run the same fiber: fiber_lock, taken by the thread that
\* switches to a fiber, is given back only by the thread that leaves it.
OneThreadPerFiber ==
  \A t, u \in Thread : \A f \in FiberId : Runs(t, f) /\ Runs(u, f) => t = u

\* A converted thread executes exactly the code of the fiber it selected, on
\* that code's stack, from the point the code had reached, wherever it was
\* suspended (do_SwitchToFiber's and exit_cleanup's save and restore).
ContextIntegrity ==
  \A t \in Thread : pc[t] = "user" /\ t \in threads =>
    LET c == body[sel[t]]
    IN  /\ gp[t] = [code |-> c, stack |-> c, phase |-> phase[c]]
        /\ phase[c] # 0 => fp[t] = [code |-> c, phase |-> phase[c]]

\* The thread that must give fiber f's lock back or, if it is the last one,
\* free the fiber.
Holds(t, f) ==
  /\ ep[t] # "freed"
  /\ pc[t] \notin {"dead", "fault"}
  /\ \/ /\ t \in threads \/ pc[t] = "exit_free_process"
        /\ sel[t] = f
        /\ pc[t] # "convert_trylock"
        /\ pc[t] = "exit_free_thread" => final[t]
     \/ cur[t] = f /\ pc[t] \in {"switch_check", "switch_attach"}
     \/ prev[t] = f /\ pc[t] \in {"switch_save", "switch_detach", "switch_unlock"}

\* A locked fiber is always held by some thread that will unlock it, so that
\* no path of the module makes a fiber unreachable for ever: not the failing
\* switch, which returns with the lock it took when attached_thread is set,
\* and not the exit of the thread that runs it, which unlocks the fiber
\* unless it is the last exit and frees it.
LocksHeld ==
  \A f \in known : lock[f] => \E t \in Thread : Holds(t, f)

\* A fiber that nobody has locked is suspended: its saved context is where
\* its code stopped, whoever ran it last.
SuspendedIntact ==
  \A f \in known : ~lock[f] =>
    LET c == body[f]
    IN  /\ attached[f] = NULL
        /\ regs[f] = [code |-> c, stack |-> c, phase |-> phase[c]]
        /\ phase[c] # 0 => fpu[f] = [code |-> c, phase |-> phase[c]]

\* No thread uses the structures of the process after exit_cleanup or
\* process_cleanup freed them.
NoUseAfterFree == \A t \in Thread : pc[t] # "fault"

\* When every thread has died nothing of the process is left in the table:
\* active_threads reaches zero exactly at the last converted thread's exit.
CleanedUp == (\A t \in Thread : Dead(t)) => nproc = 0

\* attached_thread passes from one thread to another only through NULL, and
\* only the attached thread clears it.
HandoverStep ==
  \A f \in FiberId : f \in known /\ attached[f] # NULL =>
    \/ attached'[f] = attached[f]
    \/ f \notin known'
    \/ /\ attached'[f] = NULL
       /\ pc[attached[f]] \in {"switch_detach", "exit_detach"}
       /\ pc'[attached[f]] # pc[attached[f]]
Handover == [][HandoverStep]_vars

\* The id a thread has reserved for its new fiber is its own and names no
\* fiber yet: last_fiber_id is read and incremented in one step.
FreshIds ==
  \A t \in Thread : pc[t] = "fiber_publish" /\ ep[t] = "live" =>
    /\ cur[t] \notin fibers
    /\ \A u \in Thread \ {t} :
         pc[u] = "fiber_publish" /\ ep[u] = "live" => cur[u] # cur[t]

\* Every call comes back and every exit completes: nobody waits for ever for
\* struct_process_lock, the only lock the module spins on.
CallsReturn ==
  \A t \in Thread : pc[t] \in IoctlSteps \cup ExitSteps
                      ~> pc[t] \in {"user", "dead"}

\* exit_cleanup frees the fibers only when the dying thread is the last one
\* that executes fibers.
LastThreadFrees ==
  \A t \in Thread : pc[t] = "exit_free_process" /\ ep[t] = "live"
    => threads = {}

-----------------------------------------------------------------------------
(***************************************************************************)
(* Inductive invariants                                                    *)
(***************************************************************************)

\* Steps of a call or an exit made by a thread that has its struct thread.
ThreadSteps == {"fiber_reserve", "fiber_publish", "create_entry",
                "convert_stack", "convert_attach", "convert_trylock"}
                 \cup SwitchSteps
                 \cup {"exit_dec", "exit_save", "exit_detach", "exit_unlock",
                       "exit_free_thread"}

\* Steps at which cur is the fiber under construction.
BuildSteps == {"fiber_publish", "create_entry", "convert_stack",
               "convert_attach", "convert_trylock"}

Builds(t, f) == ep[t] = "live" /\ pc[t] \in BuildSteps /\ cur[t] = f

\* Pointers to the struct process: nobody who may still use one misses that
\* it was freed, and one exists while anybody has a valid pointer.
PointersOK ==
  /\ nproc <= 1
  /\ nproc = 0 => threads = {} /\ fibers = {} /\ known = {}
  /\ \A t \in Thread :
       /\ ep[t] = "live" => nproc = 1
       /\ ep[t] = "freed" => t \notin threads
       /\ pc[t] \in {"user", "dead", "convert_lock", "convert_find"}
            => ep[t] = "null"
       /\ ep[t] = "null" => pc[t] \in {"user", "dead", "convert_lock",
                                       "convert_find", "convert_process"}
       /\ ep[t] = "live" /\ pc[t] \in ThreadSteps => t \in threads

\* struct_process_lock is held exactly while a process is looked up or
\* created, so a missing process stays missing until its finder makes it.
ProcessLockOK ==
  \A t \in Thread :
    /\ pc[t] \in {"convert_find", "convert_process"} => plock = t
    /\ pc[t] = "convert_process" /\ ep[t] = "null" => nproc = 0

\* Ids: linked fibers and fibers under construction come from last_fiber_id,
\* and each fiber under construction has one builder.
IdsOK ==
  /\ \A f \in fibers : f <= lastId
  /\ \A t \in Thread : \A f \in FiberId : Builds(t, f) =>
       /\ f <= lastId
       /\ pc[t] = "fiber_publish" <=> f \notin fibers
       /\ \A u \in Thread : Builds(u, f) => u = t

\* A call that builds or switches to a fiber has its id.
CurOK ==
  \A t \in Thread :
    /\ pc[t] \in BuildSteps \cup SwitchSteps => cur[t] \in FiberId
    /\ pc[t] = "find_thread"
         => cmd[t] = "create" \/ (cmd[t] = "switch" /\ cur[t] \in FiberId)

\* What holds of every client.
BaseInv == TypeOK /\ PointersOK /\ ProcessLockOK /\ CurOK /\ IdsOK

\* The fibers whose lock thread t has taken and not given back.
Owns(t, f) ==
  /\ t \in threads
  /\ \/ sel[t] = f /\ pc[t] \notin {"convert_trylock", "exit_free_thread"}
     \/ cur[t] = f /\ pc[t] \in {"switch_check", "switch_attach"}
     \/ prev[t] = f /\ pc[t] \in {"switch_save", "switch_detach", "switch_unlock"}

OwnedLocked ==
  \A t \in Thread, f \in FiberId : Owns(t, f) => f \in known /\ lock[f]

OneOwner ==
  \A t, u \in Thread, f \in FiberId : Owns(t, f) /\ Owns(u, f) => t = u

\* Nobody can lock a fiber before its id is returned.
Unreturned ==
  /\ known \subseteq fibers
  /\ \A f \in fibers \ known : ~lock[f]
  /\ \A t \in Thread, f \in FiberId : Builds(t, f) => f \notin known

\* A switch is to a returned id, and never to the fiber the thread runs.
SwitchOK ==
  \A t \in Thread :
    /\ pc[t] = "convert_trylock" => sel[t] = cur[t]
    /\ pc[t] \in SwitchSteps \/ (pc[t] = "find_thread" /\ cmd[t] = "switch")
         => ep[t] = "freed" \/ cur[t] \in known
    /\ pc[t] \in {"switch_check", "switch_attach"} => cur[t] # sel[t]
    /\ pc[t] \in {"switch_save", "switch_detach", "switch_unlock"}
         => prev[t] # sel[t]

\* The lock discipline of clients that use only the ids they were given: a
\* fiber that a thread runs, enters or leaves is locked, by that thread only.
LockInv == OwnedLocked /\ OneOwner /\ Unreturned /\ SwitchOK

\* The threads that active_threads counts: those with a struct thread that
\* have not come past the decrement in exit_cleanup.
Leaving == {"exit_save", "exit_detach", "exit_unlock", "exit_free_thread"}
Counted == {t \in threads : pc[t] \notin Leaving}

\* A thread that found itself the last one.
Final(t) == \/ pc[t] = "exit_free_process"
            \/ pc[t] \in Leaving /\ final[t]

\* A thread whose struct thread exit_cleanup has freed.
Gone(t) == pc[t] \in {"dead", "exit_free_process"}

\* A thread that is about to use the process or to free it.
Needs(t) == ep[t] = "live" /\ (pc[t] = "convert_thread" \/ Final(t))

\* active_threads counts the threads that use the process, and a process that
\* no thread uses is about to get one or to be freed.
ExitInv ==
  /\ active = Cardinality(Counted)
  /\ \A t \in Thread : Gone(t) => t \notin threads
  /\ nproc = 1 => active > 0 \/ \E t \in Thread : Needs(t)

\* Clients that start and join their threads in Main: Main is a fiber while
\* the others make calls, and nobody frees the process but Main, when they
\* are dead.
JoinedInv ==
  /\ \A t \in Thread : ep[t] # "freed" /\ pc[t] # "fault"
  /\ pc[Main] \in ExitSteps \cup {"dead"} \/ ~open
       => \A t \in Thread \ {Main} : Dead(t)
  /\ \A t \in Thread \ {Main} :
       /\ t \in threads \/ pc[t] \in IoctlSteps => Main \in threads
       /\ ~Final(t)
  /\ ~open => nproc = 0 /\ \A t \in Thread : pc[t] \notin IoctlSteps

\* A thread that is being converted and has no fiber yet.
Converting(t) == \/ pc[t] \in {"convert_stack", "convert_attach"}
                 \/ pc[t] \in InitFiberSteps /\ cmd[t] = "convert"

\* The command of a call that builds a fiber.
CmdOK ==
  \A t \in Thread :
    /\ pc[t] \in {"convert_lock", "convert_find", "convert_process",
                  "convert_thread"} => cmd[t] = "convert"
    /\ pc[t] \in InitFiberSteps => cmd[t] \in {"convert", "create"}

\* The fibers whose attached_thread thread t relies on: it runs one, and may be
\* leaving or entering another.
Attaches(t) ==
  /\ sel[t] = NoFiber <=> Converting(t)
  /\ ~Converting(t) /\ pc[t] \notin {"exit_unlock", "exit_free_thread"}
       => attached[sel[t]] = t
  /\ pc[t] \in {"switch_save", "switch_detach", "switch_unlock"}
       => prev[t] \in FiberId
  /\ pc[t] \in {"switch_save", "switch_detach", "switch_unlock", "switch_restore"}
       => sel[t] = cur[t]
  /\ pc[t] \in {"switch_save", "switch_detach"} => attached[prev[t]] = t
  /\ pc[t] = "switch_unlock" => attached[prev[t]] = NULL
  /\ pc[t] = "exit_unlock" => attached[sel[t]] = NULL
  /\ pc[t] \in {"switch_check", "switch_attach", "create_entry"}
       => attached[cur[t]] = NULL

\* attached_thread and the lock of a fiber agree: a fiber points to the thread
\* that runs it, and to none when it is unlocked or about to be.
AttachInv ==
  /\ CmdOK
  /\ \A t \in threads : Attaches(t)
  /\ \A f \in known : ~lock[f] => attached[f] = NULL

\* A context g, h that stands where code c has come to.  The floating-point
\* half of a new fiber is its creator's, until its code has worked.
Whole(g, h, c) ==
  /\ g = [code |-> c, stack |-> c, phase |-> phase[c]]
  /\ phase[c] # 0 => h = [code |-> c, phase |-> phase[c]]

Loaded(t, c) == Whole(gp[t], fp[t], c)
Saved(f) == Whole(regs[f], fpu[f], body[f])

\* A thread that is no fiber yet runs its own code, which no fiber has.
Unconverted(t) ==
  \/ t \notin threads /\ pc[t] \notin {"dead", "exit_free_process"}
  \/ t \in threads /\ (Converting(t) \/ pc[t] = "convert_trylock")

OwnCode ==
  \A t \in Thread : open /\ Unconverted(t) =>
    Loaded(t, t) /\ \A f \in known : body[f] # t

\* Every fiber has a code of its own.
Bodies ==
  /\ \A f \in known : body[f] \in Thread \cup {f}
  /\ \A f, g \in known : body[f] = body[g] => f = g

\* What a fiber under construction has of its context.
Built ==
  \A t \in threads :
    /\ pc[t] \in {"convert_stack", "convert_attach", "convert_trylock"}
         => body[cur[t]] = t
    /\ pc[t] = "create_entry" =>
         body[cur[t]] = cur[t] /\ phase[cur[t]] = 0 /\ regs[cur[t]].stack = cur[t]

\* The fiber whose code a thread's registers belong to.
OnCpu(t, f) ==
  \/ pc[t] \in {"switch_save", "switch_detach", "switch_unlock"} /\ prev[t] = f
  \/ /\ sel[t] = f
     /\ \/ pc[t] = "exit_free_process"
        \/ /\ t \in threads
           /\ ~Unconverted(t)
           /\ pc[t] \notin {"switch_save", "switch_detach", "switch_unlock",
                            "switch_restore"}
           /\ pc[t] = "exit_free_thread" => final[t]

Running ==
  \A t \in Thread, f \in FiberId : OnCpu(t, f) => f \in known /\ Loaded(t, body[f])

\* The fibers whose context is in memory: those that nobody runs, and those
\* that a thread is about to enter or has just left.
InMemory(t, f) ==
  \/ cur[t] = f /\ pc[t] \in SwitchSteps \ {"switch_lookup", "switch_trylock"}
  \/ prev[t] = f /\ pc[t] \in {"switch_detach", "switch_unlock"}
  \/ sel[t] = f /\ pc[t] \in {"exit_detach", "exit_unlock"}

Stored ==
  \A f \in known : ~lock[f] \/ (\E t \in Thread : InMemory(t, f)) => Saved(f)

\* What a context switch relies on, for clients that are joined and use the
\* ids they were given.
ContextInv == OwnCode /\ Bodies /\ Built /\ Running /\ Stored

-----------------------------------------------------------------------------
(***************************************************************************)
(* Refinement: the module implements FiberSpec.  A switch takes place when *)
(* the lock of the previous fiber is given back, a conversion and a        *)
(* creation when the call returns the id.  The context of a fiber is read  *)
(* from the registers of the CPU that runs it, or else from where the      *)
(* module saved it.                                                        *)
(***************************************************************************)
RunOf(t) ==
  CASE pc[t] \in {"switch_save", "switch_detach", "switch_unlock"} -> prev[t]
    [] pc[t] = "exit_free_process" -> sel[t]
    [] pc[t] = "exit_free_thread" /\ ~final[t] -> NoFiber
    [] OTHER -> IF t \in threads /\ sel[t] \in known THEN sel[t] ELSE NoFiber

ContextOf(f) ==
  LET inCPU == {t \in Thread : RunOf(t) = f /\ pc[t] # "switch_restore"}
      context == IF inCPU # {} THEN gp[CHOOSE t \in inCPU : TRUE] ELSE regs[f]
  IN  IF f \in known THEN [code |-> context.code, phase |-> context.phase]
                     ELSE [code |-> f, phase |-> 0]

RunMap == [t \in Thread |-> RunOf(t)]
ContextMap == [f \in FiberId |-> ContextOf(f)]

Promise == INSTANCE FiberSpec WITH run <- RunMap, fibs <- known, ctx <- ContextMap

\* Every behaviour of the module is one of atomic conversions, creations,
\* switches, exits and work that FiberSpec allows.
ImplementsFiberSpec == Promise!Spec

=============================================================================
