------------------------------- MODULE Fibers -------------------------------
(***************************************************************************)
(* The kernel side of the fibers of ONE process: the struct process,       *)
(* struct thread and struct fiber tables of module/fibers.c, the three     *)
(* calls that build and move fibers (do_ConvertThreadToFiber,              *)
(* do_CreateFiber, do_SwitchToFiber), the clean-up kprobe on do_exit       *)
(* (exit_cleanup in module/kprobes.c) and the one on close                 *)
(* (process_cleanup).  Every thread of the process runs on a CPU of its    *)
(* own; an action is a piece of a call with at most one access to memory   *)
(* that another thread uses at the same time (the two halves of a context  *)
(* are copied together, and a table is updated in one step).               *)
(*                                                                         *)
(* A CPU context is abstracted to the code it belongs to, the stack it     *)
(* runs on and a phase that changes whenever that code does some work.     *)
(* Fiber-local storage, the statistics and /proc are not part of this      *)
(* module.                                                                 *)
(***************************************************************************)
EXTENDS Integers, FiniteSets

CONSTANTS
  Thread,     \* the threads of the process (current->pid)
  Main,       \* the thread that runs main()
  MaxFibers,  \* bound: fiber ids go from 1 to MaxFibers
  Phases,     \* bound: working code cycles through the phases 1..Phases
  NULL,       \* the null struct thread pointer
  GuessIds,   \* clients may switch to an id no call has returned yet
  Joined      \* clients convert in Main first and join every thread in Main

FiberId == 1..MaxFibers
NoFiber == 0            \* the null struct fiber pointer
Code    == Thread \cup FiberId

ASSUME ConstantsAssumption ==
  /\ MaxFibers \in Nat \ {0}
  /\ Phases \in Nat
  /\ Main \in Thread
  /\ IsFiniteSet(Thread)
  /\ NULL \notin Thread
  /\ Thread \cap (0..MaxFibers) = {}
  /\ GuessIds \in BOOLEAN
  /\ Joined \in BOOLEAN

(***************************************************************************)
(* Saved and live register files.  stack = NoFiber is the stack pointer    *)
(* that init_fiber computes from a null stack.                             *)
(***************************************************************************)
GpContext == [code : Code, stack : Code \cup {NoFiber}, phase : 0..Phases]
FpContext == [code : Code, phase : 0..Phases]

VARIABLES
  \* shared kernel memory
  plock,     \* struct_process_lock: its holder, or NULL
  nproc,     \* struct process of this tgid linked in the table processes
  active,    \* process->active_threads
  lastId,    \* process->last_fiber_id
  threads,   \* process->threads: the threads that have a struct thread
  fibers,    \* process->fibers: the fibers that can be looked up
  sel,       \* thread->selected_fiber
  lock,      \* fiber->fiber_lock is held
  attached,  \* fiber->attached_thread
  regs,      \* fiber->registers
  fpu,       \* fiber->fpu
  \* each thread's place in the kernel and its local variables
  pc,        \* "user", "dead", "fault", or the next step of the call
  cmd,       \* which call runs
  ep,        \* the local struct process pointer: "null", "live" or "freed"
  cur,       \* the fiber the call builds or switches to
  prev,      \* do_SwitchToFiber's prev_fiber
  final,     \* exit_cleanup's ret == 0
  \* the CPUs, the descriptor and what user space knows
  gp, fp,    \* live general-purpose and floating-point registers
  open,      \* /dev/fibers is open
  known,     \* ids returned to user space by the current struct process
  body,      \* whose code each fiber is: a thread's own or the fiber's
  phase      \* how far each code has come

tables == <<nproc, active, lastId, threads, fibers>>
structs == <<lock, attached, regs, fpu>>
locals == <<cmd, ep, cur, prev, final>>
cpus   == <<gp, fp>>
users  == <<open, known, body, phase>>
vars   == <<plock, tables, sel, structs, pc, locals, cpus, users>>

-----------------------------------------------------------------------------

ConvertSteps == {"convert_lock", "convert_find", "convert_process",
                 "convert_thread", "convert_stack", "convert_attach",
                 "convert_trylock"}
InitFiberSteps == {"fiber_reserve", "fiber_publish"}
CreateSteps == {"create_entry"}
SwitchSteps == {"switch_lookup", "switch_trylock", "switch_check",
                "switch_attach", "switch_save", "switch_detach",
                "switch_unlock", "switch_restore"}
IoctlSteps  == ConvertSteps \cup {"find_thread"} \cup InitFiberSteps
                 \cup CreateSteps \cup SwitchSteps
ExitSteps   == {"exit_thread", "exit_dec", "exit_save", "exit_detach",
                "exit_unlock", "exit_free_thread", "exit_free_process"}

\* Steps that touch no memory reached through the struct process pointer.
NoDeref == {"user", "dead", "fault", "convert_lock", "convert_find",
            "convert_process"}

Goto(t, label) == pc' = [pc EXCEPT ![t] = label]

Step(t, from, to) ==
  /\ pc[t] = from
  /\ ep[t] # "freed"
  /\ Goto(t, to)

\* The call goes on with the local variables it has.
Continue(t, label) == Goto(t, label) /\ UNCHANGED locals

\* The call ends; its local variables die with it.
Leave(t, label) ==
  /\ Goto(t, label)
  /\ cmd'  = [cmd EXCEPT ![t] = "none"]
  /\ ep'   = [ep EXCEPT ![t] = "null"]
  /\ cur'  = [cur EXCEPT ![t] = NoFiber]
  /\ prev' = [prev EXCEPT ![t] = NoFiber]
  /\ UNCHANGED final

Return(t) == Leave(t, "user")

\* find_process_by_tgid(current->tgid)
FindProcessUnchecked == "live"
FindProcess == IF nproc > 0 THEN "live" ELSE "null"

\* The spinlocks: struct_process_lock, which convert spins on, and each
\* fiber's fiber_lock, which is only tried.
ProcessLockIgnored == TRUE
ProcessLockFree == plock = NULL

UnlockProcessForgotten == UNCHANGED plock
UnlockProcess == plock' = NULL

TrylockNeverFails(f) == FALSE
TrylockFails(f) == lock[f]

UnlockFiberForgotten(f) == UNCHANGED lock
UnlockFiber(f) == lock' = [lock EXCEPT ![f] = FALSE]

Init ==
  /\ plock = NULL
  /\ nproc = 0
  /\ active = 0
  /\ lastId = 0
  /\ threads = {}
  /\ fibers = {}
  /\ sel = [t \in Thread |-> NoFiber]
  /\ lock = [f \in FiberId |-> FALSE]
  /\ attached = [f \in FiberId |-> NULL]
  /\ regs = [f \in FiberId |-> [code |-> f, stack |-> f, phase |-> 0]]
  /\ fpu = [f \in FiberId |-> [code |-> f, phase |-> 0]]
  /\ pc = [t \in Thread |-> "user"]
  /\ cmd = [t \in Thread |-> "none"]
  /\ ep = [t \in Thread |-> "null"]
  /\ cur = [t \in Thread |-> NoFiber]
  /\ prev = [t \in Thread |-> NoFiber]
  /\ final = [t \in Thread |-> FALSE]
  /\ gp = [t \in Thread |-> [code |-> t, stack |-> t, phase |-> 0]]
  /\ fp = [t \in Thread |-> [code |-> t, phase |-> 0]]
  /\ open = TRUE
  /\ known = {}
  /\ body = [f \in FiberId |-> f]
  /\ phase = [c \in Code |-> 0]

-----------------------------------------------------------------------------
(***************************************************************************)
(* User space.                                                             *)
(***************************************************************************)

\* The code a thread runs makes progress: every register may change.
Work(t) ==
  /\ pc[t] = "user"
  /\ Phases > 0
  /\ LET c == gp[t].code
         p == IF gp[t].phase < Phases THEN gp[t].phase + 1 ELSE 1
     IN  /\ gp' = [gp EXCEPT ![t] = [@ EXCEPT !.phase = p]]
         /\ fp' = [fp EXCEPT ![t] = [code |-> c, phase |-> p]]
         /\ phase' = [phase EXCEPT ![c] = p]
  /\ UNCHANGED <<plock, tables, sel, structs, pc, locals, open, known, body>>

\* Threads that may still reserve a fiber id in the call they are in.
Reserving == {t \in Thread : /\ pc[t] \in IoctlSteps
                             /\ cmd[t] \in {"convert", "create"}
                             /\ cur[t] = NoFiber}

\* With Joined, as in fiberlib/multithread.c, the other threads are started
\* by Main once it is a fiber.
MayCall(t) == open /\ (Joined => t = Main \/ Main \in threads)

\* fibers_ioctl dispatches the command.  An id is passed to SwitchToFiber.
CallConvert(t) ==
  /\ pc[t] = "user"
  /\ MayCall(t)
  /\ lastId + Cardinality(Reserving) < MaxFibers
  /\ Goto(t, "convert_lock")
  /\ cmd' = [cmd EXCEPT ![t] = "convert"]
  /\ UNCHANGED <<plock, tables, sel, structs, ep, cur, prev, final, cpus, users>>

\* The first step of do_CreateFiber.
CallCreate(t) ==
  /\ pc[t] = "user"
  /\ MayCall(t)
  /\ lastId + Cardinality(Reserving) < MaxFibers
  /\ FindProcess = "live"   \* else the call returns -1 and nothing changes
  /\ Goto(t, "find_thread")
  /\ cmd' = [cmd EXCEPT ![t] = "create"]
  /\ ep' = [ep EXCEPT ![t] = "live"]
  /\ UNCHANGED <<plock, tables, sel, structs, cur, prev, final, cpus, users>>

\* The first step of do_SwitchToFiber.
CallSwitch(t, f) ==
  /\ pc[t] = "user"
  /\ MayCall(t)
  /\ GuessIds \/ f \in known
  /\ FindProcess = "live"   \* else the call returns -1 and nothing changes
  /\ Goto(t, "find_thread")
  /\ cmd' = [cmd EXCEPT ![t] = "switch"]
  /\ ep' = [ep EXCEPT ![t] = "live"]
  /\ cur' = [cur EXCEPT ![t] = f]
  /\ UNCHANGED <<plock, tables, sel, structs, prev, final, cpus, users>>

\* find_thread_by_pid: only a converted thread may create and switch.
FindThread(t) ==
  /\ pc[t] = "find_thread"
  /\ ep[t] # "freed"
  /\ \/ t \notin threads /\ Return(t)
     \/ /\ t \in threads
        /\ Continue(t, IF cmd[t] = "create" THEN "fiber_reserve"
                                            ELSE "switch_lookup")
  /\ UNCHANGED <<plock, tables, sel, structs, cpus, users>>

-----------------------------------------------------------------------------
(***************************************************************************)
(* do_ConvertThreadToFiber                                                 *)
(***************************************************************************)

ConvertLock(t) ==
  /\ Step(t, "convert_lock", "convert_find")
  /\ ProcessLockFree
  /\ plock' = t
  /\ UNCHANGED <<tables, sel, structs, locals, cpus, users>>

ConvertFind(t) ==
  /\ Step(t, "convert_find", "convert_process")
  /\ ep' = [ep EXCEPT ![t] = FindProcess]
  /\ UNCHANGED <<plock, tables, sel, structs, cmd, cur, prev, final, cpus, users>>

\* init_process: an empty struct process, linked as its last step.
InitProcess ==
  /\ nproc' = nproc + 1
  /\ active' = 0
  /\ lastId' = 0
  /\ threads' = {}
  /\ fibers' = {}

ConvertProcess(t) ==
  /\ pc[t] = "convert_process"
  /\ Goto(t, "convert_thread")
  /\ \/ ep[t] = "null" /\ InitProcess /\ ep' = [ep EXCEPT ![t] = "live"]
     \/ ep[t] # "null" /\ UNCHANGED <<tables, ep>>
  /\ UnlockProcess
  /\ UNCHANGED <<sel, structs, cmd, cur, prev, final, cpus, users>>

\* A thread converts once; init_thread counts it and links its struct thread.
ConvertThread(t) ==
  /\ pc[t] = "convert_thread"
  /\ ep[t] # "freed"
  /\ \/ t \in threads /\ Return(t) /\ UNCHANGED <<tables, sel>>
     \/ /\ t \notin threads
        /\ Continue(t, "fiber_reserve")
        /\ sel' = [sel EXCEPT ![t] = NoFiber]
        /\ active' = active + 1
        /\ threads' = threads \cup {t}
        /\ UNCHANGED <<nproc, lastId, fibers>>
  /\ UNCHANGED <<plock, structs, cpus, users>>

-----------------------------------------------------------------------------
(***************************************************************************)
(* init_fiber, used by ConvertThreadToFiber and CreateFiber                *)
(***************************************************************************)

\* atomic64_inc_return(&last_fiber_id)
IncLastFiberIdLost == UNCHANGED lastId
IncLastFiberId == lastId' = lastId + 1

InitFiberReserve(t) ==
  /\ Step(t, "fiber_reserve", "fiber_publish")
  /\ lastId + 1 \in FiberId
  /\ IncLastFiberId
  /\ cur' = [cur EXCEPT ![t] = lastId + 1]
  /\ UNCHANGED <<plock, nproc, active, threads, fibers, sel, structs,
                 cmd, ep, prev, final, cpus, users>>

\* The fiber can be looked up before its context is complete: the caller's
\* registers on the new stack (CreateFiber) or on no stack (Convert).
InitFiberPublish(t) ==
  LET f == cur[t]
      creating == cmd[t] = "create"
  IN
  /\ Step(t, "fiber_publish",
          IF creating THEN "create_entry" ELSE "convert_stack")
  /\ lock' = [lock EXCEPT ![f] = FALSE]
  /\ attached' = [attached EXCEPT ![f] = NULL]
  /\ regs' = [regs EXCEPT ![f] = [code  |-> gp[t].code,
                                   stack |-> IF creating THEN f ELSE NoFiber,
                                   phase |-> gp[t].phase]]
  /\ fibers' = fibers \cup {f}
  /\ body' = [body EXCEPT ![f] = IF creating THEN f ELSE gp[t].code]
  /\ phase' = IF creating THEN [phase EXCEPT ![f] = 0] ELSE phase
  /\ UNCHANGED <<plock, nproc, active, lastId, threads, sel, fpu,
                 locals, cpus, open, known>>

\* The end of init_fiber, and the stack of the running thread.
ConvertStack(t) ==
  /\ Step(t, "convert_stack", "convert_attach")
  /\ fpu' = [fpu EXCEPT ![cur[t]] = fp[t]]
  /\ regs' = [regs EXCEPT ![cur[t]] = [@ EXCEPT !.stack = gp[t].stack]]
  /\ UNCHANGED <<plock, tables, sel, lock, attached, locals, cpus, users>>

ConvertAttach(t) ==
  /\ Step(t, "convert_attach", "convert_trylock")
  /\ attached' = [attached EXCEPT ![cur[t]] = t]
  /\ sel' = [sel EXCEPT ![t] = cur[t]]
  /\ UNCHANGED <<plock, tables, lock, regs, fpu, locals, cpus, users>>

\* Returns the id, or -1 when another thread holds the new fiber's lock.
ConvertTrylock(t) ==
  /\ pc[t] = "convert_trylock"
  /\ ep[t] # "freed"
  /\ lock' = [lock EXCEPT ![cur[t]] = TRUE]
  /\ known' = IF TrylockFails(cur[t]) THEN known ELSE known \cup {cur[t]}
  /\ Return(t)
  /\ UNCHANGED <<plock, tables, sel, attached, regs, fpu, cpus, open, body, phase>>

\* The end of init_fiber, then the fiber's function and its parameter.
CreateEntry(t) ==
  /\ pc[t] = "create_entry"
  /\ ep[t] # "freed"
  /\ fpu' = [fpu EXCEPT ![cur[t]] = fp[t]]
  /\ regs' = [regs EXCEPT ![cur[t]] = [@ EXCEPT !.code = cur[t], !.phase = 0]]
  /\ known' = known \cup {cur[t]}
  /\ Return(t)
  /\ UNCHANGED <<plock, tables, sel, lock, attached, cpus, open, body, phase>>

-----------------------------------------------------------------------------
(***************************************************************************)
(* do_SwitchToFiber                                                        *)
(***************************************************************************)

SwitchLookup(t) ==
  /\ pc[t] = "switch_lookup"
  /\ ep[t] # "freed"
  /\ \/ cur[t] \notin fibers /\ Return(t)
     \/ cur[t] \in fibers /\ Continue(t, "switch_trylock")
  /\ UNCHANGED <<plock, tables, sel, structs, cpus, users>>

\* spin_trylock(&f->fiber_lock), the left side of the ||
SwitchTrylock(t) ==
  /\ pc[t] = "switch_trylock"
  /\ ep[t] # "freed"
  /\ \/ TrylockFails(cur[t]) /\ Return(t) /\ UNCHANGED lock
     \/ /\ ~TrylockFails(cur[t])
        /\ Continue(t, "switch_check")
        /\ lock' = [lock EXCEPT ![cur[t]] = TRUE]
  /\ UNCHANGED <<plock, tables, sel, attached, regs, fpu, cpus, users>>

\* The right side of the ||: a call that fails here keeps the lock.
SwitchCheck(t) ==
  /\ pc[t] = "switch_check"
  /\ ep[t] # "freed"
  /\ \/ attached[cur[t]] # NULL /\ Return(t)
     \/ attached[cur[t]] = NULL /\ Continue(t, "switch_attach")
  /\ UNCHANGED <<plock, tables, sel, structs, cpus, users>>

SwitchAttach(t) ==
  /\ Step(t, "switch_attach", "switch_save")
  /\ attached' = [attached EXCEPT ![cur[t]] = t]
  /\ prev' = [prev EXCEPT ![t] = sel[t]]
  /\ sel' = [sel EXCEPT ![t] = cur[t]]
  /\ UNCHANGED <<plock, tables, lock, regs, fpu, cmd, ep, cur, final,
                 cpus, users>>

\* The context of the thread is stored in a fiber that stops running.
SaveRegistersOnly(t, f) == regs' = [regs EXCEPT ![f] = gp[t]] /\ UNCHANGED fpu
SaveContext(t, f) ==
  /\ regs' = [regs EXCEPT ![f] = gp[t]]
  /\ fpu' = [fpu EXCEPT ![f] = fp[t]]

SwitchSave(t) ==
  /\ Step(t, "switch_save", "switch_detach")
  /\ SaveContext(t, prev[t])
  /\ UNCHANGED <<plock, tables, sel, lock, attached, locals, cpus, users>>

SwitchDetach(t) ==
  /\ Step(t, "switch_detach", "switch_unlock")
  /\ attached' = [attached EXCEPT ![prev[t]] = NULL]
  /\ UNCHANGED <<plock, tables, sel, lock, regs, fpu, locals, cpus, users>>

SwitchUnlock(t) ==
  /\ Step(t, "switch_unlock", "switch_restore")
  /\ UnlockFiber(prev[t])
  /\ UNCHANGED <<plock, tables, sel, attached, regs, fpu, locals, cpus, users>>

SwitchRestore(t) ==
  /\ pc[t] = "switch_restore"
  /\ ep[t] # "freed"
  /\ gp' = [gp EXCEPT ![t] = regs[cur[t]]]
  /\ fp' = [fp EXCEPT ![t] = fpu[cur[t]]]
  /\ Return(t)
  /\ UNCHANGED <<plock, tables, sel, structs, users>>

-----------------------------------------------------------------------------
(***************************************************************************)
(* exit_cleanup, the kprobe on do_exit, and process_cleanup, called when   *)
(* the descriptor of /dev/fibers is released                               *)
(***************************************************************************)

Dead(t) == pc[t] = "dead"

\* With Joined, Main dies last.
MayLeave(t) == Joined /\ t = Main => \A u \in Thread \ {t} : Dead(u)

\* do_exit is called: the first step of exit_cleanup.
CallExit(t) ==
  /\ pc[t] = "user"
  /\ MayLeave(t)
  /\ \/ FindProcess = "null" /\ Leave(t, "dead")
     \/ /\ FindProcess = "live"
        /\ Goto(t, "exit_thread")
        /\ ep' = [ep EXCEPT ![t] = "live"]
        /\ UNCHANGED <<cmd, cur, prev, final>>
  /\ UNCHANGED <<plock, tables, sel, structs, cpus, users>>

ExitThread(t) ==
  /\ pc[t] = "exit_thread"
  /\ ep[t] # "freed"
  /\ \/ t \notin threads /\ Leave(t, "dead")
     \/ t \in threads /\ Continue(t, "exit_dec")
  /\ UNCHANGED <<plock, tables, sel, structs, cpus, users>>

\* ret == 0, after ret = atomic64_dec_return(&active_threads)
LastButOneThread == active = 2
LastThread == active = 1

ExitDec(t) ==
  /\ Step(t, "exit_dec", IF sel[t] # NoFiber /\ ~LastThread
                         THEN "exit_save" ELSE "exit_free_thread")
  /\ active' = active - 1
  /\ final' = [final EXCEPT ![t] = LastThread]
  /\ UNCHANGED <<plock, nproc, lastId, threads, fibers, sel, structs,
                 cmd, ep, cur, prev, cpus, users>>

ExitSave(t) ==
  /\ Step(t, "exit_save", "exit_detach")
  /\ SaveContext(t, sel[t])
  /\ UNCHANGED <<plock, tables, sel, lock, attached, locals, cpus, users>>

ExitDetach(t) ==
  /\ Step(t, "exit_detach", "exit_unlock")
  /\ attached' = [attached EXCEPT ![sel[t]] = NULL]
  /\ UNCHANGED <<plock, tables, sel, lock, regs, fpu, locals, cpus, users>>

ExitUnlock(t) ==
  /\ Step(t, "exit_unlock", "exit_free_thread")
  /\ UnlockFiber(sel[t])
  /\ UNCHANGED <<plock, tables, sel, attached, regs, fpu, locals, cpus, users>>

ExitFreeThread(t) ==
  /\ pc[t] = "exit_free_thread"
  /\ ep[t] # "freed"
  /\ threads' = threads \ {t}
  /\ \/ final[t] /\ Continue(t, "exit_free_process")
     \/ ~final[t] /\ Leave(t, "dead")
  /\ UNCHANGED <<plock, nproc, active, lastId, fibers, sel, structs,
                 cpus, users>>

\* The struct process and all it leads to is freed by t, whose own pointers
\* die: every other pointer to it dangles.
FreeProcess(t) ==
  /\ nproc' = nproc - 1
  /\ active' = 0
  /\ lastId' = 0
  /\ threads' = {}
  /\ fibers' = {}
  /\ known' = {}
  /\ ep' = [u \in Thread |-> IF u = t \/ ep[u] = "null" THEN "null"
                                                        ELSE "freed"]

ExitFreeProcess(t) ==
  /\ Step(t, "exit_free_process", "dead")
  /\ FreeProcess(t)
  /\ UNCHANGED <<plock, sel, structs, cmd, cur, prev, final, cpus,
                 open, body, phase>>

\* The descriptor is released once no ioctl is running on it.
Close(t) ==
  /\ pc[t] = "user"
  /\ open
  /\ \A u \in Thread : pc[u] \notin IoctlSteps
  /\ Joined => t = Main /\ MayLeave(t)
  /\ open' = FALSE
  /\ \/ FindProcess = "null" /\ UNCHANGED <<tables, ep, known>>
     \/ FindProcess = "live" /\ FreeProcess(t)
  /\ UNCHANGED <<plock, sel, structs, pc, cmd, cur, prev, final, cpus,
                 body, phase>>

\* The next step reads or writes memory that was freed: anything may follow.
Fault(t) ==
  /\ ep[t] = "freed"
  /\ pc[t] \notin NoDeref
  /\ Goto(t, "fault")
  /\ UNCHANGED <<plock, tables, sel, structs, locals, cpus, users>>

-----------------------------------------------------------------------------

KernelStep(t) ==
  \/ FindThread(t)
  \/ ConvertFind(t) \/ ConvertProcess(t) \/ ConvertThread(t)
  \/ InitFiberReserve(t) \/ InitFiberPublish(t)
  \/ ConvertStack(t) \/ ConvertAttach(t) \/ ConvertTrylock(t)
  \/ CreateEntry(t)
  \/ SwitchLookup(t) \/ SwitchTrylock(t) \/ SwitchCheck(t)
  \/ SwitchAttach(t) \/ SwitchSave(t) \/ SwitchDetach(t)
  \/ SwitchUnlock(t) \/ SwitchRestore(t)
  \/ ExitThread(t) \/ ExitDec(t) \/ ExitSave(t) \/ ExitDetach(t)
  \/ ExitUnlock(t) \/ ExitFreeThread(t) \/ ExitFreeProcess(t)

UserStep(t) ==
  \/ Work(t)
  \/ CallConvert(t) \/ CallCreate(t)
  \/ \E f \in FiberId : CallSwitch(t, f)
  \/ CallExit(t) \/ Close(t)

\* Every thread has died: the only way for the system to stop.
Finished ==
  /\ \A t \in Thread : pc[t] \in {"dead", "fault"}
  /\ UNCHANGED vars

Next ==
  \/ \E t \in Thread :
       UserStep(t) \/ ConvertLock(t) \/ KernelStep(t) \/ Fault(t)
  \/ Finished

Spec == Init /\ [][Next]_vars

(***************************************************************************)
(* A thread in the kernel is scheduled: the module never sleeps there and  *)
(* spins on one lock only, struct_process_lock, a queued spinlock of the   *)
(* kernel that serves its waiters in order.  Nothing is assumed about the  *)
(* calls a client makes.                                                   *)
(***************************************************************************)
Fairness == \A t \in Thread : /\ WF_vars(KernelStep(t))
                              /\ SF_vars(ConvertLock(t))

FairSpec == Spec /\ Fairness

=============================================================================
