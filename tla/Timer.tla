------------------------------- MODULE Timer --------------------------------
(***************************************************************************)
(* The execution time of a fiber.  The kretprobe on finish_task_switch     *)
(* (fiber_timer in module/kprobes.c) and do_SwitchToFiber add to           *)
(* total_time, which /proc/<pid>/fibers/<id> shows.  Every CPU schedules   *)
(* tasks: threads of one process that uses fibers, converted or not, and   *)
(* tasks of other processes.  The probe runs after its CPU has let go of   *)
(* the previous task, which may already run on another one.                *)
(***************************************************************************)
EXTENDS Naturals

CONSTANTS
  Cpu,
  Converted,    \* threads that are fibers
  Unconverted,  \* threads of the same process that are not
  Other,        \* tasks of processes without fibers
  FiberId,
  Start,        \* the fiber each converted thread starts in
  NULL,         \* no task, no fiber
  MaxTime       \* bound: the user time of a task and the time of a fiber

Task == Converted \cup Unconverted \cup Other

VARIABLES
  on,        \* the task each CPU runs
  probe,     \* the CPU is at the return of finish_task_switch
  prevTask,  \* prev_task, a per-CPU variable
  leaked,    \* the CPU's preempt count was left raised
  utime,     \* task_struct->utime
  selected,  \* thread->selected_fiber
  total,     \* fiber->total_time
  ran        \* history: the time each fiber has run in user space

vars == <<on, probe, prevTask, leaked, utime, selected, total, ran>>

Init ==
  /\ on = [c \in Cpu |-> NULL]
  /\ probe = [c \in Cpu |-> FALSE]
  /\ prevTask = [c \in Cpu |-> NULL]
  /\ leaked = [c \in Cpu |-> FALSE]
  /\ utime = [t \in Task |-> 0]
  /\ selected = [t \in Converted |-> Start[t]]
  /\ total = [f \in FiberId |-> 0]
  /\ ran = [f \in FiberId |-> 0]

\* A task runs in user space.
Run(c) ==
  /\ on[c] # NULL /\ ~probe[c]
  /\ utime[on[c]] < MaxTime
  /\ utime' = [utime EXCEPT ![on[c]] = @ + 1]
  /\ ran' = IF on[c] \in Converted THEN [ran EXCEPT ![selected[on[c]]] = @ + 1]
                                   ELSE ran
  /\ UNCHANGED <<on, probe, prevTask, leaked, selected, total>>

\* schedule() on a CPU, up to the return of finish_task_switch
Schedule(c, t) ==
  /\ ~probe[c]
  /\ \A d \in Cpu : on[d] # t
  /\ on' = [on EXCEPT ![c] = t]
  /\ probe' = [probe EXCEPT ![c] = TRUE]
  /\ UNCHANGED <<prevTask, leaked, utime, selected, total, ran>>

\* total_time += utime, all the user time that the task has used so far
Charge(f, t) ==
  /\ total[f] < MaxTime
  /\ total' = [total EXCEPT ![f] = @ + utime[t]]

\* fiber_timer.  The fiber of the task that ran here before is charged.  Where
\* that is a thread without a fiber, get_cpu_var is not undone.
FiberTimer(c) ==
  /\ probe[c]
  /\ \/ /\ prevTask[c] \in Other \cup {NULL}
        /\ UNCHANGED <<leaked, total>>
     \/ /\ prevTask[c] \in Unconverted
        /\ leaked' = [leaked EXCEPT ![c] = TRUE]
        /\ UNCHANGED total
     \/ /\ prevTask[c] \in Converted
        /\ Charge(selected[prevTask[c]], prevTask[c])
        /\ UNCHANGED leaked
  /\ prevTask' = [prevTask EXCEPT ![c] = on[c]]
  /\ probe' = [probe EXCEPT ![c] = FALSE]
  /\ UNCHANGED <<on, utime, selected, ran>>

\* do_SwitchToFiber (see Fibers) charges the fiber that is left.
SwitchToFiber(c, f) ==
  /\ on[c] \in Converted /\ ~probe[c]
  /\ \A t \in Converted : selected[t] # f
  /\ selected' = [selected EXCEPT ![on[c]] = f]
  /\ Charge(selected[on[c]], on[c])
  /\ UNCHANGED <<on, probe, prevTask, leaked, utime, ran>>

Next ==
  \E c \in Cpu :
    \/ Run(c) \/ FiberTimer(c)
    \/ \E t \in Task : Schedule(c, t)
    \/ \E f \in FiberId : SwitchToFiber(c, f)

Spec == Init /\ [][Next]_vars

-----------------------------------------------------------------------------

\* "Total execution time in user space" (proc_fiber_read): the time shown for
\* a fiber is at most the time that it has run in user space.
TotalTimeIsOwn == \A f \in FiberId : total[f] <= ran[f]

=============================================================================
