# A TLA+ verification of AOSV_Fibers

AOSV_Fibers adds Windows-style fibers to Linux as a kernel module: a thread
*converts* itself to a fiber, *creates* fibers, and *switches* between them. A
fiber may be suspended by one thread and resumed by another. The module keeps
the suspended contexts, decides who may run a fiber, and cleans up when threads
die.

## The system and its parts

| Part | Source | State | Operations | Hard because |
|---|---|---|---|---|
| fiber core | `module/fibers.c`, `init.h`, `fibers.h`, `ioctl.c` | table of processes; per process its threads, its fibers, `last_fiber_id`, `active_threads`; per fiber a lock, `attached_thread`, registers, FPU | convert, create, switch | the calls of all threads of a process run at once, with one lock (`struct_process_lock`) around the look-up of the process and one try-lock per fiber; a fiber lock is taken by one call and given back by a later one |
| clean-up | `module/kprobes.c` (`exit_cleanup`), `fibers.c` (`process_cleanup`), `device.c` (`fiber_close`) | the same | thread exit, close of the descriptor | frees what other calls may be using, on a decision (`ret == 0`) taken earlier and without a lock |
| fiber-local storage | `module/fibers.c` | 4096 slots and a bitmap per fiber | alloc, free, get, set | exhaustion, reuse of a slot with its old value, two threads in one fiber |
| statistics | `module/kprobes.c` (`fiber_timer`), `fibers.c` | activation counters, `total_time`, `prev_task` per CPU | task switch, fiber switch | the probe runs on every task switch of every CPU, after the task it charges has gone, perhaps to another CPU |
| `/proc/<pid>/fibers` | `module/proc.c`, `kprobes.c` | `nents`, the extra directory entry | readdir, lookup, read | readers store a size for each other; an array is sized before an unlocked table is walked; a text changes between two reads of it |
| device and entry point | `module/device.c`, `ioctl.c`, `module.c` | registration, the message with the command numbers, the reference count | load, unload, open, read, ioctl, close | registration is in steps that can fail, and is visible before it is complete; unloading races with open |
| user library | `fiberlib/fiberlib.c` | descriptor, command numbers | init, one call per ioctl, close | numbers parsed from a message that may be partial and is not terminated; they must belong to the module loaded now |
| benchmark | `benchmark/2018-fibers/src` | user-level threads (`ult.c`), calendar queue (`calqueue.c`), scheduler (`main.c`) | | termination under signals that the module does not switch; the calendar queue keeps its position in two variables over long sequences of calls |

The parts interact through the tables of the core (the probes, `/proc` and the
ioctls all look a process, thread or fiber up in them) and through the
registers of the running thread, which a switch overwrites so that the ioctl
returns into another fiber.

## Modules

| Module | What it is |
|---|---|
| `FiberSpec` | what fibers promise, with atomic operations |
| `Fibers` | the core and the clean-up, one action per step of the code |
| `FibersProps` | the properties of `Fibers`, its inductive invariants, the refinement mapping to `FiberSpec` |
| `FibersProofs` | types, ids, the locks of fibers and `attached_thread`: theorems for every client, or for clients that do not guess ids |
| `FibersExitProofs` | what `active_threads` counts, and that nothing leaks and nothing freed is used |
| `FibersContextProofs` | contexts, and the proof that `Fibers` implements `FiberSpec` |
| `FlsSpec` | what fiber-local storage promises: a map per fiber |
| `Fls` | the four storage calls, on the bitmap and the array of each fiber; the fibers are those of `FiberSpec` |
| `FlsProofs` | `Fls` implements `FlsSpec` |
| `Benchmark`, `BenchmarkProofs` | the scheduling of the benchmark, on the fibers of `FiberSpec`: when its process may exit, and where its signal is blocked |
| `ProcDir`, `ProcDirProofs` | how `fibers` gets into the listing of `/proc/<pid>` and is looked up there, and the proof that it is found |
| `FiberTable`, `FiberTableProofs` | the bucket lists of the fibers, built without a lock, under the readers of `/proc/<pid>/fibers` |
| `Library`, `LibraryProofs` | loading the module, the device and its message, and the programs that use it |
| `Timer` | the execution time of fibers, charged by task switches and fiber switches |
| `CalQueue` | the calendar queue of the benchmark, as a simulated cell uses it |
| `MCFibers`, `MCFls`, `MCBenchmark`, `MCProcDir`, `MCFiberTable`, `MCLibrary`, `MCTimer`, `MCCalQueue` | threads, fibers, readers, programs, tasks and draws for TLC |

`FiberSpec` joins the modules: `Fibers` implements it, and `Fls` and
`Benchmark` use it (`INSTANCE FiberSpec`) as the fibers they run on. `FiberTable`
is below `Fibers`: it has the lists that `Fibers` updates in one step.

### `Fibers`: state and actions

One process is modelled: the tables of different processes share nothing but
the table `processes`, and every look-up in it is by the caller's tgid.

* `nproc` counts the `struct process` of this tgid in `processes`; `threads`
  and `fibers` are the two hash tables; `active`, `lastId` the two atomics.
* `sel`, `attached`, `lock`, `regs`, `fpu` are the fields of `struct thread`
  and `struct fiber`. A fiber's identity is its id.
* Every thread has a `pc` and the local variables of its call. `ep` is the
  local `struct process` pointer: when the process is freed, every pointer
  another thread still has becomes `"freed"`, and its next use is the action
  `Fault`, after which nothing more is said about that thread.
* `gp` and `fp` are the live registers of a thread in user mode, abstracted to
  *whose code* they belong to, *which stack* they point into and *how far* the
  code has come (`phase`). `Work` lets the running code progress, so a context
  saved too early, too late or not at all is visible as an old phase.
* `known` holds the ids that calls have returned to user space; `body` and
  `phase` are history variables for the properties.

The actions follow the code in order; each has at most one access to memory
that another thread may use at the same time. `init_fiber` is cut at the
allocation of the id and at `hash_add_rcu`, which makes the fiber visible;
`do_SwitchToFiber` is cut at the look-up, the try-lock, the test of
`attached_thread` (the right side of the `||`, which fails *with* the lock
taken), the attachment, the save, the detachment, the unlock and the restore.

`GuessIds` and `Joined` describe the client. With `GuessIds = FALSE` threads
switch only to ids a call has returned. With `Joined = TRUE` the client behaves
like `fiberlib/multithread.c`: the main thread converts first, starts the other
threads and dies after them, so that the last exit has no concurrent call. Both
`FALSE` and `TRUE` are checked, and the theorems say which they need.

Coarser than the code: a hash table is updated in one step (`FiberTable` has the
unlocked steps, and the case in which they lose a fiber); a context's general and floating-point halves are copied in
one step, which is sound for clients that respect the fiber lock; close frees
everything in one step. Memory allocation succeeds. CPUs are sequentially
consistent.

### `FiberSpec`

`run`, `fibs` and `ctx` with atomic `Convert`, `Create`, `Switch`, `Work`,
`Release` and `CleanUp`. In the refinement mapping a switch happens when the
lock of the fiber left is given back (`SwitchUnlock`), a conversion and a
creation when the id is returned, a release when the dying thread gives the
lock back, a clean-up when the process is freed.

### `Fls` and `FlsSpec`

No lock protects `fls` and `fls_bitmap`; the module relies on a fiber being run
by one thread at a time. Every call is two steps, the test of the bitmap
(`find_first_zero_bit`, `test_bit`) and the access that follows; other threads
move between fibers, and make storage calls in theirs, in between. `FlsSpec`
has the same calls as atomic operations on a map from allocated indices to
values. The code leaves the old value in a freed slot, so `FlsSpec` lets alloc
store any value. Indices outside the array are passed as well. The tests and
early returns of the ioctl wrapper for a bad user pointer change nothing and
are left out.

### `Benchmark`

`main`, `thread_initialization`, `main_loop` and `schedule`, built (as the
repository builds them) on the kernel module. An event is a unit of work
(`left`); its data, in fiber-local storage, is left out. The signals are not:
`timer` and `pending` are `alarm(1)` and the pending SIGALRM, `blocked` the
threads in whose mask it is blocked, and `depth` the handlers suspended in each
fiber. `schedule` switches inside the handler, and the module does not switch
signal masks: the thread goes on with another fiber and SIGALRM blocked, and
the handler returns, and unblocks it, in whichever thread resumes the
interrupted fiber. `AlarmGetsThrough` says that this cannot block SIGALRM for
good, although a handler that interrupts `thread_initialization` never returns;
`OnlyFiberOnePreempted` says what it comes to on one CPU: once the alarm has
taken the thread away from fiber 1, the others run without preemption, each to
its end, until a random choice comes back to fiber 1. `online` is chosen at the
start: one thread per CPU found.
`MaxDepth` bounds the handlers suspended in one fiber.

### `ProcDir`

The kernel's `proc_pident_readdir` (external) lists an array from `ctx->pos` to
its end or to the end of the reader's buffer. The probe calls it again with
`additional - (pos - 2)` and `pos - 1` entries, an array whose last entry is
`fibers` and whose others are whatever lies before `additional` (`Unknown`).
`proc_insert_dir` is cut at the unlocked test of `nents`, the locked one, and
the second call. The process gets and loses its fibers at any time.
`proc_lookup_dir` runs after the kernel's look-up and searches `nents - 1`
entries that end in `fibers` (an error it returns is dropped by the probe, and
whether the kernel had cached an answer is the kernel's affair). It
finds nothing before the first listing, which is what `LookupFinds` allows for.
A buffer may be full before the end of the kernel's array; the first call of all
then stores a size that is too small, and `cut` records it. The buffers of
`Room` hold the two dots at least.

### `FiberTable`

`hash_add_rcu` is two steps, `n->next = h->first` and `h->first = n`, and
`init_fiber` calls it without a lock and fills in the name afterwards. A walk
takes one step per bucket and per fiber. `proc_fiber_base_readdir` and
`proc_fiber_base_lookup` build the same array, so one walk stands for both; what
the kernel shows of it is `Shown` and `Zeroed`. The text of a fiber's file is
its length, computed at each read: the fixed part (`MinText`), one more for "yes"
than for "no" (`ongoing`), and the digits that the two activation counters and
the time have got since the fiber was created (`digits`), which grow at switches
(`Switch`), at failed switches and at task switches (`Count`). A reader chooses a
buffer of `Room` for each read, and a read copies from the start of the text
whatever the offset is. So a buffer shorter than the text gets the same start
again, and the reader never sees the rest: `TextOnceOrTwice` says what is left,
that such a reader comes to an end, and that the others get whole texts. Two additions at once are recorded in `raced`, and two of the properties
except the fibers in it: nothing else loses or hides a fiber. `Reach(next, n)` is
what following the links from `n` leads to, written as the least set that is
closed under them.
When fibers are added during a walk the array can be too small for them; the
model stores them all and keeps `nents`, so this is visible as entries that are
not `Shown`, and only a quiet walk is said to be exact. No property forbids the
overflow of the array itself, which the code has.

### `Library`

`module` is where `insmod` or `rmmod` has come to; each step of
`register_fiber_device` can fail and is undone as its labels do. The message is
published line by line while the device is already there, and a program that
opens it too early is `early`. A number is `<<major, command>>`. A program opens
the device, reads until it gets nothing, parses what it has and calls; it may die
anywhere, and another may start in its place. `string_message` is zero behind
its last line (`Nul`), the program's buffer is not (`Junk`).

Coarser than the code: the kernel's look-up of the device and `fiber_open`'s
`try_module_get` are one step, so that a module that is gone is never entered;
the probes are registered in one step and succeed; lines are read whole, and
what strtol makes of stack contents or of part of a line is not the number of
another command.

### `Timer`

A CPU takes a task (`Schedule`) and runs the return probe of
`finish_task_switch` (`FiberTimer`), which charges the fiber of the task that the
CPU ran *before*; that task may meanwhile run elsewhere. Tasks are threads with a
fiber, threads without one in the same process, and strangers. Tasks do not die
(the module keeps a `task_struct` pointer without a reference). `MaxTime` bounds
the clocks.

### `CalQueue`

Exact: a priority is an integer number of quarters, the width a quotient, and
`buckettop` a number of half widths, since the code only ever adds whole widths
to it. The control is `calqueue.c`'s: the search of the buckets ahead, the direct
search, the halving and doubling, and the sample that `new_width` takes out and
puts back. The client is a cell of the simulation: `Scheduled` is which events
`ProcessEvent` puts into the queue, at times from a set of draws.

## Runs

| Run | Instance | Shows |
|---|---|---|
| `contexts` | 2 threads, 3 fibers, phases 0 and 1, joined, fair | `ContextIntegrity`, `SuspendedIntact`, `NoUseAfterFree`, `JoinedInv`, `ContextInv`, `ImplementsFiberSpec`, `CallsReturn` |
| `exits` | 3 threads, 3 fibers, not joined | `TypeOK`, `UniqueProcess`, `FreshIds`, `BaseInv`, `ExitInv`, `OneThreadPerFiber`, `LockInv`, `LocksHeld`, `AttachInv`, `Handover`, `CleanedUp` |
| `storage` | 2 threads, 3 fibers, 1 slot | `NotStale`, `ImplementsFlsSpec` |
| `benchmark` | 1 or 2 CPUs, 3 fibers, 2 events, depth 2, fair | `ExitsComplete`, `AlarmGetsThrough`, `OnlyFiberOnePreempted`, `Ends` |
| `listing` | 2 readers, 2 kernel entries, buffers of 2, 3 or 5 | `OnlyCutMisleads`, `WholeListing`, `LookupFinds` |
| `table` | 2 threads, 1 reader, 3 fibers, 2 buckets, texts of 1 to 3, buffers of 1 or 3 | `TypeOK`, `OnlyRacesLose`, `WalkComplete`, `QuietListing`, `TextOnceOrTwice` |
| `library` | 2 programs, 2 major numbers, 3 commands | `TypeOK`, `RefsCountOpen`, `OpenKeepsModule`, `CommandsCurrent`, `RunsWhatIsCalled`, `NothingLeft` |
| `guessed_id` | 2 threads, 3 fibers, guessed ids | **violates** `OneThreadPerFiber` |
| `last_exit` | 2 threads, 2 fibers, not joined | **violates** `LastThreadFrees` |
| `cut_listing` | 2 readers, 2 kernel entries, buffers of 3 or 5 | **violates** `NentsIsSize` |
| `total_time` | 1 CPU, 3 tasks, 2 fibers | **violates** `TotalTimeIsOwn` |
| `calendar` | 48 cells, 8 events | **violates** `WidthPositive` |

Two threads and three fibers are the smallest instance in which one thread
leaves a fiber while the other enters it and a third fiber is suspended; a
third thread adds a contender that is neither. The two phases let a saved context
be older than the code's progress. One slot is exhausted by one call and free again
after the next; the theorem `StorageIsMap` covers any number. With two kernel entries (and the two dots) a buffer of 2 or 3
cuts the listing, behind the dots or between the entries, and one of 5 holds all
with `fibers`; calls with different buffers also stop right behind the entries,
with no room left. Three fibers in two buckets give two additions to one list, one
after the other or at once, while a walk stands in it, and a second list. The
texts are the shortest for which the bounds of `TextOnceOrTwice` are exact: two
texts come to just the longest, and buffers of 1 take as many reads as the
longest text has characters.
Three commands are the fewest with a first, a last and one in between; two major
numbers tell one loading of the module from the next. All threads of `contexts`
may die and the benchmark exits, so these two runs do not check for deadlock. A symmetry on the threads other than `Main`, on the readers
or on the fibers of `Fls` is used where no liveness is checked and no property names a thread.

**Fairness.** `KernelStep` is weakly fair for every thread: a thread inside the
module neither sleeps nor waits. Taking `struct_process_lock` is strongly fair:
it is a queued spinlock of the kernel, which serves its waiters in order.
Nothing is assumed of clients, which may stop calling for ever.

In `Benchmark` every thread has a CPU. The alarm is a second away, so a fiber
that is resumed again and again returns from the handlers in it
(`ReturnsToItsCode`) and makes a step of its own (strong fairness of
`FiberStep`); `random()` picks every fiber again and again, also at moments when
it is suspended (strong fairness of `Resume`); and the alarm expires (weak
fairness of `Expire`) when no idle fiber keeps setting it back. Which thread
resumes a fiber is left open.

Clients that guess ids are run only in `guessed_id`; `BaseInv`, `ExitInv` and what
follows from them are proved for them too.

### What the violations mean

* `guessed_id`: the new fiber of a convert is visible before it is locked. A
  thread that already uses its id locks it first; convert returns -1 but leaves
  its thread attached, and both run the fiber. The example client
  `fiberlib/multithread.c` does switch to a literal id. For the same reason a
  created fiber can be entered before its start address is stored
  (`fibers.c:131`).
* `last_exit`: between `atomic64_dec_return` and the frees of `exit_cleanup`
  another thread can convert; its fiber is freed while it runs.
* `cut_listing`: `nents` is the position that the first listing of all has
  reached, and `kprobes.c:92` takes it for the size of the kernel's array. A first
  reader whose buffer is full earlier leaves it too small for everybody until the
  module is unloaded: `fibers` is then inserted in the middle of the listing, in
  the place of a kernel's entry. The C library reads directories with buffers
  that hold all of `/proc/<pid>`; nothing in the module asks for it.
* `total_time`: a switch, and every task switch, adds *all* the user time of the
  thread to the fiber it leaves, so a fiber is charged with what its thread ran
  in other fibers, and again at every later charge.
* `calendar`: a direct search moves the position to another bucket but not
  `buckettop`, which stays a bucket width or more too far. From then on an event can be
  taken before an earlier one in another bucket. The sample of `new_width` is
  taken in the same way: with events at 4.25, 4.5, 5, 5.5 and 6 it takes 6
  before 5, the separations sum to less than zero and the width becomes -0.25.
  Events are then filed at negative indices of the array.

The report also describes a lock around the whole switch. The code has none, and
`OneThreadPerFiber` and `ContextIntegrity` show that it needs none.

## Mutated forms

Next to some definitions stands a mutated form (`TrylockNeverFails`,
`SaveRegistersOnly`, ...): the definition with a plausible mistake. It is used
by no action. Substituted for the original it makes a property fail, which shows
that the property depends on that line of the code. `PROJECT.json` lists the pairs.

## Theorems

For every set of threads, readers or programs and every number of fibers, slots,
buckets, entries, commands and events. Besides the types of the constants, a
named assumption of a module is listed where the theorem rests on it; what in the
code justifies it is said below:

| Theorem | Statement | Assumption |
|---|---|---|
| `BaseInvariant` | `Spec => []BaseInv` | |
| `TypeCorrect` | `Spec => []TypeOK` | |
| `OneProcess` | `Spec => []UniqueProcess` | |
| `IdsAreFresh` | `Spec => []FreshIds` | |
| `LockInvariant` | `Spec => []LockInv` | `~GuessIds` |
| `ExclusiveFibers` | `Spec => []OneThreadPerFiber` | `~GuessIds` |
| `AttachInvariant` | `Spec => []AttachInv` | `~GuessIds` |
| `LocksAreHeld` | `Spec => []LocksHeld` | `~GuessIds` |
| `HandsOver` | `Spec => Handover` | `~GuessIds` |
| `ExitInvariant` | `Spec => []ExitInv` | |
| `NothingLeaks` | `Spec => []CleanedUp` | |
| `JoinedInvariant` | `Spec => []JoinedInv` | `Joined` |
| `NothingFreedIsUsed` | `Spec => []NoUseAfterFree` | `Joined` |
| `LastFreesForJoined` | `Spec => []LastThreadFrees` | `Joined` |
| `ContextInvariant` | `Spec => []ContextInv` | `Joined`, `~GuessIds` |
| `ContextsIntact` | `Spec => []ContextIntegrity` | `Joined`, `~GuessIds` |
| `SuspendedFibersIntact` | `Spec => []SuspendedIntact` | `Joined`, `~GuessIds` |
| `ModuleImplementsFiberSpec` | `Spec => ImplementsFiberSpec` | `Joined`, `~GuessIds` |
| `ClientsSeeOneRunner` | `Spec => []Promise!OneRunner` | `Joined`, `~GuessIds` |
| `TableInvariant` | `Spec => []TableInv` | |
| `TypesKept` (`FiberTable`) | `Spec => []TypeOK` | |
| `OnlyRacesLoseFibers` | `Spec => []OnlyRacesLose` | |
| `WalksAreComplete` | `Spec => []WalkComplete` | |
| `QuietListings` | `Spec => []QuietListing` | |
| `TextsOnceOrTwice` | `Spec => []TextOnceOrTwice` | `FiberTableAssumption`: `MinText >= MaxDigits` |
| `BitsNotStale` | `Spec => []NotStale` | |
| `StorageIsMap` | `Spec => ImplementsFlsSpec` | |
| `OnlyFirstCallSetsSize` | `Spec => []OnlyCutMisleads` | |
| `ListingsAreWhole` | `Spec => []WholeListing` | |
| `LookupsFind` | `Spec => []LookupFinds` | `1 \notin Room` |
| `RefsCounted` | `Spec => []RefsCountOpen` | |
| `ModuleStays` | `Spec => []OpenKeepsModule` | |
| `NumbersCurrent` | `Spec => []CommandsCurrent` | `LibraryAssumption`: the buffer holds the message twice |
| `LeavesNothing` | `Spec => []NothingLeft` | |
| `CallsRunTheirCommand` | `Spec => []RunsWhatIsCalled` | |
| `TypesKept` (`Library`) | `Spec => []TypeOK` | |
| `ExitIsComplete` | `Spec => []ExitsComplete` | `BenchmarkAssumption`: more fibers than threads |
| `AlarmIsNeverLost` | `Spec => []AlarmGetsThrough` | the same |
| `OneCpuPreemptsFiberOne` | `Spec => []OnlyFiberOnePreempted` | the same |

**`BaseInv`** is inductive for every client. `nproc <= 1` alone is not: it needs
that between look-up and creation the thread holds `struct_process_lock`
(`ProcessLockOK`), and that a pointer to a process that is gone is known to be
dangling (`PointersOK`). Freshness needs that linked fibers and fibers under
construction have ids up to `lastId`, each with one builder (`IdsOK`).

**`LockInv`** makes `OneThreadPerFiber` inductive. A fiber's owner is the thread
that runs it, has just locked it, or has not yet unlocked it; `OwnedLocked` and
`OneOwner` say that an owned fiber is locked and has one owner. Conversion locks
its fiber last, so `Unreturned` is needed: a fiber whose id has not been
returned is unlocked, because no client can name it. That is exactly what
`~GuessIds` gives, and `guessed_id` shows that the assumption cannot be dropped.

**`AttachInv`** says when `attached_thread` of a fiber is the thread that runs it.
A fiber that nobody has locked is attached to nobody, so the test of
`attached_thread` after a successful try-lock (`fibers.c:166`) never fails, and no
switch returns with a lock that nobody will give back: that is `LocksHeld`.
`Handover` follows in the same way, since the only step that attaches a fiber
does it behind that test, or to a fiber that nobody else knows.

**`ExitInv`** is inductive for every client, with `BaseInv`: `active` is the number
of threads that have incremented it and not yet decremented it (`Counted`), and
while nobody is counted a process exists only for a thread that is about to be
counted or about to free it (`Needs`). Hence when all threads are dead nothing is
left (`CleanedUp`), also if threads convert during the last exit. What such a
client loses is `NoUseAfterFree` and `LastThreadFrees` (run `last_exit`).
**`JoinedInv`** gives both back to clients that start and join their threads in
`Main`: while another thread is in a call `Main` is converted and counted, so
nobody else is the last, and when `Main` is the others are dead. The assumption
is a discipline of `fiberlib/multithread.c`, not something the module enforces.

**`ContextInv`** says where each context is. A thread runs the code of its fiber
or, before it is converted, its own (`OwnCode`); a code has one fiber (`Bodies`); a
new fiber has the start address and stack of its code (`Built`); a CPU has the
whole context of the fiber its thread runs, which during a switch is the one it
leaves, until that one's lock is given back (`Running`); and memory has the whole context of every
fiber that is unlocked, or that a thread is about to leave or to restore
(`Stored`). `ContextIntegrity` alone is not inductive: a switch loads what another
thread saved, long before, in another call.

**The refinement** maps `run` to `RunOf`, `fibs` to `known` and `ctx` to the
context read from the CPU or from memory, and `ContextInv` shows that it is the
same one wherever it is read (`ContextIs`). Then each step is one of: `Work`, the
return of the id (`Convert`, `Create`), `SwitchUnlock` (`Switch`), `ExitUnlock`
(`Release`), the last exit or close (`CleanUp`), or a stutter (`Stutters`). `LockInv`
makes the fiber a switch enters one that nobody runs; `LocksHeld` says that a
fiber which is on no CPU is unlocked or about to be entered or left, so that
`Stored` has its context. What a client concludes from it is `ClientsSeeOneRunner`:
`OneRunner`, proved of `FiberSpec` alone, holds of the module at every moment, also
between two steps of a switch, and says besides that the fiber which a thread
runs still exists.

**`TableInv`** is about lists of any length without an induction over them. `Reach`
is defined by closed sets, so that a few lemmas replace the induction: a node
leads to itself and to what its link leads to (`ReachStep`), links do not lead out
of a closed set (`ReachClosed`), and what is reached depends only on the links of
a closed set (`ReachSame`). The linked fibers of a bucket are closed, and a fiber
under construction is not among them: so setting its link changes no list
(`ReachKept`) and makes no loop. Between the two halves of `hash_add_rcu` the new
link must lead to every fiber added alone; another thread that links its fiber in
between has been recorded in `raced` by whichever of the two came second
(`RaceInv`). For a walk (`WalkOK`), what it has stored is behind it, in buckets it
has left or not reachable from its node; this gives "none twice", for it needs
that lists have no loops and do not cross buckets. `QuietListing` counts: the
entries are a bijection from `1..Len` to `1..lastId`. For a file (`ReadOK`), the
offset of a reader without short buffers is the length of the first text, so a
second text is longer; after it the offset is behind every text, because two
texts are at least as long as the longest. That is `MinText >= MaxDigits` in
`FiberTableAssumption`: the fixed words of `proc.c:114` have more than 160
characters, and the three numbers that grow less than 60 digits. No theorem needs the table's
size to be 1024 or its hash to be `hash_min` beyond its range.

**`NotStale`** is inductive together with the types and with `OneRunner` of
`FiberSpec`: another thread's second step changes only the bitmap of the fiber
it runs, which is not this thread's. `StorageIsMap` then maps the second step of
each call to the atomic operation and the first to a stutter, unless it fails;
the map of a fiber is read off its bitmap and its array.

**`ListingInv`** says that, unless the call which stored `nents` was cut short, a
reader at position `n` has got exactly the first `n` entries of the listing it
should get, with whatever buffers it reads, and that a position behind `fibers`
implies `nents` is set. That position could otherwise be stored as the size: this
is why the second, locked test is safe. The condition cannot be dropped, as
`cut_listing` shows. Look-ups need less: `nents` has passed the dots, since no
buffer holds a single entry (`1 \notin Room`), and the array that is searched
ends in `fibers` whatever its size is taken to be.

**`LibraryInv`** ties each program to the module: the reference count is the
cardinality of the open descriptors; an open descriptor implies a module that is
being published or live, because `rmmod` starts at zero references and
`try_module_get` refuses afterwards; the message has all its lines once the
module is past publishing; and a program that is not `early` has read nothing or
the whole message of the module loaded now, and has parsed all of it. The
major number cannot change under it, since changing it takes an unloading.
`LibraryAssumption` (the buffer holds the message twice) holds in the code, whose
message has seven numbers and whose buffer has 256 bytes.

**`LoadInv`** says which of the device number, class, device and probes are
registered at each step of loading and unloading: all, or none when a step
failed. **`CallInv`** needs no complete message: every line that a program has read
is in its place, the others are zeros, and what it parses in the place of a
command is that command's number or no command's.

**`BenchmarkInv`** ties `completed_fibers` to the set of workers that have
decremented it, each of which has no event left. main() stops when there are not
more fibers than CPUs (`BenchmarkAssumption`).

**`MaskInv`** is about SIGALRM. Counting handlers and blocked threads does not
work: a thread in which the signal is not blocked may resume an interrupted
fiber, and then a handler returns and the thread it came from stays blocked. But
the last working thread that gets blocked leaves a handler in a fiber of the
array, and from then on only threads that are blocked can make it return. This
needs that a handler in an abandoned fiber never returns (`MaskTypes`): else it
would be the one left, in a fiber that nobody picks. On one CPU fiber 1 never
switches by itself, so the signal is blocked whenever it is not running.

All safety properties and action properties that a passing run checks are proved.
Only model-checked: liveness (`CallsReturn`, `Ends`), which this prover does not
handle; and the five violations, which are counterexamples. `Timer` and `CalQueue`
have no theorem: the property stated of each is the one that fails. No property is
about destroying what was never registered (`wild`): `NothingLeft` says only that
it takes a registration that failed.

## Plan

One part is left: `Ult`, if the user-space build of the benchmark is ever made,
with `ult.c` as a second implementation of `FiberSpec`. Nothing in the repository
defines `USERSPACE`, and its switch hangs on a condition whose body is commented
out (`ult.c:214`).

Not modelled, and not planned: what the kernel does with a preempt count that is
left raised; the life of a `task_struct`; the floating-point workload and the
random numbers of the benchmark; assembly that only moves registers; the
demonstration programs `fiberlib/main.c` and `multithread.c` beyond the
discipline they follow; the plotting scripts and the stand-alone experiments under `test/`.
