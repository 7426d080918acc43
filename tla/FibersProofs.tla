---------------------------- MODULE FibersProofs ----------------------------
(***************************************************************************)
(* Proofs about Fibers for every number of threads and fibers.  BaseInv is *)
(* inductive for every client; for the clients that switch only to ids a   *)
(* call has returned, LockInv is inductive relative to BaseInv, and        *)
(* AttachInv and LocksHeld relative to both.                               *)
(***************************************************************************)
EXTENDS FibersProps, TLAPS

(***************************************************************************)
(* Types                                                                   *)
(***************************************************************************)

\* A call that returns, or an exit that ends, leaves well-typed locals.
LEMMA LeaveTyped ==
  ASSUME NEW t \in Thread, NEW label \in {"user", "dead"},
         TypePc, TypeLocals, Leave(t, label)
  PROVE  TypePc' /\ TypeLocals'
BY ConstantsAssumption DEF Leave, Goto, TypePc, TypeLocals, NoFiber

\* A call that goes on keeps them.
LEMMA ContinueTyped ==
  ASSUME NEW t \in Thread, NEW label \in IoctlSteps \cup ExitSteps,
         TypePc, TypeLocals, Continue(t, label)
  PROVE  TypePc' /\ TypeLocals'
BY DEF Continue, Goto, TypePc, TypeLocals, locals

\* The fields of a general-purpose context.
LEMMA GpFields ==
  ASSUME NEW r \in GpContext
  PROVE  r.code \in Code /\ r.stack \in Code \cup {NoFiber} /\ r.phase \in 0..Phases
BY DEF GpContext

\* Contexts that the module builds or patches are contexts.
LEMMA GpBuilt ==
  ASSUME NEW r \in GpContext, NEW c \in Code, NEW s \in Code \cup {NoFiber},
         NEW p \in 0..Phases
  PROVE  /\ [code |-> c, stack |-> s, phase |-> p] \in GpContext
         /\ [r EXCEPT !.stack = s] \in GpContext
         /\ [r EXCEPT !.phase = p] \in GpContext
         /\ [r EXCEPT !.code = c, !.phase = p] \in GpContext
BY DEF GpContext

\* The same for floating-point contexts.
LEMMA FpBuilt ==
  ASSUME NEW c \in Code, NEW p \in 0..Phases
  PROVE  [code |-> c, phase |-> p] \in FpContext
BY DEF FpContext

\* Working code keeps the contexts well typed.
LEMMA WorkContexts ==
  ASSUME NEW t \in Thread, TypeContexts, Work(t)
  PROVE  TypeContexts'
<1> DEFINE c == gp[t].code
           p == IF gp[t].phase < Phases THEN gp[t].phase + 1 ELSE 1
<1>1. c \in Code /\ p \in 0..Phases
  BY ConstantsAssumption, GpFields DEF TypeContexts, Work
<1>2. /\ [gp[t] EXCEPT !.phase = p] \in GpContext
      /\ [code |-> c, phase |-> p] \in FpContext
  BY <1>1, GpBuilt, FpBuilt DEF TypeContexts
<1> HIDE DEF c, p
<1>3. /\ gp' = [gp EXCEPT ![t] = [gp[t] EXCEPT !.phase = p]]
      /\ fp' = [fp EXCEPT ![t] = [code |-> c, phase |-> p]]
      /\ phase' = [phase EXCEPT ![c] = p]
      /\ UNCHANGED <<regs, fpu, body>>
  BY DEF Work, structs, c, p
<1> QED
  BY <1>1, <1>2, <1>3 DEF TypeContexts

\* So does the context init_fiber builds,
LEMMA InitFiberContexts ==
  ASSUME NEW t \in Thread, TypeContexts, cur[t] \in FiberId, InitFiberPublish(t)
  PROVE  TypeContexts'
<1>1. gp[t].code \in Code /\ gp[t].phase \in 0..Phases
  BY GpFields DEF TypeContexts
<1>2. cur[t] \in Code /\ 0 \in 0..Phases
  BY ConstantsAssumption DEF Code
<1>3. /\ [code |-> gp[t].code, stack |-> cur[t], phase |-> gp[t].phase] \in GpContext
      /\ [code |-> gp[t].code, stack |-> NoFiber, phase |-> gp[t].phase] \in GpContext
  BY <1>1, <1>2, GpBuilt DEF TypeContexts
<1>4. regs' \in [FiberId -> GpContext]
  BY <1>3 DEF TypeContexts, InitFiberPublish
<1>5. body' \in [FiberId -> Code] /\ phase' \in [Code -> 0..Phases]
  BY <1>1, <1>2 DEF TypeContexts, InitFiberPublish
<1> QED
  BY <1>4, <1>5 DEF TypeContexts, InitFiberPublish, cpus

\* the stack pointer that ConvertThreadToFiber patches in,
LEMMA ConvertStackContexts ==
  ASSUME NEW t \in Thread, TypeContexts, cur[t] \in FiberId, ConvertStack(t)
  PROVE  TypeContexts'
<1>1. gp[t].stack \in Code \cup {NoFiber} /\ regs[cur[t]] \in GpContext
  BY GpFields DEF TypeContexts
<1>2. [regs[cur[t]] EXCEPT !.stack = gp[t].stack] \in GpContext
  BY <1>1, GpBuilt DEF GpContext
<1> QED
  BY <1>2 DEF TypeContexts, ConvertStack, cpus, users

\* and the entry point that CreateFiber patches in.
LEMMA CreateEntryContexts ==
  ASSUME NEW t \in Thread, TypeContexts, cur[t] \in FiberId, CreateEntry(t)
  PROVE  TypeContexts'
<1>1. cur[t] \in Code /\ 0 \in 0..Phases /\ regs[cur[t]] \in GpContext
  BY ConstantsAssumption DEF Code, TypeContexts
<1>2. [regs[cur[t]] EXCEPT !.code = cur[t], !.phase = 0] \in GpContext
  BY <1>1 DEF GpContext
<1> QED
  BY <1>2 DEF TypeContexts, CreateEntry, cpus

\* Every step keeps the types.
LEMMA TypeStep ==
  ASSUME TypeOK, CurOK, PointersOK, [Next]_vars
  PROVE  TypeOK'
<1> USE DEF TypeOK
<1>1. ASSUME NEW t \in Thread, Work(t) PROVE TypeOK'
  <2>1. TypeTables' /\ TypeLinks' /\ TypePc' /\ TypeLocals'
    BY <1>1 DEF TypeTables, TypeLinks, TypePc, TypeLocals, Work, tables,
         structs, locals
  <2>2. TypeContexts'
    BY <1>1, WorkContexts
  <2> QED
    BY <2>1, <2>2 DEF TypeOK
<1>2. ASSUME NEW t \in Thread, CallConvert(t) PROVE TypeOK'
  <2>1. TypeTables' /\ TypeLinks' /\ TypeContexts'
    BY <1>2 DEF TypeTables, TypeLinks, TypeContexts, CallConvert, tables,
         structs, cpus, users
  <2>2. TypePc'
    BY <1>2 DEF TypePc, CallConvert, Goto, IoctlSteps, ExitSteps, ConvertSteps,
         InitFiberSteps, CreateSteps, SwitchSteps
  <2>3. TypeLocals'
    BY <1>2 DEF TypeLocals, CallConvert
  <2> QED
    BY <2>1, <2>2, <2>3 DEF TypeOK
<1>3. ASSUME NEW t \in Thread, CallCreate(t) PROVE TypeOK'
  <2>1. TypeTables' /\ TypeLinks' /\ TypeContexts'
    BY <1>3 DEF TypeTables, TypeLinks, TypeContexts, CallCreate, tables,
         structs, cpus, users
  <2>2. TypePc'
    BY <1>3 DEF TypePc, CallCreate, Goto, IoctlSteps, ExitSteps, ConvertSteps,
         InitFiberSteps, CreateSteps, SwitchSteps
  <2>3. TypeLocals'
    BY <1>3 DEF TypeLocals, CallCreate
  <2> QED
    BY <2>1, <2>2, <2>3 DEF TypeOK
<1>4. ASSUME NEW t \in Thread, CallExit(t) PROVE TypeOK'
  <2>1. TypeTables' /\ TypeLinks' /\ TypeContexts'
    BY <1>4 DEF TypeTables, TypeLinks, TypeContexts, CallExit, tables, structs,
         cpus, users
  <2>2. TypePc' /\ TypeLocals'
    BY <1>4, LeaveTyped DEF CallExit, IoctlSteps, ExitSteps, ConvertSteps,
         InitFiberSteps, CreateSteps, SwitchSteps, Goto, TypePc, TypeLocals
  <2> QED
    BY <2>1, <2>2 DEF TypeOK
<1>5. ASSUME NEW t \in Thread, Close(t) PROVE TypeOK'
  <2>1. nproc' \in Nat
    BY <1>5 DEF Close, Step, PointersOK, TypeTables, FreeProcess, FindProcess,
         tables, TypeLocals
  <2>2. TypeLinks' /\ TypePc' /\ TypeContexts'
    BY <1>5 DEF TypeLinks, TypePc, TypeContexts, Close, structs, cpus
  <2>3. TypeTables'
    <3>1. open' \in BOOLEAN /\ plock' = plock
      BY <1>5 DEF Close
    <3>2. CASE FreeProcess(t)
      BY <2>1, <3>1, <3>2, ConstantsAssumption DEF TypeTables, FreeProcess
    <3>3. CASE UNCHANGED <<tables, ep, known>>
      BY <3>1, <3>3 DEF TypeTables, tables
    <3> QED
      BY <1>5, <3>2, <3>3 DEF Close
  <2>4. TypeLocals'
    BY <1>5, <2>1 DEF TypeLocals, Close, FreeProcess, FindProcess
  <2> QED
    BY <2>1, <2>2, <2>3, <2>4 DEF TypeOK
<1>6. ASSUME NEW t \in Thread, FindThread(t) PROVE TypeOK'
  <2>1. TypeTables' /\ TypeLinks' /\ TypeContexts'
    BY <1>6 DEF TypeTables, TypeLinks, TypeContexts, FindThread, tables,
         structs, cpus, users
  <2>2. TypePc' /\ TypeLocals'
    BY <1>6, ContinueTyped, LeaveTyped DEF FindThread, Return, IoctlSteps,
         ExitSteps, ConvertSteps, InitFiberSteps, CreateSteps, SwitchSteps
  <2> QED
    BY <2>1, <2>2 DEF TypeOK
<1>7. ASSUME NEW t \in Thread, ConvertLock(t) PROVE TypeOK'
  <2>1. TypeLinks' /\ TypeLocals' /\ TypeContexts'
    BY <1>7 DEF TypeLinks, TypeLocals, TypeContexts, ConvertLock, structs,
         locals, cpus, users
  <2>2. TypeTables'
    BY <1>7 DEF TypeTables, ConvertLock, ProcessLockFree, tables, users
  <2>3. TypePc'
    BY <1>7 DEF TypePc, ConvertLock, Step, Goto, IoctlSteps, ExitSteps,
         ConvertSteps, InitFiberSteps, CreateSteps, SwitchSteps
  <2> QED
    BY <2>1, <2>2, <2>3 DEF TypeOK
<1>8. ASSUME NEW t \in Thread, ConvertFind(t) PROVE TypeOK'
  <2>1. TypeTables' /\ TypeLinks' /\ TypeContexts'
    BY <1>8 DEF TypeTables, TypeLinks, TypeContexts, ConvertFind, tables,
         structs, cpus, users
  <2>2. TypePc'
    BY <1>8 DEF TypePc, ConvertFind, Step, Goto, IoctlSteps, ExitSteps,
         ConvertSteps, InitFiberSteps, CreateSteps, SwitchSteps
  <2>3. TypeLocals'
    BY <1>8 DEF TypeLocals, ConvertFind, FindProcess
  <2> QED
    BY <2>1, <2>2, <2>3 DEF TypeOK
<1>9. ASSUME NEW t \in Thread, ConvertProcess(t) PROVE TypeOK'
  <2>1. TypeLinks' /\ TypeContexts'
    BY <1>9 DEF TypeLinks, TypeContexts, ConvertProcess, structs, cpus, users
  <2>2. TypeTables'
    <3>1. CASE InitProcess
      BY <1>9, <3>1, ConstantsAssumption DEF TypeTables, ConvertProcess,
           InitProcess, UnlockProcess, users
    <3>2. CASE UNCHANGED <<tables, ep>>
      BY <1>9, <3>2 DEF TypeTables, ConvertProcess, UnlockProcess, tables,
           users
    <3> QED
      BY <1>9, <3>1, <3>2 DEF ConvertProcess
  <2>3. TypePc'
    BY <1>9 DEF TypePc, ConvertProcess, Goto, IoctlSteps, ExitSteps,
         ConvertSteps, InitFiberSteps, CreateSteps, SwitchSteps
  <2>4. TypeLocals'
    BY <1>9 DEF TypeLocals, ConvertProcess, UnlockProcess, InitProcess
  <2> QED
    BY <2>1, <2>2, <2>3, <2>4 DEF TypeOK
<1>10. ASSUME NEW t \in Thread, ConvertThread(t) PROVE TypeOK'
  <2>1. TypeContexts'
    BY <1>10 DEF TypeContexts, ConvertThread, structs, cpus, users
  <2>2. TypePc' /\ TypeLocals'
    BY <1>10, ContinueTyped, LeaveTyped DEF ConvertThread, Return, IoctlSteps,
         ExitSteps, ConvertSteps, InitFiberSteps, CreateSteps, SwitchSteps
  <2>3. TypeTables'
    <3>1. CASE t \in threads
      BY <1>10, <3>1 DEF TypeTables, ConvertThread, tables, users
    <3>2. CASE t \notin threads
      BY <1>10, <3>2 DEF TypeTables, ConvertThread, users
    <3> QED
      BY <3>1, <3>2
  <2>4. TypeLinks'
    <3>1. UNCHANGED <<lock, attached>>
      BY <1>10 DEF ConvertThread, structs
    <3>2. sel' = sel \/ sel' = [sel EXCEPT ![t] = NoFiber]
      BY <1>10 DEF ConvertThread
    <3> QED
      BY <3>1, <3>2, ConstantsAssumption DEF TypeLinks, NoFiber
  <2> QED
    BY <2>1, <2>2, <2>3, <2>4 DEF TypeOK
<1>11. ASSUME NEW t \in Thread, InitFiberReserve(t) PROVE TypeOK'
  <2>1. TypeLinks' /\ TypeContexts'
    BY <1>11 DEF TypeLinks, TypeContexts, InitFiberReserve, structs, cpus,
         users
  <2>2. TypeTables'
    BY <1>11, ConstantsAssumption DEF TypeTables, InitFiberReserve,
         IncLastFiberId, users, FiberId
  <2>3. TypePc'
    BY <1>11 DEF TypePc, InitFiberReserve, Step, Goto, IoctlSteps, ExitSteps,
         ConvertSteps, InitFiberSteps, CreateSteps, SwitchSteps
  <2>4. TypeLocals'
    BY <1>11, ConstantsAssumption DEF TypeLocals, InitFiberReserve,
         IncLastFiberId, NoFiber, FiberId
  <2> QED
    BY <2>1, <2>2, <2>3, <2>4 DEF TypeOK
<1>12. ASSUME NEW t \in Thread, InitFiberPublish(t) PROVE TypeOK'
  <2>1. cur[t] \in FiberId
    BY <1>12 DEF InitFiberPublish, Step, CurOK, BuildSteps, SwitchSteps
  <2>2. TypeLocals'
    BY <1>12 DEF TypeLocals, InitFiberPublish, locals
  <2>3. TypeTables'
    BY <1>12, <2>1 DEF TypeTables, InitFiberPublish
  <2>4. TypeLinks'
    BY <1>12, <2>1 DEF TypeLinks, InitFiberPublish, TypeLocals
  <2>5. TypePc'
    BY <1>12, <2>1 DEF TypePc, InitFiberPublish, Step, Goto, IoctlSteps,
         ExitSteps, ConvertSteps, InitFiberSteps, CreateSteps, SwitchSteps
  <2>6. TypeContexts'
    BY <1>12, <2>1, InitFiberContexts
  <2> QED
    BY <2>2, <2>3, <2>4, <2>5, <2>6 DEF TypeOK
<1>13. ASSUME NEW t \in Thread, ConvertStack(t) PROVE TypeOK'
  <2>1. cur[t] \in FiberId
    BY <1>13 DEF ConvertStack, Step, CurOK, BuildSteps, SwitchSteps
  <2>2. TypeTables' /\ TypeLinks' /\ TypeLocals'
    BY <1>13 DEF TypeTables, TypeLinks, TypeLocals, ConvertStack, tables,
         locals, users
  <2>3. TypePc'
    BY <1>13, <2>1 DEF TypePc, ConvertStack, Step, Goto, IoctlSteps, ExitSteps,
         ConvertSteps, InitFiberSteps, CreateSteps, SwitchSteps
  <2>4. TypeContexts'
    BY <1>13, <2>1, ConvertStackContexts
  <2> QED
    BY <2>2, <2>3, <2>4 DEF TypeOK
<1>14. ASSUME NEW t \in Thread, ConvertAttach(t) PROVE TypeOK'
  <2>1. cur[t] \in FiberId
    BY <1>14 DEF ConvertAttach, Step, CurOK, BuildSteps, SwitchSteps
  <2>2. TypeTables' /\ TypeLocals' /\ TypeContexts'
    BY <1>14 DEF TypeTables, TypeLocals, TypeContexts, ConvertAttach, tables,
         locals, cpus, users
  <2>3. TypeLinks'
    BY <1>14, <2>1 DEF TypeLinks, ConvertAttach, TypeLocals, FiberId, NoFiber
  <2>4. TypePc'
    BY <1>14, <2>1 DEF TypePc, ConvertAttach, Step, Goto, IoctlSteps,
         ExitSteps, ConvertSteps, InitFiberSteps, CreateSteps, SwitchSteps
  <2> QED
    BY <2>2, <2>3, <2>4 DEF TypeOK
<1>15. ASSUME NEW t \in Thread, ConvertTrylock(t) PROVE TypeOK'
  <2>1. cur[t] \in FiberId
    BY <1>15 DEF ConvertTrylock, Step, CurOK, BuildSteps, SwitchSteps
  <2>2. TypeContexts'
    BY <1>15 DEF TypeContexts, ConvertTrylock, cpus
  <2>3. TypePc' /\ TypeLocals'
    BY <1>15, LeaveTyped DEF ConvertTrylock, Return
  <2>4. TypeTables'
    BY <1>15, <2>1 DEF TypeTables, ConvertTrylock, TrylockFails, tables
  <2>5. TypeLinks'
    BY <1>15, <2>1 DEF TypeLinks, ConvertTrylock, TrylockFails, TypeLocals
  <2> QED
    BY <2>2, <2>3, <2>4, <2>5 DEF TypeOK
<1>16. ASSUME NEW t \in Thread, CreateEntry(t) PROVE TypeOK'
  <2>1. cur[t] \in FiberId
    BY <1>16 DEF CreateEntry, Step, CurOK, BuildSteps, SwitchSteps
  <2>2. TypeLinks'
    BY <1>16 DEF TypeLinks, CreateEntry
  <2>3. TypePc' /\ TypeLocals'
    BY <1>16, LeaveTyped DEF CreateEntry, Return
  <2>4. TypeTables'
    BY <1>16, <2>1 DEF TypeTables, CreateEntry, tables
  <2>5. TypeContexts'
    BY <1>16, <2>1, CreateEntryContexts
  <2> QED
    BY <2>2, <2>3, <2>4, <2>5 DEF TypeOK
<1>17. ASSUME NEW t \in Thread, SwitchLookup(t) PROVE TypeOK'
  <2>1. TypeTables' /\ TypeLinks' /\ TypeContexts'
    BY <1>17 DEF TypeTables, TypeLinks, TypeContexts, SwitchLookup, tables,
         structs, cpus, users
  <2>2. TypePc' /\ TypeLocals'
    BY <1>17, ContinueTyped, LeaveTyped DEF SwitchLookup, Return, IoctlSteps,
         ExitSteps, ConvertSteps, InitFiberSteps, CreateSteps, SwitchSteps
  <2> QED
    BY <2>1, <2>2 DEF TypeOK
<1>18. ASSUME NEW t \in Thread, SwitchTrylock(t) PROVE TypeOK'
  <2>1. cur[t] \in FiberId
    BY <1>18 DEF SwitchTrylock, Step, CurOK, BuildSteps, SwitchSteps
  <2>2. TypeTables' /\ TypeContexts'
    BY <1>18 DEF TypeTables, TypeContexts, SwitchTrylock, tables, cpus, users
  <2>3. TypePc' /\ TypeLocals'
    BY <1>18, ContinueTyped, LeaveTyped DEF SwitchTrylock, Return, IoctlSteps,
         ExitSteps, ConvertSteps, InitFiberSteps, CreateSteps, SwitchSteps
  <2>4. TypeLinks'
    BY <1>18, <2>1 DEF TypeLinks, SwitchTrylock, TrylockFails, TypeLocals
  <2> QED
    BY <2>2, <2>3, <2>4 DEF TypeOK
<1>19. ASSUME NEW t \in Thread, SwitchCheck(t) PROVE TypeOK'
  <2>1. TypeTables' /\ TypeLinks' /\ TypeContexts'
    BY <1>19 DEF TypeTables, TypeLinks, TypeContexts, SwitchCheck, tables,
         structs, cpus, users
  <2>2. TypePc' /\ TypeLocals'
    BY <1>19, ContinueTyped, LeaveTyped DEF SwitchCheck, Return, IoctlSteps,
         ExitSteps, ConvertSteps, InitFiberSteps, CreateSteps, SwitchSteps
  <2> QED
    BY <2>1, <2>2 DEF TypeOK
<1>20. ASSUME NEW t \in Thread, SwitchAttach(t) PROVE TypeOK'
  <2>1. cur[t] \in FiberId
    BY <1>20 DEF SwitchAttach, Step, CurOK, BuildSteps, SwitchSteps
  <2>2. TypeTables' /\ TypeContexts'
    BY <1>20 DEF TypeTables, TypeContexts, SwitchAttach, tables, cpus, users
  <2>3. TypeLinks'
    BY <1>20, <2>1 DEF TypeLinks, SwitchAttach, TypeLocals, FiberId, NoFiber
  <2>4. TypePc'
    BY <1>20, <2>1 DEF TypePc, SwitchAttach, Step, Goto, IoctlSteps, ExitSteps,
         ConvertSteps, InitFiberSteps, CreateSteps, SwitchSteps
  <2>5. TypeLocals'
    BY <1>20, <2>1 DEF TypeLocals, SwitchAttach, TypeLinks
  <2> QED
    BY <2>2, <2>3, <2>4, <2>5 DEF TypeOK
<1>21. ASSUME NEW t \in Thread, SwitchSave(t) PROVE TypeOK'
  <2>1. TypeTables' /\ TypeLinks' /\ TypeLocals'
    BY <1>21 DEF TypeTables, TypeLinks, TypeLocals, SwitchSave, tables, locals,
         users
  <2>2. TypePc'
    BY <1>21 DEF TypePc, SwitchSave, Step, Goto, IoctlSteps, ExitSteps,
         ConvertSteps, InitFiberSteps, CreateSteps, SwitchSteps
  <2>3. TypeContexts'
    BY <1>21 DEF TypeContexts, SwitchSave, SaveContext, cpus, users
  <2> QED
    BY <2>1, <2>2, <2>3 DEF TypeOK
<1>22. ASSUME NEW t \in Thread, SwitchDetach(t) PROVE TypeOK'
  <2>1. TypeTables' /\ TypeLocals' /\ TypeContexts'
    BY <1>22 DEF TypeTables, TypeLocals, TypeContexts, SwitchDetach, tables,
         locals, cpus, users
  <2>2. TypeLinks'
    BY <1>22 DEF TypeLinks, SwitchDetach, TypeLocals
  <2>3. TypePc'
    BY <1>22 DEF TypePc, SwitchDetach, Step, Goto, IoctlSteps, ExitSteps,
         ConvertSteps, InitFiberSteps, CreateSteps, SwitchSteps
  <2> QED
    BY <2>1, <2>2, <2>3 DEF TypeOK
<1>23. ASSUME NEW t \in Thread, SwitchUnlock(t) PROVE TypeOK'
  <2>1. TypeTables' /\ TypeLocals' /\ TypeContexts'
    BY <1>23 DEF TypeTables, TypeLocals, TypeContexts, SwitchUnlock, tables,
         locals, cpus, users
  <2>2. TypeLinks'
    BY <1>23 DEF TypeLinks, SwitchUnlock, UnlockFiber, TypeLocals
  <2>3. TypePc'
    BY <1>23 DEF TypePc, SwitchUnlock, Step, Goto, IoctlSteps, ExitSteps,
         ConvertSteps, InitFiberSteps, CreateSteps, SwitchSteps
  <2> QED
    BY <2>1, <2>2, <2>3 DEF TypeOK
<1>24. ASSUME NEW t \in Thread, SwitchRestore(t) PROVE TypeOK'
  <2>1. cur[t] \in FiberId
    BY <1>24 DEF SwitchRestore, Step, CurOK, BuildSteps, SwitchSteps
  <2>2. TypeTables' /\ TypeLinks'
    BY <1>24 DEF TypeTables, TypeLinks, SwitchRestore, tables, structs, users
  <2>3. TypePc' /\ TypeLocals'
    BY <1>24, LeaveTyped DEF SwitchRestore, Return
  <2>4. TypeContexts'
    BY <1>24, <2>1 DEF TypeContexts, SwitchRestore, structs, users
  <2> QED
    BY <2>2, <2>3, <2>4 DEF TypeOK
<1>25. ASSUME NEW t \in Thread, ExitThread(t) PROVE TypeOK'
  <2>1. TypeTables' /\ TypeLinks' /\ TypeContexts'
    BY <1>25 DEF TypeTables, TypeLinks, TypeContexts, ExitThread, tables,
         structs, cpus, users
  <2>2. TypePc' /\ TypeLocals'
    BY <1>25, ContinueTyped, LeaveTyped DEF ExitThread, IoctlSteps, ExitSteps,
         ConvertSteps, InitFiberSteps, CreateSteps, SwitchSteps
  <2> QED
    BY <2>1, <2>2 DEF TypeOK
<1>26. ASSUME NEW t \in Thread, ExitDec(t) PROVE TypeOK'
  <2>1. TypeLinks' /\ TypeContexts'
    BY <1>26 DEF TypeLinks, TypeContexts, ExitDec, structs, cpus, users
  <2>2. TypeTables'
    BY <1>26 DEF TypeTables, ExitDec, LastThread, users
  <2>3. TypePc'
    BY <1>26 DEF TypePc, ExitDec, LastThread, Step, Goto, IoctlSteps,
         ExitSteps, ConvertSteps, InitFiberSteps, CreateSteps, SwitchSteps
  <2>4. TypeLocals'
    BY <1>26 DEF TypeLocals, ExitDec, LastThread
  <2> QED
    BY <2>1, <2>2, <2>3, <2>4 DEF TypeOK
<1>27. ASSUME NEW t \in Thread, ExitSave(t) PROVE TypeOK'
  <2>1. TypeTables' /\ TypeLinks' /\ TypeLocals'
    BY <1>27 DEF TypeTables, TypeLinks, TypeLocals, ExitSave, tables, locals,
         users
  <2>2. TypePc'
    BY <1>27 DEF TypePc, ExitSave, Step, Goto, IoctlSteps, ExitSteps,
         ConvertSteps, InitFiberSteps, CreateSteps, SwitchSteps
  <2>3. TypeContexts'
    BY <1>27 DEF TypeContexts, ExitSave, SaveContext, cpus, users
  <2> QED
    BY <2>1, <2>2, <2>3 DEF TypeOK
<1>28. ASSUME NEW t \in Thread, ExitDetach(t) PROVE TypeOK'
  <2>1. TypeTables' /\ TypeLocals' /\ TypeContexts'
    BY <1>28 DEF TypeTables, TypeLocals, TypeContexts, ExitDetach, tables,
         locals, cpus, users
  <2>2. TypeLinks'
    BY <1>28 DEF TypeLinks, ExitDetach, TypeLocals
  <2>3. TypePc'
    BY <1>28 DEF TypePc, ExitDetach, Step, Goto, IoctlSteps, ExitSteps,
         ConvertSteps, InitFiberSteps, CreateSteps, SwitchSteps
  <2> QED
    BY <2>1, <2>2, <2>3 DEF TypeOK
<1>29. ASSUME NEW t \in Thread, ExitUnlock(t) PROVE TypeOK'
  <2>1. TypeTables' /\ TypeLocals' /\ TypeContexts'
    BY <1>29 DEF TypeTables, TypeLocals, TypeContexts, ExitUnlock, tables,
         locals, cpus, users
  <2>2. TypeLinks'
    BY <1>29 DEF TypeLinks, ExitUnlock, UnlockFiber, TypeLocals
  <2>3. TypePc'
    BY <1>29 DEF TypePc, ExitUnlock, Step, Goto, IoctlSteps, ExitSteps,
         ConvertSteps, InitFiberSteps, CreateSteps, SwitchSteps
  <2> QED
    BY <2>1, <2>2, <2>3 DEF TypeOK
<1>30. ASSUME NEW t \in Thread, ExitFreeThread(t) PROVE TypeOK'
  <2>1. TypeLinks' /\ TypeContexts'
    BY <1>30 DEF TypeLinks, TypeContexts, ExitFreeThread, structs, cpus, users
  <2>2. TypePc' /\ TypeLocals'
    BY <1>30, ContinueTyped, LeaveTyped DEF ExitFreeThread, IoctlSteps,
         ExitSteps, ConvertSteps, InitFiberSteps, CreateSteps, SwitchSteps
  <2>3. TypeTables'
    BY <1>30 DEF TypeTables, ExitFreeThread, users
  <2> QED
    BY <2>1, <2>2, <2>3 DEF TypeOK
<1>31. ASSUME NEW t \in Thread, ExitFreeProcess(t) PROVE TypeOK'
  <2>1. nproc' \in Nat
    BY <1>31 DEF ExitFreeProcess, Step, PointersOK, TypeTables, FreeProcess,
         FindProcess, tables, TypeLocals
  <2>2. TypeLinks' /\ TypeContexts'
    BY <1>31 DEF TypeLinks, TypeContexts, ExitFreeProcess, structs, cpus
  <2>3. TypeTables'
    BY <1>31, <2>1, ConstantsAssumption DEF TypeTables, ExitFreeProcess, Step,
         FreeProcess
  <2>4. TypePc'
    BY <1>31, <2>1 DEF TypePc, ExitFreeProcess, Step, Goto, IoctlSteps,
         ExitSteps, ConvertSteps, InitFiberSteps, CreateSteps, SwitchSteps
  <2>5. TypeLocals'
    BY <1>31, <2>1 DEF TypeLocals, ExitFreeProcess, FreeProcess
  <2> QED
    BY <2>1, <2>2, <2>3, <2>4, <2>5 DEF TypeOK
<1>32. ASSUME NEW t \in Thread, Fault(t) PROVE TypeOK'
  <2>1. TypeTables' /\ TypeLinks' /\ TypeLocals' /\ TypeContexts'
    BY <1>32 DEF TypeTables, TypeLinks, TypeLocals, TypeContexts, Fault,
         tables, structs, locals, cpus, users
  <2>2. TypePc'
    BY <1>32 DEF TypePc, Fault, Goto, IoctlSteps, ExitSteps, ConvertSteps,
         InitFiberSteps, CreateSteps, SwitchSteps
  <2> QED
    BY <2>1, <2>2 DEF TypeOK
<1>33. ASSUME NEW t \in Thread, NEW f \in FiberId, CallSwitch(t, f) PROVE TypeOK'
  <2>1. TypeTables' /\ TypeLinks' /\ TypeContexts'
    BY <1>33 DEF TypeTables, TypeLinks, TypeContexts, CallSwitch, tables,
         structs, cpus, users
  <2>2. TypePc'
    BY <1>33 DEF TypePc, CallSwitch, Goto, IoctlSteps, ExitSteps, ConvertSteps,
         InitFiberSteps, CreateSteps, SwitchSteps
  <2>3. TypeLocals'
    BY <1>33, ConstantsAssumption DEF TypeLocals, CallSwitch, NoFiber, FiberId
  <2> QED
    BY <2>1, <2>2, <2>3 DEF TypeOK
<1>34. CASE UNCHANGED vars
  BY <1>34 DEF vars, tables, structs, locals, cpus, users, TypeTables,
       TypeLinks, TypePc, TypeLocals, TypeContexts
<1> QED
  BY <1>1, <1>2, <1>3, <1>4, <1>5, <1>6, <1>7, <1>8, <1>9, <1>10, <1>11, <1>12,
       <1>13, <1>14, <1>15, <1>16, <1>17, <1>18, <1>19, <1>20, <1>21, <1>22,
       <1>23, <1>24, <1>25, <1>26, <1>27, <1>28, <1>29, <1>30, <1>31, <1>32,
       <1>33, <1>34 DEF Next, UserStep, KernelStep, Finished, TypeOK

-----------------------------------------------------------------------------
(***************************************************************************)
(* The pointers, the process lock and the ids                              *)
(***************************************************************************)

\* Every step keeps PointersOK: a free invalidates every other pointer.
LEMMA PointersStep ==
  ASSUME TypeOK, PointersOK, ProcessLockOK, [Next]_vars
  PROVE  PointersOK'
<1> USE DEF TypeOK, TypePc, TypeLocals, TypeTables, PointersOK, ProcessLockOK,
         ThreadSteps, SwitchSteps, NoDeref, IoctlSteps, ConvertSteps,
         InitFiberSteps, CreateSteps
<1>1. ASSUME NEW t \in Thread, Work(t) PROVE PointersOK'
  BY <1>1 DEF Work, tables, locals, users
<1>2. ASSUME NEW t \in Thread, CallConvert(t) PROVE PointersOK'
  BY <1>2 DEF CallConvert, Goto, tables, users, locals
<1>3. ASSUME NEW t \in Thread, CallCreate(t) PROVE PointersOK'
  BY <1>3 DEF CallCreate, Goto, FindProcess, tables, users, locals
<1>4. ASSUME NEW t \in Thread, CallExit(t) PROVE PointersOK'
  BY <1>4 DEF CallExit, Goto, Leave, FindProcess, tables, users, locals
<1>5. ASSUME NEW t \in Thread, Close(t) PROVE PointersOK'
  BY <1>5 DEF Close, FindProcess, FreeProcess, tables, locals, users
<1>6. ASSUME NEW t \in Thread, FindThread(t) PROVE PointersOK'
  BY <1>6 DEF FindThread, Return, tables, users, Continue, Goto, locals, Leave
<1>7. ASSUME NEW t \in Thread, ConvertLock(t) PROVE PointersOK'
  BY <1>7 DEF ConvertLock, ProcessLockFree, Step, tables, locals, users, Goto
<1>8. ASSUME NEW t \in Thread, ConvertFind(t) PROVE PointersOK'
  BY <1>8 DEF ConvertFind, Step, FindProcess, tables, users, locals, Goto
<1>9. ASSUME NEW t \in Thread, ConvertProcess(t) PROVE PointersOK'
  BY <1>9 DEF ConvertProcess, UnlockProcess, Goto, InitProcess, tables, users,
       locals
<1>10. ASSUME NEW t \in Thread, ConvertThread(t) PROVE PointersOK'
  BY <1>10 DEF ConvertThread, Return, tables, users, Continue, Goto, locals,
       Leave
<1>11. ASSUME NEW t \in Thread, InitFiberReserve(t) PROVE PointersOK'
  BY <1>11 DEF InitFiberReserve, IncLastFiberId, Step, users, tables, locals,
       Goto
<1>12. ASSUME NEW t \in Thread, InitFiberPublish(t) PROVE PointersOK'
  BY <1>12 DEF InitFiberPublish, Step, locals, tables, users, Goto
<1>13. ASSUME NEW t \in Thread, ConvertStack(t) PROVE PointersOK'
  BY <1>13 DEF ConvertStack, Step, tables, locals, users, Goto
<1>14. ASSUME NEW t \in Thread, ConvertAttach(t) PROVE PointersOK'
  BY <1>14 DEF ConvertAttach, Step, tables, locals, users, Goto
<1>15. ASSUME NEW t \in Thread, ConvertTrylock(t) PROVE PointersOK'
  BY <1>15 DEF ConvertTrylock, TrylockFails, Return, tables, locals, users,
       Leave, Goto
<1>16. ASSUME NEW t \in Thread, CreateEntry(t) PROVE PointersOK'
  BY <1>16 DEF CreateEntry, Return, tables, locals, users, Leave, Goto
<1>17. ASSUME NEW t \in Thread, SwitchLookup(t) PROVE PointersOK'
  BY <1>17 DEF SwitchLookup, Return, tables, users, Continue, Goto, locals,
       Leave
<1>18. ASSUME NEW t \in Thread, SwitchTrylock(t) PROVE PointersOK'
  BY <1>18 DEF SwitchTrylock, TrylockFails, Return, tables, users, Continue,
       Goto, locals, Leave
<1>19. ASSUME NEW t \in Thread, SwitchCheck(t) PROVE PointersOK'
  BY <1>19 DEF SwitchCheck, Return, tables, users, Continue, Goto, locals,
       Leave
<1>20. ASSUME NEW t \in Thread, SwitchAttach(t) PROVE PointersOK'
  BY <1>20 DEF SwitchAttach, Step, tables, users, locals, Goto
<1>21. ASSUME NEW t \in Thread, SwitchSave(t) PROVE PointersOK'
  BY <1>21 DEF SwitchSave, Step, tables, locals, users, Goto
<1>22. ASSUME NEW t \in Thread, SwitchDetach(t) PROVE PointersOK'
  BY <1>22 DEF SwitchDetach, Step, tables, locals, users, Goto
<1>23. ASSUME NEW t \in Thread, SwitchUnlock(t) PROVE PointersOK'
  BY <1>23 DEF SwitchUnlock, UnlockFiber, Step, tables, locals, users, Goto
<1>24. ASSUME NEW t \in Thread, SwitchRestore(t) PROVE PointersOK'
  BY <1>24 DEF SwitchRestore, Return, tables, users, locals, Leave, Goto
<1>25. ASSUME NEW t \in Thread, ExitThread(t) PROVE PointersOK'
  BY <1>25 DEF ExitThread, Leave, tables, users, Continue, Goto, locals
<1>26. ASSUME NEW t \in Thread, ExitDec(t) PROVE PointersOK'
  BY <1>26 DEF ExitDec, LastThread, Step, users, tables, locals, Goto
<1>27. ASSUME NEW t \in Thread, ExitSave(t) PROVE PointersOK'
  BY <1>27 DEF ExitSave, Step, tables, locals, users, Goto
<1>28. ASSUME NEW t \in Thread, ExitDetach(t) PROVE PointersOK'
  BY <1>28 DEF ExitDetach, Step, tables, locals, users, Goto
<1>29. ASSUME NEW t \in Thread, ExitUnlock(t) PROVE PointersOK'
  BY <1>29 DEF ExitUnlock, UnlockFiber, Step, tables, locals, users, Goto
<1>30. ASSUME NEW t \in Thread, ExitFreeThread(t) PROVE PointersOK'
  BY <1>30 DEF ExitFreeThread, Leave, users, Continue, Goto, locals, tables
<1>31. ASSUME NEW t \in Thread, ExitFreeProcess(t) PROVE PointersOK'
  BY <1>31 DEF ExitFreeProcess, Step, FreeProcess, tables, locals, users, Goto
<1>32. ASSUME NEW t \in Thread, Fault(t) PROVE PointersOK'
  BY <1>32 DEF Fault, Goto, tables, locals, users
<1>33. ASSUME NEW t \in Thread, NEW f \in FiberId, CallSwitch(t, f) PROVE PointersOK'
  BY <1>33 DEF CallSwitch, Goto, FindProcess, tables, users, locals
<1>34. CASE UNCHANGED vars
  BY <1>34 DEF vars, tables, structs, locals, cpus, users
<1> QED
  BY <1>1, <1>2, <1>3, <1>4, <1>5, <1>6, <1>7, <1>8, <1>9, <1>10, <1>11, <1>12,
       <1>13, <1>14, <1>15, <1>16, <1>17, <1>18, <1>19, <1>20, <1>21, <1>22,
       <1>23, <1>24, <1>25, <1>26, <1>27, <1>28, <1>29, <1>30, <1>31, <1>32,
       <1>33, <1>34 DEF Next, UserStep, KernelStep, Finished

\* Every step keeps ProcessLockOK.
LEMMA ProcessLockStep ==
  ASSUME TypeOK, PointersOK, ProcessLockOK, [Next]_vars
  PROVE  ProcessLockOK'
<1> USE DEF TypeOK, TypePc, TypeLocals, TypeTables, PointersOK, ProcessLockOK,
         NoDeref
<1>1. ASSUME NEW t \in Thread, Work(t) PROVE ProcessLockOK'
  BY <1>1 DEF Work, tables, locals
<1>2. ASSUME NEW t \in Thread, CallConvert(t) PROVE ProcessLockOK'
  BY <1>2 DEF CallConvert, Goto, tables, locals
<1>3. ASSUME NEW t \in Thread, CallCreate(t) PROVE ProcessLockOK'
  BY <1>3 DEF CallCreate, Goto, FindProcess, tables, locals
<1>4. ASSUME NEW t \in Thread, CallExit(t) PROVE ProcessLockOK'
  BY <1>4 DEF CallExit, Goto, Leave, FindProcess, tables, locals
<1>5. ASSUME NEW t \in Thread, Close(t) PROVE ProcessLockOK'
  BY <1>5 DEF Close, FindProcess, FreeProcess, tables, locals
<1>6. ASSUME NEW t \in Thread, FindThread(t) PROVE ProcessLockOK'
  BY <1>6 DEF FindThread, Return, tables, Continue, Goto, locals, Leave
<1>7. ASSUME NEW t \in Thread, ConvertLock(t) PROVE ProcessLockOK'
  BY <1>7, ConstantsAssumption DEF ConvertLock, ProcessLockFree, Step, Goto,
       tables, locals, ProcessLockOK, TypeOK, TypePc
<1>8. ASSUME NEW t \in Thread, ConvertFind(t) PROVE ProcessLockOK'
  BY <1>8 DEF ConvertFind, Step, FindProcess, tables, locals, Goto
<1>9. ASSUME NEW t \in Thread, ConvertProcess(t) PROVE ProcessLockOK'
  BY <1>9 DEF ConvertProcess, UnlockProcess, Goto, InitProcess, tables, locals
<1>10. ASSUME NEW t \in Thread, ConvertThread(t) PROVE ProcessLockOK'
  BY <1>10 DEF ConvertThread, Return, tables, Continue, Goto, locals, Leave
<1>11. ASSUME NEW t \in Thread, InitFiberReserve(t) PROVE ProcessLockOK'
  BY <1>11 DEF InitFiberReserve, IncLastFiberId, Step, tables, locals, Goto
<1>12. ASSUME NEW t \in Thread, InitFiberPublish(t) PROVE ProcessLockOK'
  BY <1>12 DEF InitFiberPublish, Step, locals, tables, Goto
<1>13. ASSUME NEW t \in Thread, ConvertStack(t) PROVE ProcessLockOK'
  BY <1>13 DEF ConvertStack, Step, tables, locals, Goto
<1>14. ASSUME NEW t \in Thread, ConvertAttach(t) PROVE ProcessLockOK'
  BY <1>14 DEF ConvertAttach, Step, tables, locals, Goto
<1>15. ASSUME NEW t \in Thread, ConvertTrylock(t) PROVE ProcessLockOK'
  BY <1>15 DEF ConvertTrylock, TrylockFails, Return, tables, locals, Leave,
       Goto
<1>16. ASSUME NEW t \in Thread, CreateEntry(t) PROVE ProcessLockOK'
  BY <1>16 DEF CreateEntry, Return, tables, locals, Leave, Goto
<1>17. ASSUME NEW t \in Thread, SwitchLookup(t) PROVE ProcessLockOK'
  BY <1>17 DEF SwitchLookup, Return, tables, Continue, Goto, locals, Leave
<1>18. ASSUME NEW t \in Thread, SwitchTrylock(t) PROVE ProcessLockOK'
  BY <1>18 DEF SwitchTrylock, TrylockFails, Return, tables, Continue, Goto,
       locals, Leave
<1>19. ASSUME NEW t \in Thread, SwitchCheck(t) PROVE ProcessLockOK'
  BY <1>19 DEF SwitchCheck, Return, tables, Continue, Goto, locals, Leave
<1>20. ASSUME NEW t \in Thread, SwitchAttach(t) PROVE ProcessLockOK'
  BY <1>20 DEF SwitchAttach, Step, tables, locals, Goto
<1>21. ASSUME NEW t \in Thread, SwitchSave(t) PROVE ProcessLockOK'
  BY <1>21 DEF SwitchSave, Step, tables, locals, Goto
<1>22. ASSUME NEW t \in Thread, SwitchDetach(t) PROVE ProcessLockOK'
  BY <1>22 DEF SwitchDetach, Step, tables, locals, Goto
<1>23. ASSUME NEW t \in Thread, SwitchUnlock(t) PROVE ProcessLockOK'
  BY <1>23 DEF SwitchUnlock, UnlockFiber, Step, tables, locals, Goto
<1>24. ASSUME NEW t \in Thread, SwitchRestore(t) PROVE ProcessLockOK'
  BY <1>24 DEF SwitchRestore, Return, tables, locals, Leave, Goto
<1>25. ASSUME NEW t \in Thread, ExitThread(t) PROVE ProcessLockOK'
  BY <1>25 DEF ExitThread, Leave, tables, Continue, Goto, locals
<1>26. ASSUME NEW t \in Thread, ExitDec(t) PROVE ProcessLockOK'
  BY <1>26 DEF ExitDec, LastThread, Step, tables, locals, Goto
<1>27. ASSUME NEW t \in Thread, ExitSave(t) PROVE ProcessLockOK'
  BY <1>27 DEF ExitSave, Step, tables, locals, Goto
<1>28. ASSUME NEW t \in Thread, ExitDetach(t) PROVE ProcessLockOK'
  BY <1>28 DEF ExitDetach, Step, tables, locals, Goto
<1>29. ASSUME NEW t \in Thread, ExitUnlock(t) PROVE ProcessLockOK'
  BY <1>29 DEF ExitUnlock, UnlockFiber, Step, tables, locals, Goto
<1>30. ASSUME NEW t \in Thread, ExitFreeThread(t) PROVE ProcessLockOK'
  BY <1>30 DEF ExitFreeThread, Leave, Continue, Goto, locals, tables
<1>31. ASSUME NEW t \in Thread, ExitFreeProcess(t) PROVE ProcessLockOK'
  BY <1>31 DEF ExitFreeProcess, Step, FreeProcess, tables, locals, Goto
<1>32. ASSUME NEW t \in Thread, Fault(t) PROVE ProcessLockOK'
  BY <1>32 DEF Fault, Goto, tables, locals
<1>33. ASSUME NEW t \in Thread, NEW f \in FiberId, CallSwitch(t, f) PROVE ProcessLockOK'
  BY <1>33 DEF CallSwitch, Goto, FindProcess, tables, locals
<1>34. CASE UNCHANGED vars
  BY <1>34 DEF vars, tables, structs, locals, cpus, users
<1> QED
  BY <1>1, <1>2, <1>3, <1>4, <1>5, <1>6, <1>7, <1>8, <1>9, <1>10, <1>11, <1>12,
       <1>13, <1>14, <1>15, <1>16, <1>17, <1>18, <1>19, <1>20, <1>21, <1>22,
       <1>23, <1>24, <1>25, <1>26, <1>27, <1>28, <1>29, <1>30, <1>31, <1>32,
       <1>33, <1>34 DEF Next, UserStep, KernelStep, Finished

\* Every step keeps CurOK.
LEMMA CurStep ==
  ASSUME TypeOK, CurOK, [Next]_vars
  PROVE  CurOK'
<1> USE DEF TypeOK, TypePc, TypeLocals, TypeTables, CurOK, FiberId, BuildSteps,
         SwitchSteps
<1>1. ASSUME NEW t \in Thread, Work(t) PROVE CurOK'
  BY <1>1 DEF Work, locals
<1>2. ASSUME NEW t \in Thread, CallConvert(t) PROVE CurOK'
  BY <1>2 DEF CallConvert, Goto, locals
<1>3. ASSUME NEW t \in Thread, CallCreate(t) PROVE CurOK'
  BY <1>3 DEF CallCreate, Goto, FindProcess, locals
<1>4. ASSUME NEW t \in Thread, CallExit(t) PROVE CurOK'
  BY <1>4 DEF CallExit, Goto, Leave, FindProcess, locals
<1>5. ASSUME NEW t \in Thread, Close(t) PROVE CurOK'
  BY <1>5 DEF Close, FindProcess, FreeProcess, locals
<1>6. ASSUME NEW t \in Thread, FindThread(t) PROVE CurOK'
  BY <1>6 DEF FindThread, Return, Continue, Goto, locals, Leave
<1>7. ASSUME NEW t \in Thread, ConvertLock(t) PROVE CurOK'
  BY <1>7 DEF ConvertLock, ProcessLockFree, Step, locals, Goto
<1>8. ASSUME NEW t \in Thread, ConvertFind(t) PROVE CurOK'
  BY <1>8 DEF ConvertFind, Step, FindProcess, locals, Goto
<1>9. ASSUME NEW t \in Thread, ConvertProcess(t) PROVE CurOK'
  BY <1>9 DEF ConvertProcess, UnlockProcess, Goto, InitProcess, locals
<1>10. ASSUME NEW t \in Thread, ConvertThread(t) PROVE CurOK'
  BY <1>10 DEF ConvertThread, Return, Continue, Goto, locals, Leave
<1>11. ASSUME NEW t \in Thread, InitFiberReserve(t) PROVE CurOK'
  BY <1>11 DEF InitFiberReserve, IncLastFiberId, Step, locals, Goto
<1>12. ASSUME NEW t \in Thread, InitFiberPublish(t) PROVE CurOK'
  BY <1>12 DEF InitFiberPublish, Step, locals, Goto
<1>13. ASSUME NEW t \in Thread, ConvertStack(t) PROVE CurOK'
  BY <1>13 DEF ConvertStack, Step, locals, Goto
<1>14. ASSUME NEW t \in Thread, ConvertAttach(t) PROVE CurOK'
  BY <1>14 DEF ConvertAttach, Step, locals, Goto
<1>15. ASSUME NEW t \in Thread, ConvertTrylock(t) PROVE CurOK'
  BY <1>15 DEF ConvertTrylock, TrylockFails, Return, locals, Leave, Goto
<1>16. ASSUME NEW t \in Thread, CreateEntry(t) PROVE CurOK'
  BY <1>16 DEF CreateEntry, Return, locals, Leave, Goto
<1>17. ASSUME NEW t \in Thread, SwitchLookup(t) PROVE CurOK'
  BY <1>17 DEF SwitchLookup, Return, Continue, Goto, locals, Leave
<1>18. ASSUME NEW t \in Thread, SwitchTrylock(t) PROVE CurOK'
  BY <1>18 DEF SwitchTrylock, TrylockFails, Return, Continue, Goto, locals,
       Leave
<1>19. ASSUME NEW t \in Thread, SwitchCheck(t) PROVE CurOK'
  BY <1>19 DEF SwitchCheck, Return, Continue, Goto, locals, Leave
<1>20. ASSUME NEW t \in Thread, SwitchAttach(t) PROVE CurOK'
  BY <1>20 DEF SwitchAttach, Step, locals, Goto
<1>21. ASSUME NEW t \in Thread, SwitchSave(t) PROVE CurOK'
  BY <1>21 DEF SwitchSave, Step, locals, Goto
<1>22. ASSUME NEW t \in Thread, SwitchDetach(t) PROVE CurOK'
  BY <1>22 DEF SwitchDetach, Step, locals, Goto
<1>23. ASSUME NEW t \in Thread, SwitchUnlock(t) PROVE CurOK'
  BY <1>23 DEF SwitchUnlock, UnlockFiber, Step, locals, Goto
<1>24. ASSUME NEW t \in Thread, SwitchRestore(t) PROVE CurOK'
  BY <1>24 DEF SwitchRestore, Return, locals, Leave, Goto
<1>25. ASSUME NEW t \in Thread, ExitThread(t) PROVE CurOK'
  BY <1>25 DEF ExitThread, Leave, Continue, Goto, locals
<1>26. ASSUME NEW t \in Thread, ExitDec(t) PROVE CurOK'
  BY <1>26 DEF ExitDec, LastThread, Step, locals, Goto
<1>27. ASSUME NEW t \in Thread, ExitSave(t) PROVE CurOK'
  BY <1>27 DEF ExitSave, Step, locals, Goto
<1>28. ASSUME NEW t \in Thread, ExitDetach(t) PROVE CurOK'
  BY <1>28 DEF ExitDetach, Step, locals, Goto
<1>29. ASSUME NEW t \in Thread, ExitUnlock(t) PROVE CurOK'
  BY <1>29 DEF ExitUnlock, UnlockFiber, Step, locals, Goto
<1>30. ASSUME NEW t \in Thread, ExitFreeThread(t) PROVE CurOK'
  BY <1>30 DEF ExitFreeThread, Leave, Continue, Goto, locals
<1>31. ASSUME NEW t \in Thread, ExitFreeProcess(t) PROVE CurOK'
  BY <1>31 DEF ExitFreeProcess, Step, FreeProcess, locals, Goto
<1>32. ASSUME NEW t \in Thread, Fault(t) PROVE CurOK'
  BY <1>32 DEF Fault, Goto, locals
<1>33. ASSUME NEW t \in Thread, NEW f \in FiberId, CallSwitch(t, f) PROVE CurOK'
  BY <1>33 DEF CallSwitch, Goto, FindProcess, locals
<1>34. CASE UNCHANGED vars
  BY <1>34 DEF vars, tables, structs, locals, cpus, users
<1> QED
  BY <1>1, <1>2, <1>3, <1>4, <1>5, <1>6, <1>7, <1>8, <1>9, <1>10, <1>11, <1>12,
       <1>13, <1>14, <1>15, <1>16, <1>17, <1>18, <1>19, <1>20, <1>21, <1>22,
       <1>23, <1>24, <1>25, <1>26, <1>27, <1>28, <1>29, <1>30, <1>31, <1>32,
       <1>33, <1>34 DEF Next, UserStep, KernelStep, Finished

\* Every step keeps IdsOK: last_fiber_id only grows while fibers exist.
LEMMA IdsStep ==
  ASSUME TypeOK, PointersOK, ProcessLockOK, IdsOK, [Next]_vars
  PROVE  IdsOK'
<1> USE DEF TypeOK, TypePc, TypeLocals, TypeTables, PointersOK, IdsOK, Builds,
         FiberId, BuildSteps
<1>1. ASSUME NEW t \in Thread, Work(t) PROVE IdsOK'
  BY <1>1 DEF Work, tables, locals
<1>2. ASSUME NEW t \in Thread, CallConvert(t) PROVE IdsOK'
  BY <1>2 DEF CallConvert, Goto, tables, locals
<1>3. ASSUME NEW t \in Thread, CallCreate(t) PROVE IdsOK'
  BY <1>3 DEF CallCreate, Goto, FindProcess, tables, locals
<1>4. ASSUME NEW t \in Thread, CallExit(t) PROVE IdsOK'
  BY <1>4 DEF CallExit, Goto, Leave, FindProcess, tables, locals
<1>5. ASSUME NEW t \in Thread, Close(t) PROVE IdsOK'
  <2>1. CASE FreeProcess(t)
    BY <1>5, <2>1 DEF FreeProcess, IdsOK, Builds, TypeOK, TypeLocals
  <2>2. CASE UNCHANGED <<tables, ep, known>>
    BY <1>5, <2>2 DEF Close, tables, IdsOK, Builds
  <2> QED
    BY <1>5, <2>1, <2>2 DEF Close
<1>6. ASSUME NEW t \in Thread, FindThread(t) PROVE IdsOK'
  BY <1>6 DEF FindThread, Return, tables, Continue, Goto, locals, Leave
<1>7. ASSUME NEW t \in Thread, ConvertLock(t) PROVE IdsOK'
  BY <1>7 DEF ConvertLock, ProcessLockFree, Step, tables, locals, Goto
<1>8. ASSUME NEW t \in Thread, ConvertFind(t) PROVE IdsOK'
  BY <1>8 DEF ConvertFind, Step, FindProcess, tables, locals, Goto
<1>9. ASSUME NEW t \in Thread, ConvertProcess(t) PROVE IdsOK'
  <2>1. CASE InitProcess
    <3>1. nproc = 0
      BY <1>9, <2>1 DEF ConvertProcess, InitProcess, ProcessLockOK, tables,
           TypeOK, TypeTables
    <3>2. \A u \in Thread : ep[u] # "live"
      BY <3>1 DEF PointersOK
    <3>3. \A u \in Thread, f \in FiberId : ~ Builds(u, f)'
      BY <1>9, <3>2 DEF ConvertProcess, Goto, Builds, BuildSteps, TypeOK,
           TypePc, TypeLocals
    <3> QED
      BY <2>1, <3>3 DEF InitProcess, IdsOK
  <2>2. CASE UNCHANGED <<tables, ep>>
    BY <1>9, <2>2 DEF ConvertProcess, Goto, tables, IdsOK, Builds, BuildSteps,
         TypeOK, TypePc
  <2> QED
    BY <1>9, <2>1, <2>2 DEF ConvertProcess
<1>10. ASSUME NEW t \in Thread, ConvertThread(t) PROVE IdsOK'
  <2>1. \A u \in Thread, f \in FiberId : Builds(u, f)' => Builds(u, f) /\ pc'[u] = pc[u]
    BY <1>10 DEF ConvertThread, Continue, Return, Leave, Goto, locals, Builds,
         BuildSteps, TypeOK, TypePc, TypeLocals
  <2>2. UNCHANGED <<lastId, fibers>>
    BY <1>10 DEF ConvertThread, tables
  <2> QED
    BY <2>1, <2>2 DEF IdsOK
<1>11. ASSUME NEW t \in Thread, InitFiberReserve(t) PROVE IdsOK'
  BY <1>11 DEF InitFiberReserve, IncLastFiberId, Step, tables, locals, Goto
<1>12. ASSUME NEW t \in Thread, InitFiberPublish(t) PROVE IdsOK'
  BY <1>12 DEF InitFiberPublish, Step, locals, tables, Goto
<1>13. ASSUME NEW t \in Thread, ConvertStack(t) PROVE IdsOK'
  BY <1>13 DEF ConvertStack, Step, tables, locals, Goto
<1>14. ASSUME NEW t \in Thread, ConvertAttach(t) PROVE IdsOK'
  BY <1>14 DEF ConvertAttach, Step, tables, locals, Goto
<1>15. ASSUME NEW t \in Thread, ConvertTrylock(t) PROVE IdsOK'
  BY <1>15 DEF ConvertTrylock, TrylockFails, Return, tables, locals, Leave,
       Goto
<1>16. ASSUME NEW t \in Thread, CreateEntry(t) PROVE IdsOK'
  BY <1>16 DEF CreateEntry, Return, tables, locals, Leave, Goto
<1>17. ASSUME NEW t \in Thread, SwitchLookup(t) PROVE IdsOK'
  BY <1>17 DEF SwitchLookup, Return, tables, Continue, Goto, locals, Leave
<1>18. ASSUME NEW t \in Thread, SwitchTrylock(t) PROVE IdsOK'
  BY <1>18 DEF SwitchTrylock, TrylockFails, Return, tables, Continue, Goto,
       locals, Leave
<1>19. ASSUME NEW t \in Thread, SwitchCheck(t) PROVE IdsOK'
  BY <1>19 DEF SwitchCheck, Return, tables, Continue, Goto, locals, Leave
<1>20. ASSUME NEW t \in Thread, SwitchAttach(t) PROVE IdsOK'
  BY <1>20 DEF SwitchAttach, Step, tables, locals, Goto
<1>21. ASSUME NEW t \in Thread, SwitchSave(t) PROVE IdsOK'
  BY <1>21 DEF SwitchSave, Step, tables, locals, Goto
<1>22. ASSUME NEW t \in Thread, SwitchDetach(t) PROVE IdsOK'
  BY <1>22 DEF SwitchDetach, Step, tables, locals, Goto
<1>23. ASSUME NEW t \in Thread, SwitchUnlock(t) PROVE IdsOK'
  BY <1>23 DEF SwitchUnlock, UnlockFiber, Step, tables, locals, Goto
<1>24. ASSUME NEW t \in Thread, SwitchRestore(t) PROVE IdsOK'
  BY <1>24 DEF SwitchRestore, Return, tables, locals, Leave, Goto
<1>25. ASSUME NEW t \in Thread, ExitThread(t) PROVE IdsOK'
  BY <1>25 DEF ExitThread, Leave, tables, Continue, Goto, locals
<1>26. ASSUME NEW t \in Thread, ExitDec(t) PROVE IdsOK'
  BY <1>26 DEF ExitDec, LastThread, Step, tables, locals, Goto
<1>27. ASSUME NEW t \in Thread, ExitSave(t) PROVE IdsOK'
  BY <1>27 DEF ExitSave, Step, tables, locals, Goto
<1>28. ASSUME NEW t \in Thread, ExitDetach(t) PROVE IdsOK'
  BY <1>28 DEF ExitDetach, Step, tables, locals, Goto
<1>29. ASSUME NEW t \in Thread, ExitUnlock(t) PROVE IdsOK'
  BY <1>29 DEF ExitUnlock, UnlockFiber, Step, tables, locals, Goto
<1>30. ASSUME NEW t \in Thread, ExitFreeThread(t) PROVE IdsOK'
  BY <1>30 DEF ExitFreeThread, Leave, Continue, Goto, locals, tables
<1>31. ASSUME NEW t \in Thread, ExitFreeProcess(t) PROVE IdsOK'
  BY <1>31 DEF ExitFreeProcess, Step, FreeProcess, tables, locals, Goto
<1>32. ASSUME NEW t \in Thread, Fault(t) PROVE IdsOK'
  BY <1>32 DEF Fault, Goto, tables, locals
<1>33. ASSUME NEW t \in Thread, NEW f \in FiberId, CallSwitch(t, f) PROVE IdsOK'
  BY <1>33 DEF CallSwitch, Goto, FindProcess, tables, locals
<1>34. CASE UNCHANGED vars
  BY <1>34 DEF vars, tables, structs, locals, cpus, users
<1> QED
  BY <1>1, <1>2, <1>3, <1>4, <1>5, <1>6, <1>7, <1>8, <1>9, <1>10, <1>11, <1>12,
       <1>13, <1>14, <1>15, <1>16, <1>17, <1>18, <1>19, <1>20, <1>21, <1>22,
       <1>23, <1>24, <1>25, <1>26, <1>27, <1>28, <1>29, <1>30, <1>31, <1>32,
       <1>33, <1>34 DEF Next, UserStep, KernelStep, Finished

\* The empty tables satisfy BaseInv.
LEMMA BaseInit == Init => BaseInv
<1> SUFFICES ASSUME Init PROVE BaseInv
  OBVIOUS
<1>1. TypeTables /\ TypeLinks /\ TypePc /\ TypeLocals
  BY ConstantsAssumption
  DEF Init, TypeTables, TypeLinks, TypePc, TypeLocals, NoFiber
<1>2. TypeContexts
  BY ConstantsAssumption
  DEF Init, TypeContexts, GpContext, FpContext, Code, FiberId
<1>3. PointersOK /\ ProcessLockOK
  BY DEF Init, PointersOK, ProcessLockOK, ThreadSteps, SwitchSteps
<1>4. CurOK /\ IdsOK
  BY DEF Init, CurOK, IdsOK, Builds, BuildSteps, SwitchSteps
<1> QED
  BY <1>1, <1>2, <1>3, <1>4 DEF BaseInv, TypeOK

\* Every step keeps BaseInv.
LEMMA BaseStep == BaseInv /\ [Next]_vars => BaseInv'
BY TypeStep, PointersStep, ProcessLockStep, CurStep, IdsStep DEF BaseInv

\* BaseInv, the typing and bookkeeping invariant of the module's tables,
\* pointers and ids, holds whatever the clients do.
THEOREM BaseInvariant == Spec => []BaseInv
<1>1. Init => BaseInv
  BY BaseInit
<1>2. BaseInv /\ [Next]_vars => BaseInv'
  BY BaseStep
<1> QED
  BY <1>1, <1>2, PTL DEF Spec

\* Every variable keeps its type in every interleaving of the calls, the
\* exits and the clean-ups.
THEOREM TypeCorrect == Spec => []TypeOK
<1>1. BaseInv => TypeOK
  BY DEF BaseInv
<1> QED
  BY <1>1, BaseInvariant, PTL

\* However many threads convert and exit at the same time, the process never
\* has two struct process: the look-up and the creation under
\* struct_process_lock in do_ConvertThreadToFiber are enough.
THEOREM OneProcess == Spec => []UniqueProcess
<1>1. BaseInv => UniqueProcess
  BY DEF BaseInv, PointersOK, UniqueProcess
<1> QED
  BY <1>1, BaseInvariant, PTL

\* No two fibers of a process ever get the same id (init_fiber).
THEOREM IdsAreFresh == Spec => []FreshIds
<1>1. BaseInv => FreshIds
  <2> SUFFICES ASSUME BaseInv, NEW t \in Thread,
                      pc[t] = "fiber_publish", ep[t] = "live"
               PROVE  /\ cur[t] \notin fibers
                      /\ \A u \in Thread \ {t} :
                           pc[u] = "fiber_publish" /\ ep[u] = "live"
                             => cur[u] # cur[t]
    BY DEF FreshIds
  <2>1. cur[t] \in FiberId /\ Builds(t, cur[t])
    BY DEF BaseInv, CurOK, Builds, BuildSteps
  <2> QED
    BY <2>1 DEF BaseInv, IdsOK, Builds, BuildSteps
<1> QED
  BY <1>1, BaseInvariant, PTL

-----------------------------------------------------------------------------
(***************************************************************************)
(* The lock discipline                                                     *)
(***************************************************************************)

\* A step that takes and gives back no fiber lock keeps LockInv.
LEMMA QuietStep ==
  ASSUME LockInv, SwitchOK', UNCHANGED <<known, lock, fibers>>,
         \A u \in Thread, g \in FiberId : Owns(u, g)' => Owns(u, g),
         \A u \in Thread, g \in FiberId : Builds(u, g)' => Builds(u, g)
  PROVE  LockInv'
<1>1. OwnedLocked'
  BY DEF LockInv, OwnedLocked
<1>2. OneOwner'
  BY DEF LockInv, OneOwner
<1>3. Unreturned'
  BY DEF LockInv, Unreturned
<1> QED
  BY <1>1, <1>2, <1>3 DEF LockInv

\* A clean-up leaves nothing to own.
LEMMA FreedStep ==
  ASSUME TypeLocals, PointersOK, threads' = {}, fibers' = {}, known' = {},
         \A u \in Thread : ep'[u] # "live",
         \A u \in Thread : ep'[u] = "null" =>
           pc'[u] \notin SwitchSteps \cup {"find_thread"},
         ep' \in [Thread -> {"null", "live", "freed"}],
         SwitchOK, UNCHANGED <<cur, sel, prev>>,
         \A u \in Thread : pc'[u] = pc[u] \/ pc'[u] = "dead"
  PROVE  LockInv'
<1>1. OwnedLocked' /\ OneOwner'
  BY DEF OwnedLocked, OneOwner, Owns
<1>2. Unreturned'
  BY DEF Unreturned, Builds
<1>3. SwitchOK'
  BY DEF SwitchOK, SwitchSteps
<1> QED
  BY <1>1, <1>2, <1>3 DEF LockInv

\* Every step keeps LockInv, if only returned ids are used.
LEMMA LockStep ==
  ASSUME ~GuessIds, BaseInv, LockInv, [Next]_vars
  PROVE  LockInv'
<1> USE DEF BaseInv, TypeOK, TypePc, TypeLocals, TypeLinks, LockInv
<1>1. ASSUME NEW t \in Thread, Work(t) PROVE LockInv'
  <2>1. /\ \A u \in Thread, g \in FiberId : Owns(u, g)' => Owns(u, g)
        /\ \A u \in Thread, g \in FiberId : Builds(u, g)' => Builds(u, g)
        /\ UNCHANGED <<known, lock, fibers>>
    BY <1>1 DEF Work, tables, structs, locals, users, Owns, Builds, BuildSteps
  <2>2. SwitchOK'
    BY <1>1 DEF Work, locals, users, SwitchOK, SwitchSteps
  <2> QED
    BY <2>1, <2>2, QuietStep DEF LockInv
<1>2. ASSUME NEW t \in Thread, CallConvert(t) PROVE LockInv'
  <2>1. /\ \A u \in Thread, g \in FiberId : Owns(u, g)' => Owns(u, g)
        /\ \A u \in Thread, g \in FiberId : Builds(u, g)' => Builds(u, g)
        /\ UNCHANGED <<known, lock, fibers>>
    BY <1>2 DEF CallConvert, Goto, tables, structs, users, locals, Owns,
         Builds, BuildSteps
  <2>2. SwitchOK'
    BY <1>2 DEF CallConvert, Goto, users, locals, SwitchOK, SwitchSteps
  <2> QED
    BY <2>1, <2>2, QuietStep DEF LockInv
<1>3. ASSUME NEW t \in Thread, CallCreate(t) PROVE LockInv'
  <2>1. /\ \A u \in Thread, g \in FiberId : Owns(u, g)' => Owns(u, g)
        /\ \A u \in Thread, g \in FiberId : Builds(u, g)' => Builds(u, g)
        /\ UNCHANGED <<known, lock, fibers>>
    BY <1>3 DEF CallCreate, Goto, tables, structs, users, locals, Owns, Builds,
         BuildSteps
  <2>2. SwitchOK'
    BY <1>3 DEF CallCreate, Goto, users, locals, SwitchOK, SwitchSteps
  <2> QED
    BY <2>1, <2>2, QuietStep DEF LockInv
<1>4. ASSUME NEW t \in Thread, CallExit(t) PROVE LockInv'
  <2>1. /\ \A u \in Thread, g \in FiberId : Owns(u, g)' => Owns(u, g)
        /\ \A u \in Thread, g \in FiberId : Builds(u, g)' => Builds(u, g)
        /\ UNCHANGED <<known, lock, fibers>>
    BY <1>4 DEF CallExit, Goto, Leave, tables, structs, users, locals, Owns,
         Builds, BuildSteps
  <2>2. SwitchOK'
    BY <1>4 DEF CallExit, Goto, Leave, users, locals, SwitchOK, SwitchSteps
  <2> QED
    BY <2>1, <2>2, QuietStep DEF LockInv
<1>5. ASSUME NEW t \in Thread, Close(t) PROVE LockInv'
  <2>1. CASE FreeProcess(t)
    <3>1. /\ threads' = {} /\ fibers' = {} /\ known' = {}
          /\ ep' \in [Thread -> {"null", "live", "freed"}]
          /\ \A u \in Thread : ep'[u] # "live"
          /\ UNCHANGED <<cur, sel, prev, pc>>
      BY <1>5, <2>1 DEF Close, FreeProcess
    <3>2. \A u \in Thread : ep'[u] = "null" =>
            pc'[u] \notin SwitchSteps \cup {"find_thread"}
      BY <1>5, <2>1 DEF Close, FreeProcess, PointersOK, SwitchSteps
    <3> QED
      BY <3>1, <3>2, FreedStep
  <2>2. CASE UNCHANGED <<tables, ep, known>>
    <3>1. UNCHANGED <<threads, fibers, known, ep, lock, sel, pc, cmd, cur, prev>>
      BY <1>5, <2>2 DEF Close, tables, structs
    <3> QED
      BY <3>1 DEF OwnedLocked, OneOwner, Unreturned, SwitchOK, Owns, Builds
  <2> QED
    BY <1>5, <2>1, <2>2 DEF Close
<1>6. ASSUME NEW t \in Thread, FindThread(t) PROVE LockInv'
  <2>1. /\ \A u \in Thread, g \in FiberId : Owns(u, g)' => Owns(u, g)
        /\ \A u \in Thread, g \in FiberId : Builds(u, g)' => Builds(u, g)
        /\ UNCHANGED <<known, lock, fibers>>
    BY <1>6 DEF FindThread, Return, tables, structs, users, Continue, Goto,
         locals, Leave, Owns, Builds, BuildSteps
  <2>2. SwitchOK'
    BY <1>6 DEF FindThread, Return, users, Continue, Goto, locals, Leave,
         SwitchOK, SwitchSteps, CurOK
  <2> QED
    BY <2>1, <2>2, QuietStep DEF LockInv
<1>7. ASSUME NEW t \in Thread, ConvertLock(t) PROVE LockInv'
  <2>1. /\ \A u \in Thread, g \in FiberId : Owns(u, g)' => Owns(u, g)
        /\ \A u \in Thread, g \in FiberId : Builds(u, g)' => Builds(u, g)
        /\ UNCHANGED <<known, lock, fibers>>
    BY <1>7 DEF ConvertLock, ProcessLockFree, Step, tables, structs, locals,
         users, Goto, Owns, Builds, BuildSteps
  <2>2. SwitchOK'
    BY <1>7 DEF ConvertLock, ProcessLockFree, Step, locals, users, Goto,
         SwitchOK, SwitchSteps
  <2> QED
    BY <2>1, <2>2, QuietStep DEF LockInv
<1>8. ASSUME NEW t \in Thread, ConvertFind(t) PROVE LockInv'
  <2>1. /\ \A u \in Thread, g \in FiberId : Owns(u, g)' => Owns(u, g)
        /\ \A u \in Thread, g \in FiberId : Builds(u, g)' => Builds(u, g)
        /\ UNCHANGED <<known, lock, fibers>>
    BY <1>8 DEF ConvertFind, Step, tables, structs, users, locals, Goto, Owns,
         Builds, BuildSteps
  <2>2. SwitchOK'
    BY <1>8 DEF ConvertFind, Step, users, locals, Goto, SwitchOK, SwitchSteps
  <2> QED
    BY <2>1, <2>2, QuietStep DEF LockInv
<1>9. ASSUME NEW t \in Thread, ConvertProcess(t) PROVE LockInv'
  <2>1. UNCHANGED <<known, lock, sel, cmd, cur, prev>>
    BY <1>9 DEF ConvertProcess, structs, users
  <2>2. CASE InitProcess
    <3>1. nproc = 0
      BY <1>9, <2>2 DEF ConvertProcess, InitProcess, ProcessLockOK, tables,
                        TypeTables
    <3>2. known = {} /\ fibers = {} /\ threads = {}
          /\ \A u \in Thread : ep[u] # "live"
      BY <3>1 DEF PointersOK
    <3>3. threads' = {} /\ fibers' = {}
      BY <2>2 DEF InitProcess
    <3>4. OwnedLocked' /\ OneOwner'
      BY <3>3 DEF OwnedLocked, OneOwner, Owns
    <3>5. Unreturned'
      BY <2>1, <3>2, <3>3 DEF Unreturned
    <3>6. SwitchOK'
      BY <1>9, <2>1, <3>2 DEF ConvertProcess, Goto, SwitchOK, SwitchSteps
    <3> QED
      BY <3>4, <3>5, <3>6
  <2>3. CASE UNCHANGED <<tables, ep>>
    <3>1. UNCHANGED <<threads, fibers, ep>>
      BY <2>3 DEF tables
    <3>2. /\ \A u \in Thread, g \in FiberId : Owns(u, g)' => Owns(u, g)
          /\ \A u \in Thread, g \in FiberId : Builds(u, g)' => Builds(u, g)
      BY <1>9, <2>1, <3>1 DEF ConvertProcess, Goto, Owns, Builds, BuildSteps
    <3>3. SwitchOK'
      BY <1>9, <2>1, <3>1 DEF ConvertProcess, Goto, SwitchOK, SwitchSteps
    <3> QED
      BY <2>1, <3>1, <3>2, <3>3, QuietStep DEF LockInv
  <2> QED
    BY <1>9, <2>2, <2>3 DEF ConvertProcess
<1>10. ASSUME NEW t \in Thread, ConvertThread(t) PROVE LockInv'
  <2>1. /\ \A u \in Thread, g \in FiberId : Owns(u, g)' => Owns(u, g)
        /\ \A u \in Thread, g \in FiberId : Builds(u, g)' => Builds(u, g)
        /\ UNCHANGED <<known, lock, fibers>>
    BY <1>10 DEF ConvertThread, Return, tables, structs, users, Continue, Goto,
         locals, Leave, Owns, NoFiber, FiberId, Builds, BuildSteps
  <2>2. SwitchOK'
    BY <1>10 DEF ConvertThread, Return, users, Continue, Goto, locals, Leave,
         SwitchOK, SwitchSteps
  <2> QED
    BY <2>1, <2>2, QuietStep DEF LockInv
<1>11. ASSUME NEW t \in Thread, InitFiberReserve(t) PROVE LockInv'
  <2>1. /\ \A u \in Thread, g \in FiberId : Owns(u, g)' => Owns(u, g)
        /\ UNCHANGED <<known, lock, fibers>>
    BY <1>11 DEF InitFiberReserve, Step, Goto, structs, users, Owns
  <2>2. SwitchOK'
    BY <1>11 DEF InitFiberReserve, Step, Goto, users, SwitchOK, SwitchSteps
  <2>3. \A u \in Thread, g \in FiberId :
          Builds(u, g)' => Builds(u, g) \/ g = lastId + 1
    BY <1>11 DEF InitFiberReserve, Step, Goto, Builds, BuildSteps
  <2>4. lastId + 1 \notin known
    BY DEF IdsOK, Unreturned, TypeTables
  <2>5. Unreturned'
    BY <2>1, <2>3, <2>4 DEF Unreturned
  <2> QED
    BY <2>1, <2>2, <2>5 DEF OwnedLocked, OneOwner
<1>12. ASSUME NEW t \in Thread, InitFiberPublish(t) PROVE LockInv'
  <2> DEFINE f == cur[t]
  <2>1. f \in FiberId /\ Builds(t, f) /\ f \notin fibers /\ f \notin known
    BY <1>12 DEF InitFiberPublish, Step, CurOK, PointersOK, Builds, BuildSteps,
                IdsOK, Unreturned
  <2>2. /\ \A u \in Thread, g \in FiberId : Owns(u, g)' => Owns(u, g)
        /\ \A u \in Thread, g \in FiberId : Builds(u, g)' => Builds(u, g)
    BY <1>12 DEF InitFiberPublish, Step, Goto, locals, Owns, Builds, BuildSteps
  <2>3. UNCHANGED known /\ fibers' = fibers \cup {f}
        /\ lock' = [lock EXCEPT ![f] = FALSE]
    BY <1>12 DEF InitFiberPublish
  <2>4. OwnedLocked'
    BY <2>1, <2>2, <2>3 DEF OwnedLocked
  <2>5. OneOwner'
    BY <2>2 DEF OneOwner
  <2>6. Unreturned'
    BY <2>1, <2>2, <2>3 DEF Unreturned
  <2>7. SwitchOK'
    BY <1>12, <2>3 DEF InitFiberPublish, Step, Goto, locals, SwitchOK,
         SwitchSteps
  <2> QED
    BY <2>4, <2>5, <2>6, <2>7
<1>13. ASSUME NEW t \in Thread, ConvertStack(t) PROVE LockInv'
  <2>1. /\ \A u \in Thread, g \in FiberId : Owns(u, g)' => Owns(u, g)
        /\ \A u \in Thread, g \in FiberId : Builds(u, g)' => Builds(u, g)
        /\ UNCHANGED <<known, lock, fibers>>
    BY <1>13 DEF ConvertStack, Step, tables, locals, users, structs, Goto,
         Owns, Builds, BuildSteps
  <2>2. SwitchOK'
    BY <1>13 DEF ConvertStack, Step, locals, users, Goto, SwitchOK, SwitchSteps
  <2> QED
    BY <2>1, <2>2, QuietStep DEF LockInv
<1>14. ASSUME NEW t \in Thread, ConvertAttach(t) PROVE LockInv'
  <2>1. /\ \A u \in Thread, g \in FiberId : Owns(u, g)' => Owns(u, g)
        /\ \A u \in Thread, g \in FiberId : Builds(u, g)' => Builds(u, g)
        /\ UNCHANGED <<known, lock, fibers>>
    BY <1>14 DEF ConvertAttach, Step, tables, locals, users, structs, Goto,
         Owns, Builds, BuildSteps
  <2>2. SwitchOK'
    BY <1>14 DEF ConvertAttach, Step, locals, users, Goto, SwitchOK,
         SwitchSteps
  <2> QED
    BY <2>1, <2>2, QuietStep DEF LockInv
<1>15. ASSUME NEW t \in Thread, ConvertTrylock(t) PROVE LockInv'
  <2> DEFINE f == cur[t]
  <2>1. /\ f \in FiberId /\ Builds(t, f) /\ sel[t] = f
        /\ f \in fibers /\ f \notin known /\ ~lock[f]
    BY <1>15 DEF ConvertTrylock, CurOK, PointersOK, Builds, BuildSteps, IdsOK,
                Unreturned, SwitchOK
  <2>2. known' = known \cup {f} /\ lock' = [lock EXCEPT ![f] = TRUE]
        /\ UNCHANGED <<fibers, threads>>
    BY <1>15, <2>1 DEF ConvertTrylock, TrylockFails, tables
  <2>3. \A u \in Thread, g \in FiberId :
          Owns(u, g)' => Owns(u, g) \/ (u = t /\ g = f)
    BY <1>15, <2>1, <2>2 DEF ConvertTrylock, Return, Leave, Goto, Owns
  <2>4. \A u \in Thread, g \in FiberId : Builds(u, g)' => u # t /\ Builds(u, g)
    BY <1>15 DEF ConvertTrylock, Return, Leave, Goto, Builds, BuildSteps
  <2>5. \A u \in Thread : ~Owns(u, f)
    BY <2>1 DEF OwnedLocked
  <2>6. OwnedLocked'
    BY <2>1, <2>2, <2>3 DEF OwnedLocked
  <2>7. OneOwner'
    BY <2>3, <2>5 DEF OneOwner
  <2>8. \A u \in Thread : Builds(u, f) => u = t
    BY <2>1 DEF IdsOK
  <2>9. Unreturned'
    BY <2>1, <2>2, <2>4, <2>8 DEF Unreturned
  <2>10. SwitchOK'
    BY <1>15, <2>2 DEF ConvertTrylock, Return, Leave, Goto, SwitchOK,
         SwitchSteps
  <2> QED
    BY <2>6, <2>7, <2>9, <2>10
<1>16. ASSUME NEW t \in Thread, CreateEntry(t) PROVE LockInv'
  <2> DEFINE f == cur[t]
  <2>1. /\ f \in FiberId /\ Builds(t, f)
        /\ f \in fibers /\ f \notin known /\ ~lock[f]
    BY <1>16 DEF CreateEntry, CurOK, PointersOK, Builds, BuildSteps, IdsOK,
                Unreturned
  <2>2. known' = known \cup {f} /\ UNCHANGED <<fibers, lock, threads>>
    BY <1>16 DEF CreateEntry, tables
  <2>3. \A u \in Thread, g \in FiberId : Owns(u, g)' => Owns(u, g)
    BY <1>16 DEF CreateEntry, Return, Leave, Goto, tables, Owns
  <2>4. \A u \in Thread, g \in FiberId : Builds(u, g)' => u # t /\ Builds(u, g)
    BY <1>16 DEF CreateEntry, Return, Leave, Goto, Builds, BuildSteps
  <2>5. OwnedLocked'
    BY <2>2, <2>3 DEF OwnedLocked
  <2>6. OneOwner'
    BY <2>3 DEF OneOwner
  <2>7. \A u \in Thread : Builds(u, f) => u = t
    BY <2>1 DEF IdsOK
  <2>8. Unreturned'
    BY <2>1, <2>2, <2>4, <2>7 DEF Unreturned
  <2>9. SwitchOK'
    BY <1>16, <2>2 DEF CreateEntry, Return, Leave, Goto, SwitchOK, SwitchSteps
  <2> QED
    BY <2>5, <2>6, <2>8, <2>9
<1>17. ASSUME NEW t \in Thread, SwitchLookup(t) PROVE LockInv'
  <2>1. /\ \A u \in Thread, g \in FiberId : Owns(u, g)' => Owns(u, g)
        /\ \A u \in Thread, g \in FiberId : Builds(u, g)' => Builds(u, g)
        /\ UNCHANGED <<known, lock, fibers>>
    BY <1>17 DEF SwitchLookup, Return, tables, structs, users, Continue, Goto,
         locals, Leave, Owns, Builds, BuildSteps
  <2>2. SwitchOK'
    BY <1>17 DEF SwitchLookup, Return, users, Continue, Goto, locals, Leave,
         SwitchOK, SwitchSteps
  <2> QED
    BY <2>1, <2>2, QuietStep DEF LockInv
<1>18. ASSUME NEW t \in Thread, SwitchTrylock(t) PROVE LockInv'
  <2> DEFINE f == cur[t]
  <2>1. f \in FiberId /\ f \in known /\ t \in threads /\ ep[t] = "live"
    BY <1>18 DEF SwitchTrylock, CurOK, PointersOK, SwitchSteps, ThreadSteps,
                SwitchOK
  <2>2. UNCHANGED <<known, fibers, threads, sel>>
    BY <1>18 DEF SwitchTrylock, tables, users
  <2>3. \A u \in Thread, g \in FiberId : Builds(u, g)' => Builds(u, g)
    BY <1>18 DEF SwitchTrylock, Continue, Return, Leave, Goto, locals, Builds,
                BuildSteps
  <2>4. CASE TrylockFails(f)
    <3>1. Return(t) /\ UNCHANGED lock
      BY <1>18, <2>4 DEF SwitchTrylock
    <3>2. \A u \in Thread, g \in FiberId : Owns(u, g)' => Owns(u, g)
      BY <1>18, <2>2, <3>1 DEF SwitchTrylock, Return, Leave, Goto, Owns
    <3>3. SwitchOK'
      BY <2>2, <3>1 DEF Return, Leave, Goto, SwitchOK, SwitchSteps
    <3> QED
      BY <2>2, <2>3, <3>1, <3>2, <3>3, QuietStep DEF LockInv
  <2>5. CASE ~TrylockFails(f)
    <3>1. Continue(t, "switch_check") /\ lock' = [lock EXCEPT ![f] = TRUE]
      BY <1>18, <2>5 DEF SwitchTrylock
    <3>2. \A u \in Thread, g \in FiberId :
            Owns(u, g)' => Owns(u, g) \/ (u = t /\ g = f)
      BY <1>18, <2>2, <3>1 DEF SwitchTrylock, Continue, Goto, locals, Owns
    <3>3. \A u \in Thread : ~Owns(u, f)
      BY <2>1, <2>5 DEF OwnedLocked, TrylockFails
    <3>4. OwnedLocked'
      BY <2>1, <2>2, <3>1, <3>2 DEF OwnedLocked
    <3>5. OneOwner'
      BY <3>2, <3>3 DEF OneOwner
    <3>6. Unreturned'
      BY <2>1, <2>2, <2>3, <3>1 DEF Unreturned
    <3>7. f # sel[t]
      BY <1>18, <2>1, <3>3 DEF SwitchTrylock, Owns
    <3>8. SwitchOK'
      BY <1>18, <2>2, <3>1, <3>7 DEF SwitchTrylock, Continue, Goto, locals,
           SwitchOK,
                                   SwitchSteps
    <3> QED
      BY <3>4, <3>5, <3>6, <3>8
  <2> QED
    BY <2>4, <2>5
<1>19. ASSUME NEW t \in Thread, SwitchCheck(t) PROVE LockInv'
  <2>1. /\ \A u \in Thread, g \in FiberId : Owns(u, g)' => Owns(u, g)
        /\ \A u \in Thread, g \in FiberId : Builds(u, g)' => Builds(u, g)
        /\ UNCHANGED <<known, lock, fibers>>
    BY <1>19 DEF SwitchCheck, Return, tables, structs, users, Continue, Goto,
         locals, Leave, Owns, Builds, BuildSteps
  <2>2. SwitchOK'
    BY <1>19 DEF SwitchCheck, Return, users, Continue, Goto, locals, Leave,
         SwitchOK, SwitchSteps
  <2> QED
    BY <2>1, <2>2, QuietStep DEF LockInv
<1>20. ASSUME NEW t \in Thread, SwitchAttach(t) PROVE LockInv'
  <2>1. /\ \A u \in Thread, g \in FiberId : Owns(u, g)' => Owns(u, g)
        /\ \A u \in Thread, g \in FiberId : Builds(u, g)' => Builds(u, g)
        /\ UNCHANGED <<known, lock, fibers>>
    BY <1>20 DEF SwitchAttach, Step, tables, users, structs, locals, Goto,
         Owns, Builds, BuildSteps
  <2>2. SwitchOK'
    BY <1>20 DEF SwitchAttach, Step, users, locals, Goto, SwitchOK, SwitchSteps
  <2> QED
    BY <2>1, <2>2, QuietStep DEF LockInv
<1>21. ASSUME NEW t \in Thread, SwitchSave(t) PROVE LockInv'
  <2>1. /\ \A u \in Thread, g \in FiberId : Owns(u, g)' => Owns(u, g)
        /\ \A u \in Thread, g \in FiberId : Builds(u, g)' => Builds(u, g)
        /\ UNCHANGED <<known, lock, fibers>>
    BY <1>21 DEF SwitchSave, Step, tables, locals, users, structs, Goto, Owns,
         Builds, BuildSteps
  <2>2. SwitchOK'
    BY <1>21 DEF SwitchSave, Step, locals, users, Goto, SwitchOK, SwitchSteps
  <2> QED
    BY <2>1, <2>2, QuietStep DEF LockInv
<1>22. ASSUME NEW t \in Thread, SwitchDetach(t) PROVE LockInv'
  <2>1. /\ \A u \in Thread, g \in FiberId : Owns(u, g)' => Owns(u, g)
        /\ \A u \in Thread, g \in FiberId : Builds(u, g)' => Builds(u, g)
        /\ UNCHANGED <<known, lock, fibers>>
    BY <1>22 DEF SwitchDetach, Step, tables, locals, users, structs, Goto,
         Owns, Builds, BuildSteps
  <2>2. SwitchOK'
    BY <1>22 DEF SwitchDetach, Step, locals, users, Goto, SwitchOK, SwitchSteps
  <2> QED
    BY <2>1, <2>2, QuietStep DEF LockInv
<1>23. ASSUME NEW t \in Thread, SwitchUnlock(t) PROVE LockInv'
  <2>1. PICK f \in 0..MaxFibers : f = prev[t]
    OBVIOUS
  <2>2. t \in threads /\ UNCHANGED <<known, fibers, threads, sel>>
        /\ lock' = [lock EXCEPT ![f] = FALSE]
    BY <1>23, <2>1 DEF SwitchUnlock, UnlockFiber, Step, PointersOK,
         ThreadSteps, SwitchSteps, tables, users
  <2>3. \A u \in Thread, g \in FiberId : Builds(u, g)' => Builds(u, g)
    BY <1>23 DEF SwitchUnlock, Step, Goto, locals, Builds, BuildSteps
  <2>4. Owns(t, f)
    BY <1>23, <2>1, <2>2 DEF SwitchUnlock, Step, Owns
  <2>5. \A u \in Thread, g \in FiberId : Owns(u, g)' => Owns(u, g)
    BY <1>23, <2>2 DEF SwitchUnlock, Step, Goto, locals, Owns
  <2>6. ~Owns(t, f)'
    BY <1>23, <2>1, <2>2 DEF SwitchUnlock, Step, Goto, locals, Owns, SwitchOK
  <2>7. OneOwner'
    BY <2>5 DEF OneOwner
  <2>8. f \in FiberId => \A u \in Thread : ~Owns(u, f)'
    BY <2>4, <2>5, <2>6 DEF OneOwner
  <2>9. OwnedLocked'
    <3> SUFFICES ASSUME NEW u \in Thread, NEW g \in FiberId, Owns(u, g)'
                 PROVE  g \in known' /\ lock'[g]
      BY DEF OwnedLocked
    <3>1. g # f
      BY <2>8
    <3> QED
      BY <2>2, <2>5, <3>1 DEF OwnedLocked
  <2>10. Unreturned'
    BY <2>2, <2>3 DEF Unreturned
  <2>11. SwitchOK'
    BY <1>23, <2>2 DEF SwitchUnlock, Step, Goto, locals, SwitchOK, SwitchSteps
  <2> QED
    BY <2>7, <2>9, <2>10, <2>11
<1>24. ASSUME NEW t \in Thread, SwitchRestore(t) PROVE LockInv'
  <2>1. /\ \A u \in Thread, g \in FiberId : Owns(u, g)' => Owns(u, g)
        /\ \A u \in Thread, g \in FiberId : Builds(u, g)' => Builds(u, g)
        /\ UNCHANGED <<known, lock, fibers>>
    BY <1>24 DEF SwitchRestore, Return, tables, structs, users, locals, Leave,
         Goto, Owns, Builds, BuildSteps
  <2>2. SwitchOK'
    BY <1>24 DEF SwitchRestore, Return, users, locals, Leave, Goto, SwitchOK,
         SwitchSteps
  <2> QED
    BY <2>1, <2>2, QuietStep DEF LockInv
<1>25. ASSUME NEW t \in Thread, ExitThread(t) PROVE LockInv'
  <2>1. /\ \A u \in Thread, g \in FiberId : Owns(u, g)' => Owns(u, g)
        /\ \A u \in Thread, g \in FiberId : Builds(u, g)' => Builds(u, g)
        /\ UNCHANGED <<known, lock, fibers>>
    BY <1>25 DEF ExitThread, Leave, tables, structs, users, Continue, Goto,
         locals, Owns, Builds, BuildSteps
  <2>2. SwitchOK'
    BY <1>25 DEF ExitThread, Leave, users, Continue, Goto, locals, SwitchOK,
         SwitchSteps
  <2> QED
    BY <2>1, <2>2, QuietStep DEF LockInv
<1>26. ASSUME NEW t \in Thread, ExitDec(t) PROVE LockInv'
  <2>1. /\ \A u \in Thread, g \in FiberId : Owns(u, g)' => Owns(u, g)
        /\ \A u \in Thread, g \in FiberId : Builds(u, g)' => Builds(u, g)
        /\ UNCHANGED <<known, lock, fibers>>
    BY <1>26 DEF ExitDec, LastThread, Step, structs, users, tables, locals,
         Goto, Owns, Builds, BuildSteps
  <2>2. SwitchOK'
    BY <1>26 DEF ExitDec, LastThread, Step, users, locals, Goto, SwitchOK,
         SwitchSteps
  <2> QED
    BY <2>1, <2>2, QuietStep DEF LockInv
<1>27. ASSUME NEW t \in Thread, ExitSave(t) PROVE LockInv'
  <2>1. /\ \A u \in Thread, g \in FiberId : Owns(u, g)' => Owns(u, g)
        /\ \A u \in Thread, g \in FiberId : Builds(u, g)' => Builds(u, g)
        /\ UNCHANGED <<known, lock, fibers>>
    BY <1>27 DEF ExitSave, Step, tables, locals, users, structs, Goto, Owns,
         Builds, BuildSteps
  <2>2. SwitchOK'
    BY <1>27 DEF ExitSave, Step, locals, users, Goto, SwitchOK, SwitchSteps
  <2> QED
    BY <2>1, <2>2, QuietStep DEF LockInv
<1>28. ASSUME NEW t \in Thread, ExitDetach(t) PROVE LockInv'
  <2>1. /\ \A u \in Thread, g \in FiberId : Owns(u, g)' => Owns(u, g)
        /\ \A u \in Thread, g \in FiberId : Builds(u, g)' => Builds(u, g)
        /\ UNCHANGED <<known, lock, fibers>>
    BY <1>28 DEF ExitDetach, Step, tables, locals, users, structs, Goto, Owns,
         Builds, BuildSteps
  <2>2. SwitchOK'
    BY <1>28 DEF ExitDetach, Step, locals, users, Goto, SwitchOK, SwitchSteps
  <2> QED
    BY <2>1, <2>2, QuietStep DEF LockInv
<1>29. ASSUME NEW t \in Thread, ExitUnlock(t) PROVE LockInv'
  <2>1. PICK f \in 0..MaxFibers : f = sel[t]
    OBVIOUS
  <2>2. t \in threads /\ UNCHANGED <<known, fibers, threads, sel>>
        /\ lock' = [lock EXCEPT ![f] = FALSE]
    BY <1>29, <2>1 DEF ExitUnlock, UnlockFiber, Step, PointersOK, ThreadSteps,
         SwitchSteps, tables, users
  <2>3. \A u \in Thread, g \in FiberId : Builds(u, g)' => Builds(u, g)
    BY <1>29 DEF ExitUnlock, Step, Goto, locals, Builds, BuildSteps
  <2>4. Owns(t, f)
    BY <1>29, <2>1, <2>2 DEF ExitUnlock, Step, Owns
  <2>5. \A u \in Thread, g \in FiberId : Owns(u, g)' => Owns(u, g)
    BY <1>29, <2>2 DEF ExitUnlock, Step, Goto, locals, Owns
  <2>6. ~Owns(t, f)'
    BY <1>29, <2>1, <2>2 DEF ExitUnlock, Step, Goto, locals, Owns
  <2>7. OneOwner'
    BY <2>5 DEF OneOwner
  <2>8. f \in FiberId => \A u \in Thread : ~Owns(u, f)'
    BY <2>4, <2>5, <2>6 DEF OneOwner
  <2>9. OwnedLocked'
    <3> SUFFICES ASSUME NEW u \in Thread, NEW g \in FiberId, Owns(u, g)'
                 PROVE  g \in known' /\ lock'[g]
      BY DEF OwnedLocked
    <3>1. g # f
      BY <2>8
    <3> QED
      BY <2>2, <2>5, <3>1 DEF OwnedLocked
  <2>10. Unreturned'
    BY <2>2, <2>3 DEF Unreturned
  <2>11. SwitchOK'
    BY <1>29, <2>2 DEF ExitUnlock, Step, Goto, locals, SwitchOK, SwitchSteps
  <2> QED
    BY <2>7, <2>9, <2>10, <2>11
<1>30. ASSUME NEW t \in Thread, ExitFreeThread(t) PROVE LockInv'
  <2>1. /\ \A u \in Thread, g \in FiberId : Owns(u, g)' => Owns(u, g)
        /\ \A u \in Thread, g \in FiberId : Builds(u, g)' => Builds(u, g)
        /\ UNCHANGED <<known, lock, fibers>>
    BY <1>30 DEF ExitFreeThread, Leave, structs, users, Continue, Goto, locals,
         tables, Owns, Builds, BuildSteps
  <2>2. SwitchOK'
    BY <1>30 DEF ExitFreeThread, Leave, users, Continue, Goto, locals,
         SwitchOK, SwitchSteps
  <2> QED
    BY <2>1, <2>2, QuietStep DEF LockInv
<1>31. ASSUME NEW t \in Thread, ExitFreeProcess(t) PROVE LockInv'
  <2>1. /\ threads' = {} /\ fibers' = {} /\ known' = {}
        /\ ep' \in [Thread -> {"null", "live", "freed"}]
        /\ \A u \in Thread : ep'[u] # "live"
        /\ UNCHANGED <<cur, sel, prev>>
        /\ \A u \in Thread : pc'[u] = pc[u] \/ pc'[u] = "dead"
    BY <1>31 DEF ExitFreeProcess, FreeProcess, Step, Goto
  <2>2. \A u \in Thread : ep'[u] = "null" =>
          pc'[u] \notin SwitchSteps \cup {"find_thread"}
    BY <1>31 DEF ExitFreeProcess, FreeProcess, Step, Goto, PointersOK,
         SwitchSteps
  <2> QED
    BY <2>1, <2>2, FreedStep
<1>32. ASSUME NEW t \in Thread, Fault(t) PROVE LockInv'
  <2>1. /\ \A u \in Thread, g \in FiberId : Owns(u, g)' => Owns(u, g)
        /\ \A u \in Thread, g \in FiberId : Builds(u, g)' => Builds(u, g)
        /\ UNCHANGED <<known, lock, fibers>>
    BY <1>32 DEF Fault, Goto, tables, structs, locals, users, Owns, PointersOK,
         Builds, BuildSteps
  <2>2. SwitchOK'
    BY <1>32 DEF Fault, Goto, locals, users, SwitchOK, SwitchSteps
  <2> QED
    BY <2>1, <2>2, QuietStep DEF LockInv
<1>33. ASSUME NEW t \in Thread, NEW f \in FiberId, CallSwitch(t, f) PROVE LockInv'
  <2>1. /\ \A u \in Thread, g \in FiberId : Owns(u, g)' => Owns(u, g)
        /\ \A u \in Thread, g \in FiberId : Builds(u, g)' => Builds(u, g)
        /\ UNCHANGED <<known, lock, fibers>>
    BY <1>33 DEF CallSwitch, Goto, tables, structs, users, locals, Owns,
         Builds, BuildSteps
  <2>2. SwitchOK'
    BY <1>33 DEF CallSwitch, Goto, users, locals, SwitchOK, SwitchSteps, CurOK
  <2> QED
    BY <2>1, <2>2, QuietStep DEF LockInv
<1>34. CASE UNCHANGED vars
  BY <1>34 DEF vars, tables, structs, locals, users, OwnedLocked, OneOwner,
       Unreturned, SwitchOK, Owns, Builds
<1> QED
  BY <1>1, <1>2, <1>3, <1>4, <1>5, <1>6, <1>7, <1>8, <1>9, <1>10, <1>11, <1>12,
       <1>13, <1>14, <1>15, <1>16, <1>17, <1>18, <1>19, <1>20, <1>21, <1>22,
       <1>23, <1>24, <1>25, <1>26, <1>27, <1>28, <1>29, <1>30, <1>31, <1>32,
       <1>33, <1>34 DEF Next, UserStep, KernelStep, Finished

\* The empty tables satisfy LockInv.
LEMMA LockInit == Init => LockInv
BY DEF Init, LockInv, OwnedLocked, OneOwner, Unreturned, SwitchOK, Owns, Builds,
       BuildSteps, SwitchSteps

\* The lock discipline holds for every client that uses only the ids it was
\* given.
THEOREM LockInvariant ==
  ASSUME ~GuessIds
  PROVE  Spec => []LockInv
<1>1. Init => LockInv
  BY LockInit
<1>2. BaseInv /\ LockInv /\ [Next]_vars => LockInv'
  BY LockStep
<1> QED
  BY <1>1, <1>2, BaseInvariant, PTL DEF Spec

\* For any number of threads, any number of fibers and any exits, two threads
\* never run the same fiber, as long as they switch only to ids that
\* ConvertThreadToFiber or CreateFiber returned.
THEOREM ExclusiveFibers ==
  ASSUME ~GuessIds
  PROVE  Spec => []OneThreadPerFiber
<1>1. LockInv => OneThreadPerFiber
  BY DEF LockInv, OneOwner, Owns, OneThreadPerFiber, Runs
<1> QED
  BY <1>1, LockInvariant, PTL

-----------------------------------------------------------------------------
(***************************************************************************)
(* attached_thread                                                         *)
(***************************************************************************)

\* The fibers a thread has locked or is building are no other thread's.
LEMMA Separate ==
  ASSUME BaseInv, LockInv, NEW t \in Thread, NEW u \in Thread, t # u,
         NEW f \in FiberId, Owns(t, f) \/ Builds(t, f)
  PROVE  ~Owns(u, f) /\ ~Builds(u, f)
BY DEF BaseInv, LockInv, OwnedLocked, OneOwner, Unreturned, IdsOK

\* The fiber a thread has selected is one it owns or builds.
LEMMA SelectedIsOwn ==
  ASSUME BaseInv, LockInv, AttachInv, NEW t \in threads
  PROVE  /\ t \in Thread /\ ep[t] # "freed"
         /\ ~Converting(t) => sel[t] \in FiberId
         /\ ~Converting(t) /\ pc[t] # "exit_free_thread"
              => Owns(t, sel[t]) \/ Builds(t, sel[t])
<1>1. t \in Thread /\ ep[t] # "freed"
  BY DEF BaseInv, TypeOK, TypeTables, PointersOK
<1>2. ~Converting(t) => sel[t] \in FiberId
  BY <1>1 DEF AttachInv, Attaches, BaseInv, TypeOK, TypeLinks, NoFiber, FiberId
<1>3. pc[t] = "convert_trylock" => Builds(t, sel[t])
  BY <1>1 DEF LockInv, SwitchOK, Builds, BuildSteps, BaseInv, PointersOK, TypeOK,
       TypeLocals
<1> QED
  BY <1>1, <1>2, <1>3 DEF Owns

\* What a thread relies on is not disturbed by a step of another thread that
\* changes attached_thread of a fiber of its own.
LEMMA OthersAttached ==
  ASSUME BaseInv, LockInv, AttachInv, NEW t \in threads, NEW u \in Thread, t # u,
         NEW f, f \in FiberId => Owns(u, f) \/ Builds(u, f),
         pc'[t] = pc[t], cmd'[t] = cmd[t], sel'[t] = sel[t], cur'[t] = cur[t],
         prev'[t] = prev[t],
         \A g \in FiberId \ {f} : attached'[g] = attached[g]
  PROVE  Attaches(t)'
<1>1. Attaches(t) /\ t \in Thread /\ ep[t] # "freed"
  BY SelectedIsOwn DEF AttachInv
<1>2. Converting(t)' <=> Converting(t)
  BY DEF Converting
<1>3. ~Converting(t) /\ pc[t] # "exit_free_thread"
        => attached'[sel[t]] = attached[sel[t]]
  BY <1>1, SelectedIsOwn, Separate
<1>4. pc[t] \in {"switch_save", "switch_detach", "switch_unlock"}
        => attached'[prev[t]] = attached[prev[t]]
  BY <1>1, Separate DEF Owns, Attaches
<1>5. pc[t] \in {"switch_check", "switch_attach", "create_entry"}
        => attached'[cur[t]] = attached[cur[t]]
  <2>1. pc[t] \in {"switch_check", "switch_attach"}
          => cur[t] \in FiberId /\ Owns(t, cur[t])
    BY <1>1 DEF Owns, BaseInv, CurOK, SwitchSteps
  <2>2. pc[t] = "create_entry" => cur[t] \in FiberId /\ Builds(t, cur[t])
    BY <1>1 DEF Builds, BuildSteps, BaseInv, CurOK, PointersOK, TypeOK, TypeLocals
  <2> QED
    BY <1>1, <2>1, <2>2, Separate
<1>6. pc[t] \in {"exit_unlock", "switch_check", "switch_attach", "switch_save",
                 "switch_detach", "switch_unlock"} => ~Converting(t)
  BY DEF Converting, InitFiberSteps
<1> QED
  BY <1>1, <1>2, <1>3, <1>4, <1>5, <1>6 DEF Attaches

\* A step that leaves the fibers alone keeps AttachInv if its thread does.
LEMMA QuietAttach ==
  ASSUME AttachInv, NEW t \in Thread,
         UNCHANGED <<attached, lock, known>>, threads' \subseteq threads \cup {t},
         \A u \in threads \ {t} : UNCHANGED <<pc[u], cmd[u], sel[u], cur[u], prev[u]>>,
         CmdOK', t \in threads' => Attaches(t)'
  PROVE  AttachInv'
<1>1. ASSUME NEW u \in threads \ {t} PROVE Attaches(u)'
  BY <1>1 DEF AttachInv, Attaches, Converting
<1> QED
  BY <1>1 DEF AttachInv

\* Every step keeps CmdOK.
LEMMA CmdStep ==
  ASSUME BaseInv, CmdOK, [Next]_vars
  PROVE  CmdOK'
<1> USE DEF BaseInv, TypeOK, TypePc, TypeLocals, CmdOK, CurOK, InitFiberSteps
<1>1. ASSUME NEW t \in Thread, Work(t) PROVE CmdOK'
  BY <1>1 DEF Work, locals
<1>2. ASSUME NEW t \in Thread, CallConvert(t) PROVE CmdOK'
  BY <1>2 DEF CallConvert, Goto
<1>3. ASSUME NEW t \in Thread, CallCreate(t) PROVE CmdOK'
  BY <1>3 DEF CallCreate, Goto
<1>4. ASSUME NEW t \in Thread, CallExit(t) PROVE CmdOK'
  BY <1>4 DEF CallExit, Goto, Leave, locals
<1>5. ASSUME NEW t \in Thread, Close(t) PROVE CmdOK'
  BY <1>5 DEF Close
<1>6. ASSUME NEW t \in Thread, FindThread(t) PROVE CmdOK'
  BY <1>6 DEF FindThread, Return, Leave, Continue, Goto, locals
<1>7. ASSUME NEW t \in Thread, ConvertLock(t) PROVE CmdOK'
  BY <1>7 DEF ConvertLock, Step, Goto, locals
<1>8. ASSUME NEW t \in Thread, ConvertFind(t) PROVE CmdOK'
  BY <1>8 DEF ConvertFind, Step, Goto
<1>9. ASSUME NEW t \in Thread, ConvertProcess(t) PROVE CmdOK'
  BY <1>9 DEF ConvertProcess, Goto
<1>10. ASSUME NEW t \in Thread, ConvertThread(t) PROVE CmdOK'
  BY <1>10 DEF ConvertThread, Return, Leave, Continue, Goto, locals
<1>11. ASSUME NEW t \in Thread, InitFiberReserve(t) PROVE CmdOK'
  BY <1>11 DEF InitFiberReserve, Step, Goto
<1>12. ASSUME NEW t \in Thread, InitFiberPublish(t) PROVE CmdOK'
  BY <1>12 DEF InitFiberPublish, Step, Goto, locals
<1>13. ASSUME NEW t \in Thread, ConvertStack(t) PROVE CmdOK'
  BY <1>13 DEF ConvertStack, Step, Goto, locals
<1>14. ASSUME NEW t \in Thread, ConvertAttach(t) PROVE CmdOK'
  BY <1>14 DEF ConvertAttach, Step, Goto, locals
<1>15. ASSUME NEW t \in Thread, ConvertTrylock(t) PROVE CmdOK'
  BY <1>15 DEF ConvertTrylock, Return, Leave, Goto
<1>16. ASSUME NEW t \in Thread, CreateEntry(t) PROVE CmdOK'
  BY <1>16 DEF CreateEntry, Return, Leave, Goto
<1>17. ASSUME NEW t \in Thread, SwitchLookup(t) PROVE CmdOK'
  BY <1>17 DEF SwitchLookup, Return, Leave, Continue, Goto, locals
<1>18. ASSUME NEW t \in Thread, SwitchTrylock(t) PROVE CmdOK'
  BY <1>18 DEF SwitchTrylock, Return, Leave, Continue, Goto, locals
<1>19. ASSUME NEW t \in Thread, SwitchCheck(t) PROVE CmdOK'
  BY <1>19 DEF SwitchCheck, Return, Leave, Continue, Goto, locals
<1>20. ASSUME NEW t \in Thread, SwitchAttach(t) PROVE CmdOK'
  BY <1>20 DEF SwitchAttach, Step, Goto
<1>21. ASSUME NEW t \in Thread, SwitchSave(t) PROVE CmdOK'
  BY <1>21 DEF SwitchSave, Step, Goto, locals
<1>22. ASSUME NEW t \in Thread, SwitchDetach(t) PROVE CmdOK'
  BY <1>22 DEF SwitchDetach, Step, Goto, locals
<1>23. ASSUME NEW t \in Thread, SwitchUnlock(t) PROVE CmdOK'
  BY <1>23 DEF SwitchUnlock, Step, Goto, locals
<1>24. ASSUME NEW t \in Thread, SwitchRestore(t) PROVE CmdOK'
  BY <1>24 DEF SwitchRestore, Return, Leave, Goto
<1>25. ASSUME NEW t \in Thread, ExitThread(t) PROVE CmdOK'
  BY <1>25 DEF ExitThread, Leave, Continue, Goto, locals
<1>26. ASSUME NEW t \in Thread, ExitDec(t) PROVE CmdOK'
  BY <1>26 DEF ExitDec, Step, Goto
<1>27. ASSUME NEW t \in Thread, ExitSave(t) PROVE CmdOK'
  BY <1>27 DEF ExitSave, Step, Goto, locals
<1>28. ASSUME NEW t \in Thread, ExitDetach(t) PROVE CmdOK'
  BY <1>28 DEF ExitDetach, Step, Goto, locals
<1>29. ASSUME NEW t \in Thread, ExitUnlock(t) PROVE CmdOK'
  BY <1>29 DEF ExitUnlock, Step, Goto, locals
<1>30. ASSUME NEW t \in Thread, ExitFreeThread(t) PROVE CmdOK'
  BY <1>30 DEF ExitFreeThread, Leave, Continue, Goto, locals
<1>31. ASSUME NEW t \in Thread, ExitFreeProcess(t) PROVE CmdOK'
  BY <1>31 DEF ExitFreeProcess, Step, Goto, locals
<1>32. ASSUME NEW t \in Thread, Fault(t) PROVE CmdOK'
  BY <1>32 DEF Fault, Goto, locals
<1>33. ASSUME NEW t \in Thread, NEW f \in FiberId, CallSwitch(t, f) PROVE CmdOK'
  BY <1>33 DEF CallSwitch, Goto
<1>34. CASE UNCHANGED vars
  BY <1>34 DEF vars, locals
<1> QED
  BY <1>1, <1>2, <1>3, <1>4, <1>5, <1>6, <1>7, <1>8, <1>9, <1>10, <1>11,
       <1>12, <1>13, <1>14, <1>15, <1>16, <1>17, <1>18, <1>19, <1>20, <1>21,
       <1>22, <1>23, <1>24, <1>25, <1>26, <1>27, <1>28, <1>29, <1>30, <1>31,
       <1>32, <1>33, <1>34 DEF Next, UserStep, KernelStep, Finished

\* Every step keeps AttachInv.
LEMMA AttachStep ==
  ASSUME ~GuessIds, BaseInv, BaseInv', LockInv, LockInv', AttachInv, [Next]_vars
  PROVE  AttachInv'
<1> USE DEF BaseInv
<1>0. CmdOK'
  BY CmdStep DEF AttachInv
<1>1. ASSUME NEW t \in Thread, Work(t) PROVE AttachInv'
  BY <1>0, <1>1, QuietAttach DEF Work, tables, structs, locals, users,
       AttachInv, Attaches, Converting
<1>2. ASSUME NEW t \in Thread, CallConvert(t) PROVE AttachInv'
  <2>1. /\ UNCHANGED <<attached, lock, known, threads>>
        /\ \A u \in threads \ {t} :
             UNCHANGED <<pc[u], cmd[u], sel[u], cur[u], prev[u]>>
    BY <1>2 DEF CallConvert, Goto, tables, structs, locals, users, TypeOK,
        TypeTables, TypePc, TypeLocals, TypeLinks
  <2>2. ASSUME t \in threads PROVE Attaches(t)'
    BY <1>2, <2>1, <2>2 DEF AttachInv, PointersOK, CallConvert, Goto, tables,
        structs, locals, users, Attaches, Converting, InitFiberSteps, TypeOK,
        TypeTables, TypePc, TypeLocals, TypeLinks
  <2> QED
    BY <1>0, <2>1, <2>2, QuietAttach
<1>3. ASSUME NEW t \in Thread, CallCreate(t) PROVE AttachInv'
  <2>1. /\ UNCHANGED <<attached, lock, known, threads>>
        /\ \A u \in threads \ {t} :
             UNCHANGED <<pc[u], cmd[u], sel[u], cur[u], prev[u]>>
    BY <1>3 DEF CallCreate, Goto, tables, structs, locals, users, TypeOK,
        TypeTables, TypePc, TypeLocals, TypeLinks
  <2>2. ASSUME t \in threads PROVE Attaches(t)'
    BY <1>3, <2>1, <2>2 DEF AttachInv, PointersOK, CallCreate, Goto, tables,
        structs, locals, users, Attaches, Converting, InitFiberSteps, TypeOK,
        TypeTables, TypePc, TypeLocals, TypeLinks
  <2> QED
    BY <1>0, <2>1, <2>2, QuietAttach
<1>4. ASSUME NEW t \in Thread, CallExit(t) PROVE AttachInv'
  <2>1. /\ UNCHANGED <<attached, lock, known, threads>>
        /\ \A u \in threads \ {t} :
             UNCHANGED <<pc[u], cmd[u], sel[u], cur[u], prev[u]>>
    BY <1>4 DEF CallExit, Goto, Leave, tables, structs, locals, users, TypeOK,
        TypeTables, TypePc, TypeLocals, TypeLinks
  <2>2. ASSUME t \in threads PROVE Attaches(t)'
    BY <1>4, <2>1, <2>2 DEF AttachInv, PointersOK, CallExit, Goto, Leave, tables,
        structs, locals, users, Attaches, Converting, InitFiberSteps, TypeOK,
        TypeTables, TypePc, TypeLocals, TypeLinks
  <2> QED
    BY <1>0, <2>1, <2>2, QuietAttach
<1>5. ASSUME NEW t \in Thread, Close(t) PROVE AttachInv'
  <2>1. CASE FreeProcess(t)
    BY <1>0, <2>1 DEF FreeProcess, AttachInv
  <2>2. CASE UNCHANGED <<tables, ep, known>>
    BY <1>0, <1>5, <2>2, QuietAttach DEF Close, tables, structs, AttachInv, Attaches,
         Converting
  <2> QED
    BY <1>5, <2>1, <2>2 DEF Close
<1>6. ASSUME NEW t \in Thread, FindThread(t) PROVE AttachInv'
  <2>1. /\ UNCHANGED <<attached, lock, known, threads>>
        /\ \A u \in threads \ {t} :
             UNCHANGED <<pc[u], cmd[u], sel[u], cur[u], prev[u]>>
    BY <1>6 DEF FindThread, Return, Leave, Continue, Goto, tables, structs, locals,
        users, TypeOK, TypeTables, TypePc, TypeLocals, TypeLinks
  <2>2. ASSUME t \in threads PROVE Attaches(t)'
    BY <1>6, <2>1, <2>2 DEF AttachInv, PointersOK, FindThread, Return, Leave,
        Continue, Goto, tables, structs, locals, users, Attaches, Converting,
        InitFiberSteps, TypeOK, TypeTables, TypePc, TypeLocals, TypeLinks, CurOK
  <2> QED
    BY <1>0, <2>1, <2>2, QuietAttach
<1>7. ASSUME NEW t \in Thread, ConvertLock(t) PROVE AttachInv'
  <2>1. /\ UNCHANGED <<attached, lock, known, threads>>
        /\ \A u \in threads \ {t} :
             UNCHANGED <<pc[u], cmd[u], sel[u], cur[u], prev[u]>>
    BY <1>7 DEF ConvertLock, Step, Goto, tables, structs, locals, users, TypeOK,
        TypeTables, TypePc, TypeLocals, TypeLinks
  <2>2. ASSUME t \in threads PROVE Attaches(t)'
    BY <1>7, <2>1, <2>2 DEF AttachInv, PointersOK, ConvertLock, Step, Goto, tables,
        structs, locals, users, Attaches, Converting, InitFiberSteps, TypeOK,
        TypeTables, TypePc, TypeLocals, TypeLinks
  <2> QED
    BY <1>0, <2>1, <2>2, QuietAttach
<1>8. ASSUME NEW t \in Thread, ConvertFind(t) PROVE AttachInv'
  <2>1. /\ UNCHANGED <<attached, lock, known, threads>>
        /\ \A u \in threads \ {t} :
             UNCHANGED <<pc[u], cmd[u], sel[u], cur[u], prev[u]>>
    BY <1>8 DEF ConvertFind, Step, Goto, tables, structs, locals, users, TypeOK,
        TypeTables, TypePc, TypeLocals, TypeLinks
  <2>2. ASSUME t \in threads PROVE Attaches(t)'
    BY <1>8, <2>1, <2>2 DEF AttachInv, PointersOK, ConvertFind, Step, Goto, tables,
        structs, locals, users, Attaches, Converting, InitFiberSteps, TypeOK,
        TypeTables, TypePc, TypeLocals, TypeLinks
  <2> QED
    BY <1>0, <2>1, <2>2, QuietAttach
<1>9. ASSUME NEW t \in Thread, ConvertProcess(t) PROVE AttachInv'
  <2>1. CASE InitProcess
    <3>1. nproc = 0
      BY <1>9, <2>1 DEF ConvertProcess, InitProcess, ProcessLockOK, tables,
                        TypeOK, TypeTables
    <3>2. known' = {} /\ threads' = {}
      BY <1>9, <2>1, <3>1 DEF ConvertProcess, InitProcess, PointersOK, users
    <3> QED
      BY <1>0, <3>2 DEF AttachInv
  <2>2. CASE UNCHANGED <<tables, ep>>
    BY <1>0, <1>9, <2>2, QuietAttach DEF ConvertProcess, Goto, tables, structs, users,
         AttachInv, Attaches, Converting, InitFiberSteps, TypeOK, TypePc
  <2> QED
    BY <1>9, <2>1, <2>2 DEF ConvertProcess
<1>10. ASSUME NEW t \in Thread, ConvertThread(t) PROVE AttachInv'
  <2>1. /\ UNCHANGED <<attached, lock, known>>
        /\ threads' \subseteq threads \cup {t}
        /\ \A u \in threads \ {t} :
             UNCHANGED <<pc[u], cmd[u], sel[u], cur[u], prev[u]>>
    BY <1>10 DEF ConvertThread, Return, Leave, Continue, Goto, tables, structs,
        locals, users, TypeOK, TypeTables, TypePc, TypeLocals, TypeLinks
  <2>2. ASSUME t \in threads' PROVE Attaches(t)'
    BY <1>10, <2>1, <2>2 DEF AttachInv, PointersOK, ConvertThread, Return, Leave,
        Continue, Goto, tables, structs, locals, users, Attaches, Converting,
        InitFiberSteps, TypeOK, TypeTables, TypePc, TypeLocals, TypeLinks, CmdOK
  <2> QED
    BY <1>0, <2>1, <2>2, QuietAttach
<1>11. ASSUME NEW t \in Thread, InitFiberReserve(t) PROVE AttachInv'
  <2>1. /\ UNCHANGED <<attached, lock, known, threads>>
        /\ \A u \in threads \ {t} :
             UNCHANGED <<pc[u], cmd[u], sel[u], cur[u], prev[u]>>
    BY <1>11 DEF InitFiberReserve, Step, Goto, tables, structs, locals, users,
        TypeOK, TypeTables, TypePc, TypeLocals, TypeLinks
  <2>2. ASSUME t \in threads PROVE Attaches(t)'
    BY <1>11, <2>1, <2>2 DEF AttachInv, PointersOK, InitFiberReserve, Step, Goto,
        tables, structs, locals, users, Attaches, Converting, InitFiberSteps,
        TypeOK, TypeTables, TypePc, TypeLocals, TypeLinks
  <2> QED
    BY <1>0, <2>1, <2>2, QuietAttach
<1>12. ASSUME NEW t \in Thread, InitFiberPublish(t) PROVE AttachInv'
  <2> DEFINE f == cur[t]
  <2>1. /\ ep[t] = "live" /\ t \in threads
        /\ f \in FiberId /\ Builds(t, f) /\ f \notin known
    BY <1>12 DEF InitFiberPublish, Step, CurOK, PointersOK, ThreadSteps, Builds,
         BuildSteps, LockInv, Unreturned, TypeOK, TypeLocals
  <2>2. /\ attached' = [attached EXCEPT ![f] = NULL]
        /\ lock' = [lock EXCEPT ![f] = FALSE]
        /\ UNCHANGED <<threads, known, sel, cmd, cur, prev>>
        /\ pc' = [pc EXCEPT ![t] = IF cmd[t] = "create" THEN "create_entry"
                                                       ELSE "convert_stack"]
    BY <1>12 DEF InitFiberPublish, Step, Goto, locals
  <2>3. ASSUME NEW u \in threads, u # t PROVE Attaches(u)'
    BY <2>1, <2>2, <2>3, OthersAttached DEF TypeOK, TypeTables, TypeLinks, TypePc
  <2>4. pc[t] = "fiber_publish" /\ (cmd[t] = "create" \/ cmd[t] = "convert")
    BY <1>12 DEF InitFiberPublish, Step, AttachInv, CmdOK, InitFiberSteps
  <2>5. Attaches(t)'
    <3>1. CASE cmd[t] = "create"
      <4>1. ~Converting(t) /\ ~Converting(t)'
        BY <2>2, <2>4, <3>1 DEF Converting, InitFiberSteps, TypeOK, TypePc
      <4>2. Owns(t, sel[t]) /\ sel[t] \in known /\ sel[t] # f
        BY <2>1, <2>4, <4>1, SelectedIsOwn DEF Owns, LockInv, OwnedLocked
      <4> QED
        BY <2>1, <2>2, <2>4, <3>1, <4>1, <4>2 DEF AttachInv, Attaches, TypeOK, TypePc,
             TypeLinks
    <3>2. CASE cmd[t] = "convert"
      BY <2>1, <2>2, <2>4, <3>2 DEF AttachInv, Attaches, Converting, InitFiberSteps,
           TypeOK, TypePc
    <3> QED
      BY <2>4, <3>1, <3>2
  <2>6. \A g \in known' : ~lock'[g] => attached'[g] = NULL
    BY <2>1, <2>2 DEF AttachInv, TypeOK, TypeTables, TypeLinks
  <2> QED
    BY <1>0, <2>2, <2>3, <2>5, <2>6 DEF AttachInv
<1>13. ASSUME NEW t \in Thread, ConvertStack(t) PROVE AttachInv'
  <2>1. /\ UNCHANGED <<attached, lock, known, threads>>
        /\ \A u \in threads \ {t} :
             UNCHANGED <<pc[u], cmd[u], sel[u], cur[u], prev[u]>>
    BY <1>13 DEF ConvertStack, Step, Goto, tables, structs, locals, users, TypeOK,
        TypeTables, TypePc, TypeLocals, TypeLinks
  <2>2. ASSUME t \in threads PROVE Attaches(t)'
    BY <1>13, <2>1, <2>2 DEF AttachInv, PointersOK, ConvertStack, Step, Goto,
        tables, structs, locals, users, Attaches, Converting, InitFiberSteps,
        TypeOK, TypeTables, TypePc, TypeLocals, TypeLinks
  <2> QED
    BY <1>0, <2>1, <2>2, QuietAttach
<1>14. ASSUME NEW t \in Thread, ConvertAttach(t) PROVE AttachInv'
  <2> DEFINE f == cur[t]
  <2>1. /\ ep[t] = "live" /\ t \in threads
        /\ f \in FiberId /\ Builds(t, f) /\ f \notin known
    BY <1>14 DEF ConvertAttach, Step, CurOK, PointersOK, ThreadSteps, Builds,
         BuildSteps, LockInv, Unreturned, TypeOK, TypeLocals
  <2>2. /\ attached' = [attached EXCEPT ![f] = t] /\ sel' = [sel EXCEPT ![t] = f]
        /\ UNCHANGED <<threads, known, lock, cmd, cur, prev>>
        /\ pc' = [pc EXCEPT ![t] = "convert_trylock"]
    BY <1>14 DEF ConvertAttach, Step, Goto, tables, locals, users
  <2>3. ASSUME NEW u \in threads, u # t PROVE Attaches(u)'
    BY <2>1, <2>2, <2>3, OthersAttached DEF TypeOK, TypeTables, TypeLinks, TypePc
  <2>4. Attaches(t)'
    BY <2>1, <2>2 DEF Attaches, Converting, InitFiberSteps, NoFiber, FiberId, TypeOK,
         TypePc, TypeLinks
  <2>5. \A g \in known' : ~lock'[g] => attached'[g] = NULL
    BY <2>1, <2>2 DEF AttachInv, TypeOK, TypeTables, TypeLinks
  <2> QED
    BY <1>0, <2>2, <2>3, <2>4, <2>5 DEF AttachInv
<1>15. ASSUME NEW t \in Thread, ConvertTrylock(t) PROVE AttachInv'
  <2>1. /\ UNCHANGED <<attached, threads, sel>>
        /\ lock' = [lock EXCEPT ![cur[t]] = TRUE]
        /\ known' = IF lock[cur[t]] THEN known ELSE known \cup {cur[t]}
        /\ pc[t] = "convert_trylock" /\ pc' = [pc EXCEPT ![t] = "user"]
        /\ \A u \in Thread \ {t} : UNCHANGED <<cmd[u], cur[u], prev[u]>>
    BY <1>15 DEF ConvertTrylock, TrylockFails, Return, Leave, Goto, tables, TypeOK,
         TypeLocals
  <2>2. \A u \in threads : Attaches(u)'
    BY <2>1 DEF AttachInv, Attaches, Converting, InitFiberSteps, TypeOK, TypeTables,
         TypePc
  <2>3. \A g \in known' : ~lock'[g] => attached'[g] = NULL
    BY <2>1 DEF AttachInv, TypeOK, TypeTables, TypeLinks
  <2> QED
    BY <1>0, <2>1, <2>2, <2>3 DEF AttachInv
<1>16. ASSUME NEW t \in Thread, CreateEntry(t) PROVE AttachInv'
  <2>1. /\ UNCHANGED <<attached, lock, threads, sel>>
        /\ known' = known \cup {cur[t]}
        /\ pc[t] = "create_entry" /\ pc' = [pc EXCEPT ![t] = "user"]
        /\ \A u \in Thread \ {t} : UNCHANGED <<cmd[u], cur[u], prev[u]>>
    BY <1>16 DEF CreateEntry, Return, Leave, Goto, tables, TypeOK, TypeLocals
  <2>2. \A u \in threads : Attaches(u)'
    BY <2>1 DEF AttachInv, Attaches, Converting, InitFiberSteps, TypeOK, TypeTables,
         TypePc
  <2>3. attached[cur[t]] = NULL
    BY <1>16, <2>1 DEF CreateEntry, PointersOK, ThreadSteps, AttachInv, Attaches, TypeOK,
         TypeLocals
  <2> QED
    BY <1>0, <2>1, <2>2, <2>3 DEF AttachInv
<1>17. ASSUME NEW t \in Thread, SwitchLookup(t) PROVE AttachInv'
  <2>1. /\ UNCHANGED <<attached, lock, known, threads>>
        /\ \A u \in threads \ {t} :
             UNCHANGED <<pc[u], cmd[u], sel[u], cur[u], prev[u]>>
    BY <1>17 DEF SwitchLookup, Return, Leave, Continue, Goto, tables, structs,
        locals, users, TypeOK, TypeTables, TypePc, TypeLocals, TypeLinks
  <2>2. ASSUME t \in threads PROVE Attaches(t)'
    BY <1>17, <2>1, <2>2 DEF AttachInv, PointersOK, SwitchLookup, Return, Leave,
        Continue, Goto, tables, structs, locals, users, Attaches, Converting,
        InitFiberSteps, TypeOK, TypeTables, TypePc, TypeLocals, TypeLinks
  <2> QED
    BY <1>0, <2>1, <2>2, QuietAttach
<1>18. ASSUME NEW t \in Thread, SwitchTrylock(t) PROVE AttachInv'
  <2> DEFINE f == cur[t]
  <2>1. /\ ep[t] = "live" /\ t \in threads /\ f \in known
        /\ pc[t] = "switch_trylock" /\ UNCHANGED <<attached, threads, known, sel>>
    BY <1>18 DEF SwitchTrylock, PointersOK, ThreadSteps, SwitchSteps, LockInv, SwitchOK,
         tables, users, TypeOK, TypeLocals
  <2>2. CASE lock[f]
    BY <1>0, <1>18, <2>1, <2>2, QuietAttach DEF SwitchTrylock, TrylockFails, Return,
         Leave, Goto, AttachInv, Attaches, Converting, InitFiberSteps, TypeOK, TypeTables,
         TypePc, TypeLocals
  <2>3. CASE ~lock[f]
    <3>1. /\ lock' = [lock EXCEPT ![f] = TRUE] /\ UNCHANGED <<cmd, cur, prev>>
          /\ pc' = [pc EXCEPT ![t] = "switch_check"]
      BY <1>18, <2>3 DEF SwitchTrylock, TrylockFails, Continue, Goto, locals
    <3>2. attached[f] = NULL
      BY <2>1, <2>3 DEF AttachInv
    <3>3. \A u \in threads : Attaches(u)'
      BY <2>1, <3>1, <3>2 DEF AttachInv, Attaches, Converting, InitFiberSteps, TypeOK,
           TypeTables, TypePc
    <3> QED
      BY <1>0, <2>1, <3>1, <3>3 DEF AttachInv, TypeOK, TypeTables, TypeLinks
  <2> QED
    BY <2>2, <2>3
<1>19. ASSUME NEW t \in Thread, SwitchCheck(t) PROVE AttachInv'
  <2>1. /\ UNCHANGED <<attached, lock, known, threads>>
        /\ \A u \in threads \ {t} :
             UNCHANGED <<pc[u], cmd[u], sel[u], cur[u], prev[u]>>
    BY <1>19 DEF SwitchCheck, Return, Leave, Continue, Goto, tables, structs,
        locals, users, TypeOK, TypeTables, TypePc, TypeLocals, TypeLinks
  <2>2. ASSUME t \in threads PROVE Attaches(t)'
    BY <1>19, <2>1, <2>2 DEF AttachInv, PointersOK, SwitchCheck, Return, Leave,
        Continue, Goto, tables, structs, locals, users, Attaches, Converting,
        InitFiberSteps, TypeOK, TypeTables, TypePc, TypeLocals, TypeLinks
  <2> QED
    BY <1>0, <2>1, <2>2, QuietAttach
<1>20. ASSUME NEW t \in Thread, SwitchAttach(t) PROVE AttachInv'
  <2> DEFINE f == cur[t]
  <2>1. /\ ep[t] = "live" /\ t \in threads /\ f \in FiberId /\ Owns(t, f)
        /\ pc[t] = "switch_attach" /\ ~Converting(t)
    BY <1>20 DEF SwitchAttach, Step, PointersOK, ThreadSteps, SwitchSteps, CurOK, Owns,
         Converting, InitFiberSteps, TypeOK, TypeLocals
  <2>2. /\ attached' = [attached EXCEPT ![f] = t] /\ sel' = [sel EXCEPT ![t] = f]
        /\ prev' = [prev EXCEPT ![t] = sel[t]]
        /\ UNCHANGED <<threads, known, lock, cmd, cur>>
        /\ pc' = [pc EXCEPT ![t] = "switch_save"]
    BY <1>20 DEF SwitchAttach, Step, Goto, tables, users
  <2>3. ASSUME NEW u \in threads, u # t PROVE Attaches(u)'
    BY <2>1, <2>2, <2>3, OthersAttached DEF TypeOK, TypeTables, TypeLinks, TypePc,
         TypeLocals
  <2>4. sel[t] \in FiberId /\ attached[sel[t]] = t /\ sel[t] # f
    BY <2>1, SelectedIsOwn DEF AttachInv, Attaches, LockInv, SwitchOK
  <2>5. Attaches(t)'
    BY <2>1, <2>2, <2>4 DEF Attaches, Converting, InitFiberSteps, NoFiber, FiberId,
         TypeOK, TypePc, TypeLinks, TypeLocals
  <2>6. \A g \in known' : ~lock'[g] => attached'[g] = NULL
    BY <2>1, <2>2 DEF AttachInv, LockInv, OwnedLocked, TypeOK, TypeTables, TypeLinks
  <2> QED
    BY <1>0, <2>2, <2>3, <2>5, <2>6 DEF AttachInv
<1>21. ASSUME NEW t \in Thread, SwitchSave(t) PROVE AttachInv'
  <2>1. /\ UNCHANGED <<attached, lock, known, threads>>
        /\ \A u \in threads \ {t} :
             UNCHANGED <<pc[u], cmd[u], sel[u], cur[u], prev[u]>>
    BY <1>21 DEF SwitchSave, Step, Goto, tables, structs, locals, users, TypeOK,
        TypeTables, TypePc, TypeLocals, TypeLinks
  <2>2. ASSUME t \in threads PROVE Attaches(t)'
    BY <1>21, <2>1, <2>2 DEF AttachInv, PointersOK, SwitchSave, Step, Goto, tables,
        structs, locals, users, Attaches, Converting, InitFiberSteps, TypeOK,
        TypeTables, TypePc, TypeLocals, TypeLinks
  <2> QED
    BY <1>0, <2>1, <2>2, QuietAttach
<1>22. ASSUME NEW t \in Thread, SwitchDetach(t) PROVE AttachInv'
  <2> DEFINE f == prev[t]
  <2>1. /\ ep[t] = "live" /\ t \in threads
        /\ pc[t] = "switch_detach" /\ ~Converting(t)
    BY <1>22 DEF SwitchDetach, Step, PointersOK, ThreadSteps, SwitchSteps, Converting,
         InitFiberSteps, TypeOK, TypeLocals
  <2>2. f \in FiberId /\ Owns(t, f) /\ f # sel[t] /\ sel[t] = cur[t]
    BY <2>1, SelectedIsOwn DEF Owns, AttachInv, Attaches, LockInv, SwitchOK
  <2>3. /\ attached' = [attached EXCEPT ![f] = NULL]
        /\ UNCHANGED <<threads, known, lock, sel, cmd, cur, prev>>
        /\ pc' = [pc EXCEPT ![t] = "switch_unlock"]
    BY <1>22 DEF SwitchDetach, Step, Goto, tables, locals, users
  <2>4. ASSUME NEW u \in threads, u # t PROVE Attaches(u)'
    BY <2>1, <2>2, <2>3, <2>4, OthersAttached DEF TypeOK, TypeTables, TypeLinks, TypePc
  <2>5. Attaches(t)'
    BY <2>1, <2>2, <2>3 DEF AttachInv, Attaches, Converting, InitFiberSteps, TypeOK,
         TypePc, TypeLinks
  <2>6. \A g \in known' : ~lock'[g] => attached'[g] = NULL
    BY <2>2, <2>3 DEF AttachInv, TypeOK, TypeTables, TypeLinks
  <2> QED
    BY <1>0, <2>3, <2>4, <2>5, <2>6 DEF AttachInv
<1>23. ASSUME NEW t \in Thread, SwitchUnlock(t) PROVE AttachInv'
  <2> DEFINE f == prev[t]
  <2>1. t \in threads /\ pc[t] = "switch_unlock"
    BY <1>23 DEF SwitchUnlock, Step, PointersOK, ThreadSteps, SwitchSteps, TypeOK, TypeLocals
  <2>2. attached[f] = NULL
    BY <2>1 DEF AttachInv, Attaches
  <2>3. /\ lock' = [lock EXCEPT ![f] = FALSE]
        /\ UNCHANGED <<attached, threads, known, sel, cmd, cur, prev>>
        /\ pc' = [pc EXCEPT ![t] = "switch_restore"]
    BY <1>23 DEF SwitchUnlock, UnlockFiber, Step, Goto, tables, locals, users
  <2>4. \A u \in threads : Attaches(u)'
    BY <2>1, <2>3 DEF AttachInv, Attaches, Converting, InitFiberSteps, TypeOK,
         TypeTables, TypePc
  <2> QED
    BY <1>0, <2>2, <2>3, <2>4 DEF AttachInv, TypeOK, TypeTables, TypeLinks
<1>24. ASSUME NEW t \in Thread, SwitchRestore(t) PROVE AttachInv'
  <2>1. /\ UNCHANGED <<attached, lock, known, threads>>
        /\ \A u \in threads \ {t} :
             UNCHANGED <<pc[u], cmd[u], sel[u], cur[u], prev[u]>>
    BY <1>24 DEF SwitchRestore, Return, Leave, Goto, tables, structs, locals, users,
        TypeOK, TypeTables, TypePc, TypeLocals, TypeLinks
  <2>2. ASSUME t \in threads PROVE Attaches(t)'
    BY <1>24, <2>1, <2>2 DEF AttachInv, PointersOK, SwitchRestore, Return, Leave,
        Goto, tables, structs, locals, users, Attaches, Converting, InitFiberSteps,
        TypeOK, TypeTables, TypePc, TypeLocals, TypeLinks
  <2> QED
    BY <1>0, <2>1, <2>2, QuietAttach
<1>25. ASSUME NEW t \in Thread, ExitThread(t) PROVE AttachInv'
  <2>1. /\ UNCHANGED <<attached, lock, known, threads>>
        /\ \A u \in threads \ {t} :
             UNCHANGED <<pc[u], cmd[u], sel[u], cur[u], prev[u]>>
    BY <1>25 DEF ExitThread, Leave, Continue, Goto, tables, structs, locals, users,
        TypeOK, TypeTables, TypePc, TypeLocals, TypeLinks
  <2>2. ASSUME t \in threads PROVE Attaches(t)'
    BY <1>25, <2>1, <2>2 DEF AttachInv, PointersOK, ExitThread, Leave, Continue,
        Goto, tables, structs, locals, users, Attaches, Converting, InitFiberSteps,
        TypeOK, TypeTables, TypePc, TypeLocals, TypeLinks
  <2> QED
    BY <1>0, <2>1, <2>2, QuietAttach
<1>26. ASSUME NEW t \in Thread, ExitDec(t) PROVE AttachInv'
  <2>1. /\ UNCHANGED <<attached, lock, known, threads>>
        /\ \A u \in threads \ {t} :
             UNCHANGED <<pc[u], cmd[u], sel[u], cur[u], prev[u]>>
    BY <1>26 DEF ExitDec, Step, Goto, tables, structs, locals, users, TypeOK,
        TypeTables, TypePc, TypeLocals, TypeLinks
  <2>2. ASSUME t \in threads PROVE Attaches(t)'
    BY <1>26, <2>1, <2>2 DEF AttachInv, PointersOK, ExitDec, Step, Goto, tables,
        structs, locals, users, Attaches, Converting, InitFiberSteps, TypeOK,
        TypeTables, TypePc, TypeLocals, TypeLinks
  <2> QED
    BY <1>0, <2>1, <2>2, QuietAttach
<1>27. ASSUME NEW t \in Thread, ExitSave(t) PROVE AttachInv'
  <2>1. /\ UNCHANGED <<attached, lock, known, threads>>
        /\ \A u \in threads \ {t} :
             UNCHANGED <<pc[u], cmd[u], sel[u], cur[u], prev[u]>>
    BY <1>27 DEF ExitSave, Step, Goto, tables, structs, locals, users, TypeOK,
        TypeTables, TypePc, TypeLocals, TypeLinks
  <2>2. ASSUME t \in threads PROVE Attaches(t)'
    BY <1>27, <2>1, <2>2 DEF AttachInv, PointersOK, ExitSave, Step, Goto, tables,
        structs, locals, users, Attaches, Converting, InitFiberSteps, TypeOK,
        TypeTables, TypePc, TypeLocals, TypeLinks
  <2> QED
    BY <1>0, <2>1, <2>2, QuietAttach
<1>28. ASSUME NEW t \in Thread, ExitDetach(t) PROVE AttachInv'
  <2> DEFINE f == sel[t]
  <2>1. /\ ep[t] = "live" /\ t \in threads
        /\ pc[t] = "exit_detach" /\ ~Converting(t)
    BY <1>28 DEF ExitDetach, Step, PointersOK, ThreadSteps, SwitchSteps, Converting,
         InitFiberSteps, TypeOK, TypeLocals
  <2>2. f \in FiberId /\ Owns(t, f)
    BY <2>1, SelectedIsOwn DEF Owns, AttachInv, Attaches, LockInv, SwitchOK
  <2>3. /\ attached' = [attached EXCEPT ![f] = NULL]
        /\ UNCHANGED <<threads, known, lock, sel, cmd, cur, prev>>
        /\ pc' = [pc EXCEPT ![t] = "exit_unlock"]
    BY <1>28 DEF ExitDetach, Step, Goto, tables, locals, users
  <2>4. ASSUME NEW u \in threads, u # t PROVE Attaches(u)'
    BY <2>1, <2>2, <2>3, <2>4, OthersAttached DEF TypeOK, TypeTables, TypeLinks, TypePc
  <2>5. Attaches(t)'
    BY <2>1, <2>2, <2>3 DEF AttachInv, Attaches, Converting, InitFiberSteps, TypeOK,
         TypePc, TypeLinks
  <2>6. \A g \in known' : ~lock'[g] => attached'[g] = NULL
    BY <2>2, <2>3 DEF AttachInv, TypeOK, TypeTables, TypeLinks
  <2> QED
    BY <1>0, <2>3, <2>4, <2>5, <2>6 DEF AttachInv
<1>29. ASSUME NEW t \in Thread, ExitUnlock(t) PROVE AttachInv'
  <2> DEFINE f == sel[t]
  <2>1. t \in threads /\ pc[t] = "exit_unlock"
    BY <1>29 DEF ExitUnlock, Step, PointersOK, ThreadSteps, SwitchSteps, TypeOK, TypeLocals
  <2>2. attached[f] = NULL
    BY <2>1 DEF AttachInv, Attaches
  <2>3. /\ lock' = [lock EXCEPT ![f] = FALSE]
        /\ UNCHANGED <<attached, threads, known, sel, cmd, cur, prev>>
        /\ pc' = [pc EXCEPT ![t] = "exit_free_thread"]
    BY <1>29 DEF ExitUnlock, UnlockFiber, Step, Goto, tables, locals, users
  <2>4. \A u \in threads : Attaches(u)'
    BY <2>1, <2>3 DEF AttachInv, Attaches, Converting, InitFiberSteps, TypeOK,
         TypeTables, TypePc
  <2> QED
    BY <1>0, <2>2, <2>3, <2>4 DEF AttachInv, TypeOK, TypeTables, TypeLinks
<1>30. ASSUME NEW t \in Thread, ExitFreeThread(t) PROVE AttachInv'
  <2>1. UNCHANGED <<attached, lock, known>> /\ threads' = threads \ {t}
    BY <1>30 DEF ExitFreeThread, structs, users
  <2>2. \A u \in threads \ {t} : UNCHANGED <<pc[u], cmd[u], sel[u], cur[u], prev[u]>>
    BY <1>30 DEF ExitFreeThread, Leave, Continue, Goto, locals, TypeOK, TypeTables,
        TypePc, TypeLocals, TypeLinks
  <2> QED
    BY <1>0, <2>1, <2>2, QuietAttach
<1>31. ASSUME NEW t \in Thread, ExitFreeProcess(t) PROVE AttachInv'
  BY <1>0, <1>31 DEF ExitFreeProcess, FreeProcess, AttachInv
<1>32. ASSUME NEW t \in Thread, Fault(t) PROVE AttachInv'
  <2>1. /\ UNCHANGED <<attached, lock, known, threads>>
        /\ \A u \in threads \ {t} :
             UNCHANGED <<pc[u], cmd[u], sel[u], cur[u], prev[u]>>
    BY <1>32 DEF Fault, Goto, tables, structs, locals, users, TypeOK, TypeTables,
        TypePc, TypeLocals, TypeLinks
  <2>2. ASSUME t \in threads PROVE Attaches(t)'
    BY <1>32, <2>1, <2>2 DEF AttachInv, PointersOK, Fault, Goto, tables, structs,
        locals, users, Attaches, Converting, InitFiberSteps, TypeOK, TypeTables,
        TypePc, TypeLocals, TypeLinks
  <2> QED
    BY <1>0, <2>1, <2>2, QuietAttach
<1>33. ASSUME NEW t \in Thread, NEW f \in FiberId, CallSwitch(t, f) PROVE AttachInv'
  <2>1. /\ UNCHANGED <<attached, lock, known, threads>>
        /\ \A u \in threads \ {t} :
             UNCHANGED <<pc[u], cmd[u], sel[u], cur[u], prev[u]>>
    BY <1>33 DEF CallSwitch, Goto, tables, structs, locals, users, TypeOK,
        TypeTables, TypePc, TypeLocals, TypeLinks
  <2>2. ASSUME t \in threads PROVE Attaches(t)'
    BY <1>33, <2>1, <2>2 DEF AttachInv, PointersOK, CallSwitch, Goto, tables,
        structs, locals, users, Attaches, Converting, InitFiberSteps, TypeOK,
        TypeTables, TypePc, TypeLocals, TypeLinks
  <2> QED
    BY <1>0, <2>1, <2>2, QuietAttach
<1>34. CASE UNCHANGED vars
  BY <1>34, <1>0 DEF vars, tables, structs, locals, cpus, users, AttachInv,
       Attaches, Converting
<1> QED
  BY <1>1, <1>2, <1>3, <1>4, <1>5, <1>6, <1>7, <1>8, <1>9, <1>10, <1>11,
       <1>12, <1>13, <1>14, <1>15, <1>16, <1>17, <1>18, <1>19, <1>20, <1>21,
       <1>22, <1>23, <1>24, <1>25, <1>26, <1>27, <1>28, <1>29, <1>30, <1>31,
       <1>32, <1>33, <1>34 DEF Next, UserStep, KernelStep, Finished

\* The empty tables satisfy AttachInv.
LEMMA AttachInit == Init => AttachInv
BY DEF Init, AttachInv, CmdOK, InitFiberSteps

\* For every client that uses only the ids it was given, a fiber's
\* attached_thread is the thread that runs it, and NULL when it can be taken.
THEOREM AttachInvariant ==
  ASSUME ~GuessIds
  PROVE  Spec => []AttachInv
<1>1. BaseInv /\ BaseInv' /\ LockInv /\ LockInv' /\ AttachInv /\ [Next]_vars => AttachInv'
  BY AttachStep
<1> QED
  BY <1>1, AttachInit, BaseInvariant, LockInvariant, PTL DEF Spec

-----------------------------------------------------------------------------
(***************************************************************************)
(* Locks are given back, and attached_thread is handed over through NULL   *)
(***************************************************************************)

\* A step after which every locked fiber was locked before and whoever held
\* it still does keeps LocksHeld.
LEMMA StillHeld ==
  ASSUME LocksHeld, known' \subseteq known,
         \A g \in known' : lock'[g] => lock[g],
         \A u \in Thread, g \in known' :
           lock'[g] /\ Holds(u, g) => Holds(u, g)'
  PROVE  LocksHeld'
BY DEF LocksHeld

\* Every step keeps LocksHeld.
LEMMA HeldStep ==
  ASSUME ~GuessIds, BaseInv, LockInv, AttachInv, LocksHeld, [Next]_vars
  PROVE  LocksHeld'
<1> USE DEF BaseInv
<1>0. known \subseteq FiberId /\ 0 \notin FiberId
  BY DEF TypeOK, TypeTables, FiberId
<1>1. ASSUME NEW t \in Thread, Work(t) PROVE LocksHeld'
  BY <1>0, <1>1, StillHeld DEF Work, tables, structs, locals, users, Holds,
       Holds
<1>2. ASSUME NEW t \in Thread, CallConvert(t) PROVE LocksHeld'
  BY <1>0, <1>2, StillHeld DEF CallConvert, Goto, tables, structs, locals,
       users, Holds, Holds, PointersOK, TypeOK, TypeTables, TypePc, TypeLocals
<1>3. ASSUME NEW t \in Thread, CallCreate(t) PROVE LocksHeld'
  BY <1>0, <1>3, StillHeld DEF CallCreate, Goto, FindProcess, tables,
       structs, locals, users, Holds, Holds, PointersOK, TypeOK, TypeTables,
       TypePc, TypeLocals
<1>4. ASSUME NEW t \in Thread, CallExit(t) PROVE LocksHeld'
  BY <1>0, <1>4, StillHeld DEF CallExit, Goto, Leave, FindProcess, tables,
       structs, locals, users, Holds, Holds, PointersOK, TypeOK, TypeTables,
       TypePc, TypeLocals
<1>5. ASSUME NEW t \in Thread, Close(t) PROVE LocksHeld'
  <2>1. CASE FreeProcess(t)
    BY <2>1 DEF FreeProcess, LocksHeld
  <2>2. CASE UNCHANGED <<tables, ep, known>>
    BY <1>5, <2>2, StillHeld DEF Close, tables, structs, Holds
  <2> QED
    BY <1>5, <2>1, <2>2 DEF Close
<1>6. ASSUME NEW t \in Thread, FindThread(t) PROVE LocksHeld'
  BY <1>0, <1>6, StillHeld DEF FindThread, Return, Leave, Continue, Goto,
       tables, structs, locals, users, Holds, Holds, PointersOK, TypeOK,
       TypeTables, TypePc, TypeLocals
<1>7. ASSUME NEW t \in Thread, ConvertLock(t) PROVE LocksHeld'
  BY <1>0, <1>7, StillHeld DEF ConvertLock, Step, Goto, tables, structs,
       locals, users, Holds, Holds, PointersOK, TypeOK, TypeTables, TypePc,
       TypeLocals
<1>8. ASSUME NEW t \in Thread, ConvertFind(t) PROVE LocksHeld'
  BY <1>0, <1>8, StillHeld DEF ConvertFind, Step, Goto, FindProcess,
       tables, structs, locals, users, Holds, Holds, PointersOK, TypeOK,
       TypeTables, TypePc, TypeLocals
<1>9. ASSUME NEW t \in Thread, ConvertProcess(t) PROVE LocksHeld'
  <2>1. CASE InitProcess
    <3>1. nproc = 0
      BY <1>9, <2>1 DEF ConvertProcess, InitProcess, ProcessLockOK, tables,
                        TypeOK, TypeTables
    <3>2. known' = {}
      BY <1>9, <3>1 DEF ConvertProcess, PointersOK, users
    <3> QED
      BY <3>2 DEF LocksHeld
  <2>2. CASE UNCHANGED <<tables, ep>>
    BY <1>9, <2>2, StillHeld DEF ConvertProcess, Goto, tables, structs, users,
         Holds, TypeOK, TypePc
  <2> QED
    BY <1>9, <2>1, <2>2 DEF ConvertProcess
<1>10. ASSUME NEW t \in Thread, ConvertThread(t) PROVE LocksHeld'
  <2>1. \A u \in Thread, g \in known : Holds(u, g) => Holds(u, g)'
    BY <1>0, <1>10 DEF ConvertThread, Return, Leave, Continue, Goto, tables, locals,
         Holds, PointersOK, TypeOK, TypePc, TypeLocals, TypeLinks
  <2> QED
    BY <1>10, <2>1, StillHeld DEF ConvertThread, structs, users
<1>11. ASSUME NEW t \in Thread, InitFiberReserve(t) PROVE LocksHeld'
  BY <1>0, <1>11, StillHeld DEF InitFiberReserve, Step, Goto, tables,
       structs, locals, users, Holds, Holds, PointersOK, TypeOK, TypeTables,
       TypePc, TypeLocals
<1>12. ASSUME NEW t \in Thread, InitFiberPublish(t) PROVE LocksHeld'
  <2>1. /\ \A g \in known : lock'[g] => lock[g]
        /\ \A u \in Thread, g \in known :
             lock'[g] /\ Holds(u, g) => Holds(u, g)'
    BY <1>0, <1>12 DEF InitFiberPublish, Step, Goto, locals, Holds, TypeOK,
         TypePc, TypeLocals, TypeLinks
  <2> QED
    BY <1>12, <2>1, StillHeld DEF InitFiberPublish
<1>13. ASSUME NEW t \in Thread, ConvertStack(t) PROVE LocksHeld'
  BY <1>0, <1>13, StillHeld DEF ConvertStack, Step, Goto, tables, structs,
       locals, users, Holds, Holds, PointersOK, TypeOK, TypeTables, TypePc,
       TypeLocals
<1>14. ASSUME NEW t \in Thread, ConvertAttach(t) PROVE LocksHeld'
  <2>1. t \in threads /\ sel[t] = NoFiber
    BY <1>14 DEF ConvertAttach, Step, PointersOK, ThreadSteps, AttachInv, Attaches,
         Converting, TypeOK, TypeLocals
  <2>2. \A u \in Thread, g \in known : Holds(u, g) => Holds(u, g)'
    BY <1>0, <1>14, <2>1 DEF ConvertAttach, Step, Goto, tables, locals, NoFiber,
         Holds, TypeOK, TypePc, TypeLinks
  <2> QED
    BY <1>14, <2>2, StillHeld DEF ConvertAttach, users
<1>15. ASSUME NEW t \in Thread, ConvertTrylock(t) PROVE LocksHeld'
  <2>0. PICK f \in FiberId : f = cur[t]
    BY <1>15 DEF ConvertTrylock, CurOK, BuildSteps
  <2>1. /\ t \in threads /\ sel[t] = f /\ ep[t] = "live"
        /\ pc[t] = "convert_trylock"
    BY <1>15, <2>0 DEF ConvertTrylock, PointersOK, ThreadSteps, LockInv, SwitchOK,
         TypeOK, TypeLocals
  <2>2. /\ known' \subseteq known \cup {f} /\ lock' = [lock EXCEPT ![f] = TRUE]
        /\ UNCHANGED <<threads, sel>>
        /\ pc' = [pc EXCEPT ![t] = "user"] /\ ep' = [ep EXCEPT ![t] = "null"]
        /\ cur' = [cur EXCEPT ![t] = NoFiber] /\ prev' = [prev EXCEPT ![t] = NoFiber]
        /\ UNCHANGED final
    BY <1>15, <2>0 DEF ConvertTrylock, Return, Leave, Goto, tables
  <2>3. Holds(t, f)'
    BY <2>1, <2>2 DEF Holds, TypeOK, TypePc, TypeLocals
  <2>4. \A u \in Thread, g \in known : Holds(u, g) => Holds(u, g)'
    BY <2>1, <2>2 DEF Holds, TypeOK, TypePc, TypeLocals
  <2> QED
    BY <1>0, <2>1, <2>2, <2>3, <2>4 DEF LocksHeld, TypeOK, TypeLinks
<1>16. ASSUME NEW t \in Thread, CreateEntry(t) PROVE LocksHeld'
  <2>1. /\ cur[t] \in fibers \ known
        /\ known' = known \cup {cur[t]} /\ UNCHANGED lock
    BY <1>16 DEF CreateEntry, CurOK, PointersOK, ThreadSteps, Builds, BuildSteps, IdsOK,
         LockInv, Unreturned, TypeOK, TypeLocals
  <2>2. ~lock[cur[t]]
    BY <2>1 DEF LockInv, Unreturned
  <2>3. \A u \in Thread, g \in known : Holds(u, g) => Holds(u, g)'
    BY <1>16 DEF CreateEntry, Return, Leave, Goto, tables, Holds, TypeOK,
         TypePc, TypeLocals
  <2> QED
    BY <2>1, <2>2, <2>3 DEF LocksHeld
<1>17. ASSUME NEW t \in Thread, SwitchLookup(t) PROVE LocksHeld'
  BY <1>0, <1>17, StillHeld DEF SwitchLookup, Return, Leave, Continue,
       Goto, tables, structs, locals, users, Holds, Holds, PointersOK, TypeOK,
       TypeTables, TypePc, TypeLocals
<1>18. ASSUME NEW t \in Thread, SwitchTrylock(t) PROVE LocksHeld'
  <2>0. PICK f \in FiberId : f = cur[t]
    BY <1>18 DEF SwitchTrylock, CurOK, SwitchSteps
  <2>1. UNCHANGED <<known, threads, sel, final>>
    BY <1>18 DEF SwitchTrylock, Return, Leave, Continue, Goto, locals, tables, users
  <2>2. \A u \in Thread, g \in known : Holds(u, g) => Holds(u, g)'
    BY <1>18, <2>1 DEF SwitchTrylock, Return, Leave, Continue, Goto, locals, Holds, TypeOK, TypePc, TypeLocals
  <2>3. CASE lock[f]
    BY <1>18, <2>0, <2>1, <2>2, <2>3, StillHeld DEF SwitchTrylock, TrylockFails
  <2>4. CASE ~lock[f]
    <3>1. lock' = [lock EXCEPT ![f] = TRUE] /\ Holds(t, f)'
      BY <1>18, <2>0, <2>4 DEF SwitchTrylock, TrylockFails, Continue, Goto, locals,
           Holds,
           TypeOK, TypePc, TypeLocals
    <3> QED
      BY <1>0, <2>1, <2>2, <3>1 DEF LocksHeld, TypeOK, TypeLinks
  <2> QED
    BY <2>3, <2>4
<1>19. ASSUME NEW t \in Thread, SwitchCheck(t) PROVE LocksHeld'
  <2>1. attached[cur[t]] = NULL
    BY <1>19 DEF SwitchCheck, PointersOK, ThreadSteps, SwitchSteps, AttachInv, Attaches,
         TypeOK, TypeLocals
  <2>2. Continue(t, "switch_attach") /\ UNCHANGED <<known, threads, sel, lock>>
    BY <1>19, <2>1 DEF SwitchCheck, tables, structs, users
  <2>3. \A u \in Thread, g \in known : Holds(u, g) => Holds(u, g)'
    BY <1>19, <2>2 DEF SwitchCheck, Continue, Goto, locals, Holds, TypeOK,
         TypePc
  <2> QED
    BY <2>2, <2>3, StillHeld
<1>20. ASSUME NEW t \in Thread, SwitchAttach(t) PROVE LocksHeld'
  <2>1. t \in threads
    BY <1>20 DEF SwitchAttach, Step, PointersOK, ThreadSteps, SwitchSteps, TypeOK,
         TypeLocals
  <2>2. \A u \in Thread, g \in known : Holds(u, g) => Holds(u, g)'
    BY <1>20, <2>1 DEF SwitchAttach, Step, Goto, tables, Holds, TypeOK, TypePc,
         TypeLocals, TypeLinks
  <2> QED
    BY <1>20, <2>2, StillHeld DEF SwitchAttach, users
<1>21. ASSUME NEW t \in Thread, SwitchSave(t) PROVE LocksHeld'
  BY <1>0, <1>21, StillHeld DEF SwitchSave, Step, Goto, tables, structs,
       locals, users, Holds, Holds, PointersOK, TypeOK, TypeTables, TypePc,
       TypeLocals
<1>22. ASSUME NEW t \in Thread, SwitchDetach(t) PROVE LocksHeld'
  BY <1>0, <1>22, StillHeld DEF SwitchDetach, Step, Goto, tables, structs,
       locals, users, Holds, Holds, PointersOK, TypeOK, TypeTables, TypePc,
       TypeLocals
<1>23. ASSUME NEW t \in Thread, SwitchUnlock(t) PROVE LocksHeld'
  <2>1. /\ \A g \in known : lock'[g] => lock[g]
        /\ \A u \in Thread, g \in known :
             lock'[g] /\ Holds(u, g) => Holds(u, g)'
    BY <1>0, <1>23 DEF SwitchUnlock, UnlockFiber, Step, Goto, tables, locals, Holds, TypeOK, TypePc, TypeLocals, TypeLinks
  <2> QED
    BY <1>23, <2>1, StillHeld DEF SwitchUnlock, users
<1>24. ASSUME NEW t \in Thread, SwitchRestore(t) PROVE LocksHeld'
  BY <1>0, <1>24, StillHeld DEF SwitchRestore, Return, Leave, Goto, tables,
       structs, locals, users, Holds, Holds, PointersOK, TypeOK, TypeTables,
       TypePc, TypeLocals
<1>25. ASSUME NEW t \in Thread, ExitThread(t) PROVE LocksHeld'
  <2>1. UNCHANGED <<known, lock, threads, sel>>
    BY <1>25 DEF ExitThread, tables, structs, users
  <2>2. ASSUME NEW u \in Thread, NEW g \in known, Holds(u, g) PROVE Holds(u, g)'
    <3>1. CASE u # t
      BY <1>25, <2>1, <2>2, <3>1 DEF ExitThread, Leave, Continue, Goto, locals, Holds,
           TypeOK, TypePc, TypeLocals
    <3>2. CASE u = t
      BY <1>25, <2>1, <2>2, <3>2 DEF ExitThread, Leave, Continue, Goto, locals, Holds,
           TypeOK, TypePc, TypeLocals
    <3> QED BY <3>1, <3>2
  <2> QED BY <2>1, <2>2, StillHeld
<1>26. ASSUME NEW t \in Thread, ExitDec(t) PROVE LocksHeld'
  <2>1. ASSUME NEW u \in Thread, NEW g \in known, Holds(u, g) PROVE Holds(u, g)'
    <3>1. CASE u # t
      BY <1>26, <2>1, <3>1 DEF ExitDec, Step, Goto, Holds, TypeOK, TypePc, TypeLocals
    <3>2. CASE u = t
      BY <1>0, <1>26, <2>1, <3>2 DEF ExitDec, LastThread, Step, Goto, Holds, NoFiber,
           TypeOK, TypePc, TypeLocals
    <3> QED BY <3>1, <3>2
  <2> QED
    BY <1>26, <2>1, StillHeld DEF ExitDec, structs, users
<1>27. ASSUME NEW t \in Thread, ExitSave(t) PROVE LocksHeld'
  BY <1>0, <1>27, StillHeld DEF ExitSave, Step, Goto, tables, structs,
       locals, users, Holds, Holds, PointersOK, TypeOK, TypeTables, TypePc,
       TypeLocals
<1>28. ASSUME NEW t \in Thread, ExitDetach(t) PROVE LocksHeld'
  BY <1>0, <1>28, StillHeld DEF ExitDetach, Step, Goto, tables, structs,
       locals, users, Holds, Holds, PointersOK, TypeOK, TypeTables, TypePc,
       TypeLocals
<1>29. ASSUME NEW t \in Thread, ExitUnlock(t) PROVE LocksHeld'
  <2>1. /\ \A g \in known : lock'[g] => lock[g]
        /\ \A u \in Thread, g \in known :
             lock'[g] /\ Holds(u, g) => Holds(u, g)'
    BY <1>0, <1>29 DEF ExitUnlock, UnlockFiber, Step, Goto, tables, locals, Holds, TypeOK, TypePc, TypeLocals, TypeLinks
  <2> QED
    BY <1>29, <2>1, StillHeld DEF ExitUnlock, users
<1>30. ASSUME NEW t \in Thread, ExitFreeThread(t) PROVE LocksHeld'
  BY <1>0, <1>30, StillHeld DEF ExitFreeThread, Leave, Continue, Goto,
       tables, structs, locals, users, Holds, Holds, PointersOK, TypeOK,
       TypeTables, TypePc, TypeLocals
<1>31. ASSUME NEW t \in Thread, ExitFreeProcess(t) PROVE LocksHeld'
  BY <1>31 DEF ExitFreeProcess, FreeProcess, LocksHeld
<1>32. ASSUME NEW t \in Thread, Fault(t) PROVE LocksHeld'
  BY <1>0, <1>32, StillHeld DEF Fault, Goto, tables, structs, locals,
       users, Holds, Holds, PointersOK, TypeOK, TypeTables, TypePc, TypeLocals
<1>33. ASSUME NEW t \in Thread, NEW f \in FiberId, CallSwitch(t, f) PROVE LocksHeld'
  BY <1>0, <1>33, StillHeld DEF CallSwitch, Goto, FindProcess, tables,
       structs, locals, users, Holds, Holds, PointersOK, TypeOK, TypeTables,
       TypePc, TypeLocals
<1>34. CASE UNCHANGED vars
  BY <1>34, StillHeld DEF vars, tables, structs, locals, cpus, users, Holds
<1> QED
  BY <1>1, <1>2, <1>3, <1>4, <1>5, <1>6, <1>7, <1>8, <1>9, <1>10, <1>11,
       <1>12, <1>13, <1>14, <1>15, <1>16, <1>17, <1>18, <1>19, <1>20, <1>21,
       <1>22, <1>23, <1>24, <1>25, <1>26, <1>27, <1>28, <1>29, <1>30, <1>31,
       <1>32, <1>33, <1>34 DEF Next, UserStep, KernelStep, Finished

\* No fiber is locked before the first is made.
LEMMA HeldInit == Init => LocksHeld
BY DEF Init, LocksHeld

\* Whatever calls fail, whichever threads exit and in whatever order, a fiber
\* that is locked has a thread that will unlock it: for every client that uses
\* only the ids it was given, no fiber is lost.
THEOREM LocksAreHeld ==
  ASSUME ~GuessIds
  PROVE  Spec => []LocksHeld
<1>1. BaseInv /\ LockInv /\ AttachInv /\ LocksHeld /\ [Next]_vars => LocksHeld'
  BY HeldStep
<1> QED
  BY <1>1, HeldInit, BaseInvariant, LockInvariant, AttachInvariant, PTL DEF Spec

\* No step of the module takes a fiber from the thread it is attached to.
LEMMA HandoverAction ==
  ASSUME ~GuessIds, BaseInv, LockInv, AttachInv, [Next]_vars
  PROVE  HandoverStep
<1> SUFFICES ASSUME NEW f \in FiberId, f \in known, attached[f] # NULL,
                    attached'[f] # attached[f]
             PROVE  \/ f \notin known'
                    \/ /\ attached'[f] = NULL
                       /\ pc[attached[f]] \in {"switch_detach", "exit_detach"}
                       /\ pc'[attached[f]] # pc[attached[f]]
  BY DEF HandoverStep
<1> USE DEF BaseInv, TypeOK, TypePc, TypeLinks, TypeLocals
<1>1. ASSUME NEW t \in Thread, InitFiberPublish(t) PROVE FALSE
  BY <1>1 DEF InitFiberPublish, Step, CurOK, PointersOK, Builds, BuildSteps, LockInv,
       Unreturned
<1>2. ASSUME NEW t \in Thread, ConvertAttach(t) PROVE FALSE
  BY <1>2 DEF ConvertAttach, Step, CurOK, PointersOK, Builds, BuildSteps, LockInv,
       Unreturned
<1>3. ASSUME NEW t \in Thread, SwitchAttach(t) PROVE FALSE
  <2>1. t \in threads /\ pc[t] = "switch_attach"
    BY <1>3 DEF SwitchAttach, Step, PointersOK, ThreadSteps, SwitchSteps
  <2> QED
    BY <1>3, <2>1 DEF SwitchAttach, AttachInv, Attaches
<1>4. ASSUME NEW t \in Thread, SwitchDetach(t)
      PROVE  /\ attached'[f] = NULL /\ attached[f] = t
             /\ pc[t] = "switch_detach" /\ pc'[t] # pc[t]
  <2>1. t \in threads /\ pc[t] = "switch_detach"
    BY <1>4 DEF SwitchDetach, Step, PointersOK, ThreadSteps, SwitchSteps
  <2> QED
    BY <1>4, <2>1 DEF SwitchDetach, Step, Goto, AttachInv, Attaches
<1>5. ASSUME NEW t \in Thread, ExitDetach(t)
      PROVE  /\ attached'[f] = NULL /\ attached[f] = t
             /\ pc[t] = "exit_detach" /\ pc'[t] # pc[t]
  <2>1. t \in threads /\ pc[t] = "exit_detach" /\ ~Converting(t)
    BY <1>5 DEF ExitDetach, Step, PointersOK, ThreadSteps, Converting, InitFiberSteps
  <2> QED
    BY <1>5, <2>1 DEF ExitDetach, Step, Goto, AttachInv, Attaches
<1>6. ASSUME NEW t \in Thread, UserStep(t) \/ ConvertLock(t) \/ Fault(t)
      PROVE  attached' = attached
  BY <1>6 DEF UserStep, Work, CallConvert, CallCreate, CallSwitch, CallExit, Close,
       ConvertLock, Fault, structs
<1>7. ASSUME NEW t \in Thread, KernelStep(t), ~InitFiberPublish(t), ~ConvertAttach(t),
             ~SwitchAttach(t), ~SwitchDetach(t), ~ExitDetach(t)
      PROVE  attached' = attached
  <2>1. CASE \/ FindThread(t) \/ ConvertFind(t) \/ ConvertProcess(t)
             \/ ConvertThread(t) \/ InitFiberReserve(t) \/ ConvertStack(t)
             \/ ConvertTrylock(t) \/ CreateEntry(t)
    BY <2>1 DEF FindThread, ConvertFind, ConvertProcess, ConvertThread,
         InitFiberReserve, ConvertStack, ConvertTrylock, CreateEntry, structs
  <2>2. CASE \/ SwitchLookup(t) \/ SwitchTrylock(t) \/ SwitchCheck(t)
             \/ SwitchSave(t) \/ SwitchUnlock(t) \/ SwitchRestore(t)
    BY <2>2 DEF SwitchLookup, SwitchTrylock, SwitchCheck, SwitchSave, SwitchUnlock,
         SwitchRestore, structs
  <2>3. CASE \/ ExitThread(t) \/ ExitDec(t) \/ ExitSave(t) \/ ExitUnlock(t)
             \/ ExitFreeThread(t) \/ ExitFreeProcess(t)
    BY <2>3 DEF ExitThread, ExitDec, ExitSave, ExitUnlock, ExitFreeThread,
         ExitFreeProcess, structs
  <2> QED
    BY <1>7, <2>1, <2>2, <2>3 DEF KernelStep
<1>8. CASE UNCHANGED vars
  BY <1>8 DEF vars, structs
<1> QED
  BY <1>1, <1>2, <1>3, <1>4, <1>5, <1>6, <1>7, <1>8 DEF Next, Finished

\* attached_thread passes from one thread to another only through NULL, and only
\* the attached thread clears it, for every client that uses only the ids it was
\* given.
THEOREM HandsOver ==
  ASSUME ~GuessIds
  PROVE  Spec => Handover
<1>1. BaseInv /\ LockInv /\ AttachInv /\ [Next]_vars => HandoverStep
  BY HandoverAction
<1>2. ASSUME UNCHANGED vars PROVE [HandoverStep]_vars
  BY <1>2
<1> QED
  BY <1>1, <1>2, BaseInvariant, LockInvariant, AttachInvariant, PTL DEF Spec, Handover

=============================================================================
