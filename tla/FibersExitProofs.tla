-------------------------- MODULE FibersExitProofs --------------------------
(***************************************************************************)
(* Proofs about the end of threads and of the process.  ExitInv, which     *)
(* says what active_threads counts, is inductive for every client; with    *)
(* it, JoinedInv is for the clients that start and join their threads in   *)
(* Main.                                                                   *)
(***************************************************************************)
EXTENDS FibersProofs, FiniteSetTheorems

(***************************************************************************)
(* What active_threads counts                                              *)
(***************************************************************************)

\* Counted is finite, so that its size is a number, zero only when empty.
LEMMA CountedFinite ==
  ASSUME TypeOK
  PROVE  /\ IsFiniteSet(Counted)
         /\ Cardinality(Counted) \in Nat
         /\ Cardinality(Counted) = 0 => Counted = {}
<1>1. Counted \in SUBSET Thread
  BY DEF Counted, TypeOK, TypeTables
<1>2. IsFiniteSet(Counted)
  BY <1>1, ConstantsAssumption, FS_Subset
<1> QED
  BY <1>2, FS_CardinalityType, FS_EmptySet

\* A step that counts no thread in or out keeps ExitInv, if the threads that
\* need the process still do.
LEMMA UncountedStep ==
  ASSUME TypeOK, TypeOK', ExitInv, nproc' = nproc, active' = active,
         \A u \in Thread : u \in Counted' <=> u \in Counted,
         \A u \in Thread : Gone(u)' => u \notin threads',
         \A u \in Thread : Needs(u) => Needs(u)' \/ u \in Counted
  PROVE  ExitInv'
<1>1. Counted \subseteq Thread /\ Counted' \subseteq Thread
  BY DEF Counted, TypeOK, TypeTables
<1>2. Counted' = Counted
  BY <1>1
<1>3. active' = Cardinality(Counted')
  BY <1>2 DEF ExitInv
<1>4. (\E u \in Thread : u \in Counted) => active > 0
  BY CountedFinite DEF ExitInv
<1>5. nproc' = 1 => active' > 0 \/ \E u \in Thread : Needs(u)'
  BY <1>4 DEF ExitInv
<1> QED
  BY <1>3, <1>5 DEF ExitInv

\* A step that frees the process leaves no thread to count.
LEMMA FreedExit ==
  ASSUME TypeOK, PointersOK, NEW t \in Thread, FreeProcess(t), nproc = 1
  PROVE  ExitInv'
<1>1. nproc' = 0 /\ active' = 0 /\ threads' = {}
  BY DEF FreeProcess
<1>2. Counted' = {}
  BY <1>1 DEF Counted
<1> QED
  BY <1>1, <1>2, FS_EmptySet DEF ExitInv

\* Every step keeps ExitInv.
LEMMA ExitStep ==
  ASSUME BaseInv, BaseInv', ExitInv, [Next]_vars
  PROVE  ExitInv'
<1> USE DEF BaseInv
<1>0. TypeOK /\ TypeOK' /\ PointersOK
  OBVIOUS
<1>1. ASSUME NEW t \in Thread, Work(t) PROVE ExitInv'
  BY <1>1, UncountedStep DEF Work, tables, locals, Counted, Needs, Final,
       Leaving, Gone, ExitInv
<1>2. ASSUME NEW t \in Thread, CallConvert(t) PROVE ExitInv'
  BY <1>2, UncountedStep DEF CallConvert, Goto, tables, locals, Counted,
       Leaving, Needs, Final, Gone, ExitInv, PointersOK, ThreadSteps,
       SwitchSteps, TypeOK, TypePc, TypeLocals, TypeTables
<1>3. ASSUME NEW t \in Thread, CallCreate(t) PROVE ExitInv'
  BY <1>3, UncountedStep DEF CallCreate, Goto, FindProcess, tables, locals,
       Counted, Leaving, Needs, Final, Gone, ExitInv, PointersOK, ThreadSteps,
       SwitchSteps, TypeOK, TypePc, TypeLocals, TypeTables
<1>4. ASSUME NEW t \in Thread, CallExit(t) PROVE ExitInv'
  BY <1>4, UncountedStep DEF CallExit, Goto, Leave, FindProcess, tables,
       locals, Counted, Leaving, Needs, Final, Gone, ExitInv, PointersOK,
       ThreadSteps, SwitchSteps, TypeOK, TypePc, TypeLocals, TypeTables
<1>5. ASSUME NEW t \in Thread, Close(t) PROVE ExitInv'
  <2>1. CASE FreeProcess(t)
    <3>1. nproc = 1
      BY <1>5, <2>1 DEF Close, FindProcess, FreeProcess, tables, PointersOK,
           TypeOK, TypeTables
    <3> QED
      BY <1>0, <2>1, <3>1, FreedExit
  <2>2. CASE UNCHANGED <<tables, ep, known>>
    BY <1>5, <2>2, UncountedStep DEF Close, tables, Counted, Needs, Final, Leaving, Gone,
         ExitInv
  <2> QED
    BY <1>5, <2>1, <2>2 DEF Close
<1>6. ASSUME NEW t \in Thread, FindThread(t) PROVE ExitInv'
  BY <1>6, UncountedStep DEF FindThread, Return, Leave, Continue, Goto,
       tables, locals, Counted, Leaving, Needs, Final, Gone, ExitInv,
       PointersOK, ThreadSteps, SwitchSteps, TypeOK, TypePc, TypeLocals,
       TypeTables
<1>7. ASSUME NEW t \in Thread, ConvertLock(t) PROVE ExitInv'
  BY <1>7, UncountedStep DEF ConvertLock, ProcessLockFree, Step, Goto,
       tables, locals, Counted, Leaving, Needs, Final, Gone, ExitInv,
       PointersOK, ThreadSteps, SwitchSteps, TypeOK, TypePc, TypeLocals,
       TypeTables
<1>8. ASSUME NEW t \in Thread, ConvertFind(t) PROVE ExitInv'
  BY <1>8, UncountedStep DEF ConvertFind, Step, Goto, FindProcess, tables,
       locals, Counted, Leaving, Needs, Final, Gone, ExitInv, PointersOK,
       ThreadSteps, SwitchSteps, TypeOK, TypePc, TypeLocals, TypeTables
<1>9. ASSUME NEW t \in Thread, ConvertProcess(t) PROVE ExitInv'
  <2>1. CASE InitProcess
    <3>1. threads' = {} /\ active' = 0
      BY <2>1 DEF InitProcess
    <3>2. Counted' = {}
      BY <3>1 DEF Counted
    <3>3. ep[t] = "null"
      BY <1>9, <2>1 DEF ConvertProcess, InitProcess, tables, TypeOK, TypeTables
    <3>4. Needs(t)'
      BY <1>9, <3>3 DEF ConvertProcess, Goto, InitProcess, tables, Needs, TypeOK,
           TypePc, TypeLocals, TypeTables
    <3> QED
      BY <3>1, <3>2, <3>4, FS_EmptySet DEF ExitInv
  <2>2. CASE UNCHANGED <<tables, ep>>
    BY <1>9, <2>2, UncountedStep DEF ConvertProcess, Goto, tables, Counted,
         Leaving, Needs, Final, Gone, ExitInv, TypeOK, TypePc
  <2> QED
    BY <1>9, <2>1, <2>2 DEF ConvertProcess
<1>10. ASSUME NEW t \in Thread, ConvertThread(t) PROVE ExitInv'
  <2>1. CASE t \in threads
    BY <1>10, <2>1, UncountedStep DEF ConvertThread, Return, Leave, Goto, tables,
         Counted, Leaving, Needs, Final, Gone, ExitInv, TypeOK, TypePc, TypeLocals
  <2>2. CASE t \notin threads
    <3>1. /\ active' = active + 1 /\ threads' = threads \cup {t}
          /\ pc' = [pc EXCEPT ![t] = "fiber_reserve"]
      BY <1>10, <2>2 DEF ConvertThread, Continue, Goto
    <3>2. Counted' = Counted \cup {t} /\ t \notin Counted
      BY <2>2, <3>1 DEF Counted, Leaving, TypeOK, TypePc, TypeTables
    <3>3. active' = Cardinality(Counted') /\ active' > 0
      <4>1. IsFiniteSet(Counted) /\ Cardinality(Counted) \in Nat
        BY CountedFinite
      <4>2. Cardinality(Counted \cup {t}) = Cardinality(Counted) + 1
        BY <3>2, <4>1, FS_AddElement
      <4> QED
        BY <3>1, <3>2, <4>1, <4>2 DEF ExitInv
    <3>4. \A u \in Thread : Gone(u)' => u \notin threads'
      BY <3>1 DEF ExitInv, Gone, TypeOK, TypePc
    <3> QED
      BY <3>3, <3>4 DEF ExitInv
  <2> QED
    BY <2>1, <2>2
<1>11. ASSUME NEW t \in Thread, InitFiberReserve(t) PROVE ExitInv'
  BY <1>11, UncountedStep DEF InitFiberReserve, IncLastFiberId, Step, Goto,
       tables, locals, Counted, Leaving, Needs, Final, Gone, ExitInv,
       PointersOK, ThreadSteps, SwitchSteps, TypeOK, TypePc, TypeLocals,
       TypeTables
<1>12. ASSUME NEW t \in Thread, InitFiberPublish(t) PROVE ExitInv'
  BY <1>12, UncountedStep DEF InitFiberPublish, Step, Goto, tables, locals,
       Counted, Leaving, Needs, Final, Gone, ExitInv, PointersOK, ThreadSteps,
       SwitchSteps, TypeOK, TypePc, TypeLocals, TypeTables
<1>13. ASSUME NEW t \in Thread, ConvertStack(t) PROVE ExitInv'
  BY <1>13, UncountedStep DEF ConvertStack, Step, Goto, tables, locals,
       Counted, Leaving, Needs, Final, Gone, ExitInv, PointersOK, ThreadSteps,
       SwitchSteps, TypeOK, TypePc, TypeLocals, TypeTables
<1>14. ASSUME NEW t \in Thread, ConvertAttach(t) PROVE ExitInv'
  <2>1. /\ UNCHANGED <<nproc, active, threads, ep, final>>
        /\ pc[t] = "convert_attach" /\ pc' = [pc EXCEPT ![t] = "convert_trylock"]
    BY <1>14 DEF ConvertAttach, Step, Goto, tables, locals
  <2>2. \A u \in Thread : u \in Counted' <=> u \in Counted
    BY <2>1 DEF Counted, Leaving, TypeOK, TypePc
  <2>3. \A u \in Thread : Gone(u)' => u \notin threads'
    BY <2>1 DEF Gone, ExitInv, TypeOK, TypePc
  <2>4. \A u \in Thread : Needs(u) => Needs(u)'
    BY <2>1 DEF Needs, Final, Leaving, TypeOK, TypePc
  <2> QED
    BY <1>0, <2>1, <2>2, <2>3, <2>4, UncountedStep
<1>15. ASSUME NEW t \in Thread, ConvertTrylock(t) PROVE ExitInv'
  BY <1>15, UncountedStep DEF ConvertTrylock, TrylockFails, Return, Leave,
       Goto, tables, locals, Counted, Leaving, Needs, Final, Gone, ExitInv,
       PointersOK, ThreadSteps, SwitchSteps, TypeOK, TypePc, TypeLocals,
       TypeTables
<1>16. ASSUME NEW t \in Thread, CreateEntry(t) PROVE ExitInv'
  BY <1>16, UncountedStep DEF CreateEntry, Return, Leave, Goto, tables,
       locals, Counted, Leaving, Needs, Final, Gone, ExitInv, PointersOK,
       ThreadSteps, SwitchSteps, TypeOK, TypePc, TypeLocals, TypeTables
<1>17. ASSUME NEW t \in Thread, SwitchLookup(t) PROVE ExitInv'
  BY <1>17, UncountedStep DEF SwitchLookup, Return, Leave, Continue, Goto,
       tables, locals, Counted, Leaving, Needs, Final, Gone, ExitInv,
       PointersOK, ThreadSteps, SwitchSteps, TypeOK, TypePc, TypeLocals,
       TypeTables
<1>18. ASSUME NEW t \in Thread, SwitchTrylock(t) PROVE ExitInv'
  BY <1>18, UncountedStep DEF SwitchTrylock, TrylockFails, Return, Leave,
       Continue, Goto, tables, locals, Counted, Leaving, Needs, Final, Gone,
       ExitInv, PointersOK, ThreadSteps, SwitchSteps, TypeOK, TypePc,
       TypeLocals, TypeTables
<1>19. ASSUME NEW t \in Thread, SwitchCheck(t) PROVE ExitInv'
  BY <1>19, UncountedStep DEF SwitchCheck, Return, Leave, Continue, Goto,
       tables, locals, Counted, Leaving, Needs, Final, Gone, ExitInv,
       PointersOK, ThreadSteps, SwitchSteps, TypeOK, TypePc, TypeLocals,
       TypeTables
<1>20. ASSUME NEW t \in Thread, SwitchAttach(t) PROVE ExitInv'
  BY <1>20, UncountedStep DEF SwitchAttach, Step, Goto, tables, locals,
       Counted, Leaving, Needs, Final, Gone, ExitInv, PointersOK, ThreadSteps,
       SwitchSteps, TypeOK, TypePc, TypeLocals, TypeTables
<1>21. ASSUME NEW t \in Thread, SwitchSave(t) PROVE ExitInv'
  BY <1>21, UncountedStep DEF SwitchSave, SaveContext, Step, Goto, tables,
       locals, Counted, Leaving, Needs, Final, Gone, ExitInv, PointersOK,
       ThreadSteps, SwitchSteps, TypeOK, TypePc, TypeLocals, TypeTables
<1>22. ASSUME NEW t \in Thread, SwitchDetach(t) PROVE ExitInv'
  BY <1>22, UncountedStep DEF SwitchDetach, Step, Goto, tables, locals,
       Counted, Leaving, Needs, Final, Gone, ExitInv, PointersOK, ThreadSteps,
       SwitchSteps, TypeOK, TypePc, TypeLocals, TypeTables
<1>23. ASSUME NEW t \in Thread, SwitchUnlock(t) PROVE ExitInv'
  BY <1>23, UncountedStep DEF SwitchUnlock, UnlockFiber, Step, Goto,
       tables, locals, Counted, Leaving, Needs, Final, Gone, ExitInv,
       PointersOK, ThreadSteps, SwitchSteps, TypeOK, TypePc, TypeLocals,
       TypeTables
<1>24. ASSUME NEW t \in Thread, SwitchRestore(t) PROVE ExitInv'
  BY <1>24, UncountedStep DEF SwitchRestore, Return, Leave, Goto, tables,
       locals, Counted, Leaving, Needs, Final, Gone, ExitInv, PointersOK,
       ThreadSteps, SwitchSteps, TypeOK, TypePc, TypeLocals, TypeTables
<1>25. ASSUME NEW t \in Thread, ExitThread(t) PROVE ExitInv'
  BY <1>25, UncountedStep DEF ExitThread, Leave, Continue, Goto, tables,
       locals, Counted, Leaving, Needs, Final, Gone, ExitInv, PointersOK,
       ThreadSteps, SwitchSteps, TypeOK, TypePc, TypeLocals, TypeTables
<1>26. ASSUME NEW t \in Thread, ExitDec(t) PROVE ExitInv'
  <2>1. /\ active' = active - 1 /\ UNCHANGED <<threads, nproc, ep>>
        /\ final' = [final EXCEPT ![t] = active = 1]
        /\ pc' = [pc EXCEPT ![t] = IF sel[t] # NoFiber /\ active # 1
                                   THEN "exit_save" ELSE "exit_free_thread"]
    BY <1>26 DEF ExitDec, Step, Goto, LastThread
  <2>2. t \in threads /\ pc[t] = "exit_dec" /\ ep[t] = "live"
    BY <1>26 DEF ExitDec, Step, PointersOK, ThreadSteps, TypeOK, TypeLocals
  <2>3. Counted' = Counted \ {t} /\ t \in Counted
    BY <2>1, <2>2 DEF Counted, Leaving, TypeOK, TypePc, TypeTables
  <2>4. active' = Cardinality(Counted') /\ active > 0
    BY <2>1, <2>3, CountedFinite, FS_RemoveElement DEF ExitInv
  <2>5. \A u \in Thread : Gone(u)' => u \notin threads'
    BY <2>1 DEF ExitInv, Gone, TypeOK, TypePc
  <2>6. active = 1 => Needs(t)'
    BY <2>1, <2>2 DEF Needs, Final, Leaving, TypeOK, TypePc, TypeLocals
  <2> QED
    BY <2>1, <2>4, <2>5, <2>6 DEF ExitInv, TypeOK, TypeTables
<1>27. ASSUME NEW t \in Thread, ExitSave(t) PROVE ExitInv'
  BY <1>27, UncountedStep DEF ExitSave, SaveContext, Step, Goto, tables,
       locals, Counted, Leaving, Needs, Final, Gone, ExitInv, PointersOK,
       ThreadSteps, SwitchSteps, TypeOK, TypePc, TypeLocals, TypeTables
<1>28. ASSUME NEW t \in Thread, ExitDetach(t) PROVE ExitInv'
  BY <1>28, UncountedStep DEF ExitDetach, Step, Goto, tables, locals,
       Counted, Leaving, Needs, Final, Gone, ExitInv, PointersOK, ThreadSteps,
       SwitchSteps, TypeOK, TypePc, TypeLocals, TypeTables
<1>29. ASSUME NEW t \in Thread, ExitUnlock(t) PROVE ExitInv'
  BY <1>29, UncountedStep DEF ExitUnlock, UnlockFiber, Step, Goto, tables,
       locals, Counted, Leaving, Needs, Final, Gone, ExitInv, PointersOK,
       ThreadSteps, SwitchSteps, TypeOK, TypePc, TypeLocals, TypeTables
<1>30. ASSUME NEW t \in Thread, ExitFreeThread(t) PROVE ExitInv'
  BY <1>30, UncountedStep DEF ExitFreeThread, Leave, Continue, Goto,
       tables, locals, Counted, Leaving, Needs, Final, Gone, ExitInv,
       PointersOK, ThreadSteps, SwitchSteps, TypeOK, TypePc, TypeLocals,
       TypeTables
<1>31. ASSUME NEW t \in Thread, ExitFreeProcess(t) PROVE ExitInv'
  <2>1. nproc = 1
    BY <1>31 DEF ExitFreeProcess, Step, PointersOK, TypeOK, TypeLocals
  <2> QED
    BY <1>0, <1>31, <2>1, FreedExit DEF ExitFreeProcess
<1>32. ASSUME NEW t \in Thread, Fault(t) PROVE ExitInv'
  BY <1>32, UncountedStep DEF Fault, Goto, tables, locals, Counted,
       Leaving, Needs, Final, Gone, ExitInv, PointersOK, ThreadSteps,
       SwitchSteps, TypeOK, TypePc, TypeLocals, TypeTables
<1>33. ASSUME NEW t \in Thread, NEW f \in FiberId, CallSwitch(t, f) PROVE ExitInv'
  <2>1. /\ UNCHANGED <<nproc, active, threads, final>>
        /\ pc[t] = "user" /\ pc' = [pc EXCEPT ![t] = "find_thread"]
        /\ \A u \in Thread \ {t} : ep'[u] = ep[u]
    BY <1>33 DEF CallSwitch, Goto, tables, TypeOK, TypeLocals
  <2>2. \A u \in Thread : u \in Counted' <=> u \in Counted
    BY <2>1 DEF Counted, Leaving, TypeOK, TypePc
  <2>3. \A u \in Thread : Gone(u)' => u \notin threads'
    BY <2>1 DEF Gone, ExitInv, TypeOK, TypePc
  <2>4. \A u \in Thread : Needs(u) => Needs(u)'
    BY <2>1 DEF Needs, Final, Leaving, TypeOK, TypePc
  <2> QED
    BY <1>0, <2>1, <2>2, <2>3, <2>4, UncountedStep
<1>34. CASE UNCHANGED vars
  BY <1>34, UncountedStep DEF vars, tables, structs, locals, cpus, users,
       Counted, Needs, Final, Leaving, Gone, ExitInv
<1> QED
  BY <1>1, <1>2, <1>3, <1>4, <1>5, <1>6, <1>7, <1>8, <1>9, <1>10, <1>11,
       <1>12, <1>13, <1>14, <1>15, <1>16, <1>17, <1>18, <1>19, <1>20, <1>21,
       <1>22, <1>23, <1>24, <1>25, <1>26, <1>27, <1>28, <1>29, <1>30, <1>31,
       <1>32, <1>33, <1>34 DEF Next, UserStep, KernelStep, Finished, BaseInv

\* With no thread and no process, nothing is counted.
LEMMA ExitInit == Init => ExitInv
<1> SUFFICES ASSUME Init PROVE ExitInv
  OBVIOUS
<1>1. Counted = {}
  BY DEF Init, Counted
<1>2. Cardinality(Counted) = 0
  BY <1>1, FS_EmptySet
<1> QED
  BY <1>2 DEF Init, ExitInv, Gone

\* For every client, active_threads counts exactly the threads that still use
\* the process, and a process nobody uses is about to be used or freed.
THEOREM ExitInvariant == Spec => []ExitInv
<1>1. BaseInv /\ BaseInv' /\ ExitInv /\ [Next]_vars => ExitInv'
  BY ExitStep
<1> QED
  BY <1>1, ExitInit, BaseInvariant, PTL DEF Spec

\* However threads convert, switch, close and die, a process whose threads have
\* all died has no struct process left: exit_cleanup's last decrement, or
\* process_cleanup, has freed it.
THEOREM NothingLeaks == Spec => []CleanedUp
<1>1. BaseInv /\ ExitInv => CleanedUp
  <2> SUFFICES ASSUME BaseInv, ExitInv, \A t \in Thread : Dead(t)
               PROVE  nproc = 0
    BY DEF CleanedUp
  <2>1. Counted = {} /\ \A t \in Thread : ~Needs(t)
    BY DEF ExitInv, Dead, Gone, Needs, Final, Leaving, Counted, BaseInv, TypeOK, TypeTables
  <2>2. active = 0
    BY <2>1, FS_EmptySet DEF ExitInv
  <2>3. nproc # 1
    BY <2>1, <2>2 DEF ExitInv
  <2> QED
    BY <2>3 DEF BaseInv, TypeOK, TypeTables, PointersOK
<1> QED
  BY <1>1, BaseInvariant, ExitInvariant, PTL

-----------------------------------------------------------------------------
(***************************************************************************)
(* Clients that start and join their threads in Main                       *)
(***************************************************************************)

\* Main is the last thread that active_threads counts.
LEMMA MainCounted ==
  ASSUME BaseInv, ExitInv, JoinedInv, NEW t \in Thread, t # Main, t \in Counted
  PROVE  active # 1
<1>1. t \in threads /\ Main \in threads /\ ~Dead(t)
  BY DEF Counted, JoinedInv, ExitInv, Dead, Gone
<1>2. Main \in Counted
  BY <1>1 DEF JoinedInv, Counted, Leaving, ExitSteps
<1>3. \A x : Counted # {x}
  BY <1>2
<1> QED
  BY <1>3, CountedFinite, FS_Singleton DEF ExitInv, BaseInv

\* Every step keeps JoinedInv.
LEMMA JoinedStep ==
  ASSUME Joined, BaseInv, ExitInv, JoinedInv, [Next]_vars
  PROVE  JoinedInv'
<1> USE ConstantsAssumption DEF BaseInv
<1>1. ASSUME NEW t \in Thread, Work(t) PROVE JoinedInv'
  BY <1>1 DEF Work, tables, locals, users, JoinedInv, Dead, Final, Leaving
<1>2. ASSUME NEW t \in Thread, CallConvert(t) PROVE JoinedInv'
  BY <1>2 DEF CallConvert, Goto, tables, locals, users, MayCall, JoinedInv,
       Dead, Final, Leaving, TypeOK, TypePc, TypeLocals, TypeTables, IoctlSteps,
       ConvertSteps, InitFiberSteps, CreateSteps, SwitchSteps, ExitSteps
<1>3. ASSUME NEW t \in Thread, CallCreate(t) PROVE JoinedInv'
  BY <1>3 DEF CallCreate, Goto, FindProcess, tables, locals, users,
       MayCall, JoinedInv, Dead, Final, Leaving, TypeOK, TypePc, TypeLocals,
       TypeTables, IoctlSteps, ConvertSteps, InitFiberSteps, CreateSteps,
       SwitchSteps, ExitSteps
<1>4. ASSUME NEW t \in Thread, CallExit(t) PROVE JoinedInv'
  BY <1>4 DEF CallExit, Goto, Leave, FindProcess, tables, locals, users,
       MayLeave, JoinedInv, Dead, Final, Leaving, TypeOK, TypePc, TypeLocals,
       TypeTables, IoctlSteps, ConvertSteps, InitFiberSteps, CreateSteps,
       SwitchSteps, ExitSteps
<1>5. ASSUME NEW t \in Thread, Close(t) PROVE JoinedInv'
  <2>1. t = Main /\ \A u \in Thread \ {Main} : Dead(u)
    BY <1>5 DEF Close, MayLeave
  <2>2. \A u \in Thread \ {Main} : ep[u] = "null"
    BY <2>1 DEF Dead, PointersOK
  <2>3. nproc' = 0
    BY <1>5 DEF Close, FindProcess, FreeProcess, tables, PointersOK, TypeOK,
         TypeTables
  <2> QED
    BY <1>5, <2>1, <2>2, <2>3 DEF Close, FindProcess, FreeProcess, tables,
         JoinedInv, Dead, Final, Leaving, PointersOK, TypeOK, TypePc,
         TypeLocals, IoctlSteps, ConvertSteps, InitFiberSteps, CreateSteps,
         SwitchSteps, ExitSteps
<1>6. ASSUME NEW t \in Thread, FindThread(t) PROVE JoinedInv'
  BY <1>6 DEF FindThread, Return, Leave, Continue, Goto, tables, locals,
       users, JoinedInv, Dead, Final, Leaving, TypeOK, TypePc, TypeLocals,
       TypeTables, IoctlSteps, ConvertSteps, InitFiberSteps, CreateSteps,
       SwitchSteps, ExitSteps
<1>7. ASSUME NEW t \in Thread, ConvertLock(t) PROVE JoinedInv'
  BY <1>7 DEF ConvertLock, ProcessLockFree, Step, Goto, tables, locals,
       users, JoinedInv, Dead, Final, Leaving, TypeOK, TypePc, TypeLocals,
       TypeTables, IoctlSteps, ConvertSteps, InitFiberSteps, CreateSteps,
       SwitchSteps, ExitSteps
<1>8. ASSUME NEW t \in Thread, ConvertFind(t) PROVE JoinedInv'
  BY <1>8 DEF ConvertFind, Step, Goto, FindProcess, tables, locals, users,
       JoinedInv, Dead, Final, Leaving, TypeOK, TypePc, TypeLocals, TypeTables,
       IoctlSteps, ConvertSteps, InitFiberSteps, CreateSteps, SwitchSteps,
       ExitSteps
<1>9. ASSUME NEW t \in Thread, ConvertProcess(t) PROVE JoinedInv'
  <2>1. CASE InitProcess
    <3>1. nproc = 0
      BY <1>9, <2>1 DEF ConvertProcess, InitProcess, ProcessLockOK, tables,
                        TypeOK, TypeTables
    <3>2. threads = {} /\ threads' = {}
      BY <2>1, <3>1 DEF PointersOK, InitProcess
    <3>3. \A u \in Thread \ {Main} : pc[u] \notin IoctlSteps
      BY <3>2 DEF JoinedInv
    <3> QED
      BY <1>9, <2>1, <3>2, <3>3 DEF ConvertProcess, Goto, JoinedInv, Dead, Final, Leaving,
           users, TypeOK, TypePc, TypeLocals, IoctlSteps, ConvertSteps, ExitSteps
  <2>2. CASE UNCHANGED <<tables, ep>>
    BY <1>9, <2>2 DEF ConvertProcess, Goto, JoinedInv, Dead, Final, Leaving, users,
         tables, TypeOK, TypePc, IoctlSteps, ConvertSteps, ExitSteps
  <2> QED
    BY <1>9, <2>1, <2>2 DEF ConvertProcess
<1>10. ASSUME NEW t \in Thread, ConvertThread(t) PROVE JoinedInv'
  BY <1>10 DEF ConvertThread, Return, Leave, Continue, Goto, tables,
       locals, users, JoinedInv, Dead, Final, Leaving, TypeOK, TypePc,
       TypeLocals, TypeTables, IoctlSteps, ConvertSteps, InitFiberSteps,
       CreateSteps, SwitchSteps, ExitSteps, ExitInv
<1>11. ASSUME NEW t \in Thread, InitFiberReserve(t) PROVE JoinedInv'
  BY <1>11 DEF InitFiberReserve, IncLastFiberId, Step, Goto, tables,
       locals, users, JoinedInv, Dead, Final, Leaving, TypeOK, TypePc,
       TypeLocals, TypeTables, IoctlSteps, ConvertSteps, InitFiberSteps,
       CreateSteps, SwitchSteps, ExitSteps
<1>12. ASSUME NEW t \in Thread, InitFiberPublish(t) PROVE JoinedInv'
  BY <1>12 DEF InitFiberPublish, Step, Goto, tables, locals, users,
       JoinedInv, Dead, Final, Leaving, TypeOK, TypePc, TypeLocals, TypeTables,
       IoctlSteps, ConvertSteps, InitFiberSteps, CreateSteps, SwitchSteps,
       ExitSteps
<1>13. ASSUME NEW t \in Thread, ConvertStack(t) PROVE JoinedInv'
  BY <1>13 DEF ConvertStack, Step, Goto, tables, locals, users, JoinedInv,
       Dead, Final, Leaving, TypeOK, TypePc, TypeLocals, TypeTables, IoctlSteps,
       ConvertSteps, InitFiberSteps, CreateSteps, SwitchSteps, ExitSteps
<1>14. ASSUME NEW t \in Thread, ConvertAttach(t) PROVE JoinedInv'
  BY <1>14 DEF ConvertAttach, Step, Goto, tables, locals, users, JoinedInv,
       Dead, Final, Leaving, TypeOK, TypePc, TypeLocals, TypeTables, IoctlSteps,
       ConvertSteps, InitFiberSteps, CreateSteps, SwitchSteps, ExitSteps
<1>15. ASSUME NEW t \in Thread, ConvertTrylock(t) PROVE JoinedInv'
  BY <1>15 DEF ConvertTrylock, TrylockFails, Return, Leave, Goto, tables,
       locals, users, JoinedInv, Dead, Final, Leaving, TypeOK, TypePc,
       TypeLocals, TypeTables, IoctlSteps, ConvertSteps, InitFiberSteps,
       CreateSteps, SwitchSteps, ExitSteps
<1>16. ASSUME NEW t \in Thread, CreateEntry(t) PROVE JoinedInv'
  BY <1>16 DEF CreateEntry, Return, Leave, Goto, tables, locals, users,
       JoinedInv, Dead, Final, Leaving, TypeOK, TypePc, TypeLocals, TypeTables,
       IoctlSteps, ConvertSteps, InitFiberSteps, CreateSteps, SwitchSteps,
       ExitSteps
<1>17. ASSUME NEW t \in Thread, SwitchLookup(t) PROVE JoinedInv'
  BY <1>17 DEF SwitchLookup, Return, Leave, Continue, Goto, tables, locals,
       users, JoinedInv, Dead, Final, Leaving, TypeOK, TypePc, TypeLocals,
       TypeTables, IoctlSteps, ConvertSteps, InitFiberSteps, CreateSteps,
       SwitchSteps, ExitSteps
<1>18. ASSUME NEW t \in Thread, SwitchTrylock(t) PROVE JoinedInv'
  BY <1>18 DEF SwitchTrylock, TrylockFails, Return, Leave, Continue, Goto,
       tables, locals, users, JoinedInv, Dead, Final, Leaving, TypeOK, TypePc,
       TypeLocals, TypeTables, IoctlSteps, ConvertSteps, InitFiberSteps,
       CreateSteps, SwitchSteps, ExitSteps
<1>19. ASSUME NEW t \in Thread, SwitchCheck(t) PROVE JoinedInv'
  BY <1>19 DEF SwitchCheck, Return, Leave, Continue, Goto, tables, locals,
       users, JoinedInv, Dead, Final, Leaving, TypeOK, TypePc, TypeLocals,
       TypeTables, IoctlSteps, ConvertSteps, InitFiberSteps, CreateSteps,
       SwitchSteps, ExitSteps
<1>20. ASSUME NEW t \in Thread, SwitchAttach(t) PROVE JoinedInv'
  BY <1>20 DEF SwitchAttach, Step, Goto, tables, locals, users, JoinedInv,
       Dead, Final, Leaving, TypeOK, TypePc, TypeLocals, TypeTables, IoctlSteps,
       ConvertSteps, InitFiberSteps, CreateSteps, SwitchSteps, ExitSteps
<1>21. ASSUME NEW t \in Thread, SwitchSave(t) PROVE JoinedInv'
  BY <1>21 DEF SwitchSave, SaveContext, Step, Goto, tables, locals, users,
       JoinedInv, Dead, Final, Leaving, TypeOK, TypePc, TypeLocals, TypeTables,
       IoctlSteps, ConvertSteps, InitFiberSteps, CreateSteps, SwitchSteps,
       ExitSteps
<1>22. ASSUME NEW t \in Thread, SwitchDetach(t) PROVE JoinedInv'
  BY <1>22 DEF SwitchDetach, Step, Goto, tables, locals, users, JoinedInv,
       Dead, Final, Leaving, TypeOK, TypePc, TypeLocals, TypeTables, IoctlSteps,
       ConvertSteps, InitFiberSteps, CreateSteps, SwitchSteps, ExitSteps
<1>23. ASSUME NEW t \in Thread, SwitchUnlock(t) PROVE JoinedInv'
  BY <1>23 DEF SwitchUnlock, UnlockFiber, Step, Goto, tables, locals,
       users, JoinedInv, Dead, Final, Leaving, TypeOK, TypePc, TypeLocals,
       TypeTables, IoctlSteps, ConvertSteps, InitFiberSteps, CreateSteps,
       SwitchSteps, ExitSteps
<1>24. ASSUME NEW t \in Thread, SwitchRestore(t) PROVE JoinedInv'
  BY <1>24 DEF SwitchRestore, Return, Leave, Goto, tables, locals, users,
       JoinedInv, Dead, Final, Leaving, TypeOK, TypePc, TypeLocals, TypeTables,
       IoctlSteps, ConvertSteps, InitFiberSteps, CreateSteps, SwitchSteps,
       ExitSteps
<1>25. ASSUME NEW t \in Thread, ExitThread(t) PROVE JoinedInv'
  BY <1>25 DEF ExitThread, Leave, Continue, Goto, tables, locals, users,
       JoinedInv, Dead, Final, Leaving, TypeOK, TypePc, TypeLocals, TypeTables,
       IoctlSteps, ConvertSteps, InitFiberSteps, CreateSteps, SwitchSteps,
       ExitSteps
<1>26. ASSUME NEW t \in Thread, ExitDec(t) PROVE JoinedInv'
  <2>1. t \in threads /\ pc[t] = "exit_dec"
    BY <1>26 DEF ExitDec, Step, PointersOK, ThreadSteps, TypeOK, TypeLocals
  <2>2. t # Main => ~LastThread
    BY <2>1, MainCounted DEF LastThread, Counted, Leaving
  <2> QED
    BY <1>26, <2>1, <2>2 DEF ExitDec, Step, Goto, users, JoinedInv, Dead, Final, Leaving,
         TypeOK, TypePc, TypeLocals, IoctlSteps, ConvertSteps, InitFiberSteps,
         CreateSteps, SwitchSteps, ExitSteps
<1>27. ASSUME NEW t \in Thread, ExitSave(t) PROVE JoinedInv'
  BY <1>27 DEF ExitSave, SaveContext, Step, Goto, tables, locals, users,
       JoinedInv, Dead, Final, Leaving, TypeOK, TypePc, TypeLocals, TypeTables,
       IoctlSteps, ConvertSteps, InitFiberSteps, CreateSteps, SwitchSteps,
       ExitSteps
<1>28. ASSUME NEW t \in Thread, ExitDetach(t) PROVE JoinedInv'
  BY <1>28 DEF ExitDetach, Step, Goto, tables, locals, users, JoinedInv,
       Dead, Final, Leaving, TypeOK, TypePc, TypeLocals, TypeTables, IoctlSteps,
       ConvertSteps, InitFiberSteps, CreateSteps, SwitchSteps, ExitSteps
<1>29. ASSUME NEW t \in Thread, ExitUnlock(t) PROVE JoinedInv'
  BY <1>29 DEF ExitUnlock, UnlockFiber, Step, Goto, tables, locals, users,
       JoinedInv, Dead, Final, Leaving, TypeOK, TypePc, TypeLocals, TypeTables,
       IoctlSteps, ConvertSteps, InitFiberSteps, CreateSteps, SwitchSteps,
       ExitSteps
<1>30. ASSUME NEW t \in Thread, ExitFreeThread(t) PROVE JoinedInv'
  <2>1. t = Main => \A u \in Thread \ {Main} : Dead(u) /\ u \notin threads
    BY <1>30 DEF ExitFreeThread, JoinedInv, ExitSteps, ExitInv, Dead, Gone
  <2>2. t # Main => ~final[t]
    BY <1>30 DEF ExitFreeThread, JoinedInv, Final, Leaving
  <2> QED
    BY <1>30, <2>1, <2>2 DEF ExitFreeThread, Leave, Continue, Goto, locals, users,
         JoinedInv, Dead, Final, Leaving, TypeOK, TypePc, TypeLocals, IoctlSteps,
         ConvertSteps, InitFiberSteps, CreateSteps, SwitchSteps, ExitSteps
<1>31. ASSUME NEW t \in Thread, ExitFreeProcess(t) PROVE JoinedInv'
  <2>1. t = Main /\ \A u \in Thread \ {Main} : Dead(u)
    BY <1>31 DEF ExitFreeProcess, Step, JoinedInv, Final, ExitSteps
  <2>2. \A u \in Thread \ {Main} : ep[u] = "null"
    BY <2>1 DEF Dead, PointersOK
  <2> QED
    BY <1>31, <2>1, <2>2 DEF ExitFreeProcess, Step, Goto, FreeProcess,
         tables, JoinedInv, Dead, Final, Leaving, PointersOK, TypeOK, TypePc,
         TypeLocals, IoctlSteps, ConvertSteps, InitFiberSteps, CreateSteps,
         SwitchSteps, ExitSteps
<1>32. ASSUME NEW t \in Thread, Fault(t) PROVE JoinedInv'
  BY <1>32 DEF Fault, Goto, tables, locals, users, JoinedInv, Dead, Final,
       Leaving, TypeOK, TypePc, TypeLocals, TypeTables, IoctlSteps,
       ConvertSteps, InitFiberSteps, CreateSteps, SwitchSteps, ExitSteps
<1>33. ASSUME NEW t \in Thread, NEW f \in FiberId, CallSwitch(t, f) PROVE JoinedInv'
  BY <1>33 DEF CallSwitch, Goto, FindProcess, tables, locals, users,
       MayCall, JoinedInv, Dead, Final, Leaving, TypeOK, TypePc, TypeLocals,
       TypeTables, IoctlSteps, ConvertSteps, InitFiberSteps, CreateSteps,
       SwitchSteps, ExitSteps
<1>34. CASE UNCHANGED vars
  BY <1>34 DEF vars, tables, structs, locals, cpus, users, JoinedInv, Dead,
       Final, Leaving
<1> QED
  BY <1>1, <1>2, <1>3, <1>4, <1>5, <1>6, <1>7, <1>8, <1>9, <1>10, <1>11,
       <1>12, <1>13, <1>14, <1>15, <1>16, <1>17, <1>18, <1>19, <1>20, <1>21,
       <1>22, <1>23, <1>24, <1>25, <1>26, <1>27, <1>28, <1>29, <1>30, <1>31,
       <1>32, <1>33, <1>34 DEF Next, UserStep, KernelStep, Finished

\* Before any call, nothing is freed and every thread is alive.
LEMMA JoinedInit == Init => JoinedInv
BY ConstantsAssumption DEF Init, JoinedInv, Final, Leaving, IoctlSteps,
     ConvertSteps, InitFiberSteps, CreateSteps, SwitchSteps, ExitSteps

\* A client that converts in Main first and joins its threads there keeps
\* Main's struct thread for as long as another thread is in a call, and only
\* Main frees the process.
THEOREM JoinedInvariant ==
  ASSUME Joined
  PROVE  Spec => []JoinedInv
<1>1. BaseInv /\ ExitInv /\ JoinedInv /\ [Next]_vars => JoinedInv'
  BY JoinedStep
<1> QED
  BY <1>1, JoinedInit, BaseInvariant, ExitInvariant, PTL DEF Spec

\* No thread of such a client ever uses a process, a thread or a fiber that
\* exit_cleanup or process_cleanup has freed.
THEOREM NothingFreedIsUsed ==
  ASSUME Joined
  PROVE  Spec => []NoUseAfterFree
<1>1. JoinedInv => NoUseAfterFree
  BY DEF JoinedInv, NoUseAfterFree
<1> QED
  BY <1>1, JoinedInvariant, PTL

\* For such a client exit_cleanup frees the fibers only when no thread that
\* executes fibers is left.  Clients that convert a thread while the last one is
\* on its way out do break LastThreadFrees: the run last_exit shows how.
THEOREM LastFreesForJoined ==
  ASSUME Joined
  PROVE  Spec => []LastThreadFrees
<1>1. BaseInv /\ ExitInv /\ JoinedInv => LastThreadFrees
  <2> SUFFICES ASSUME BaseInv, ExitInv, JoinedInv, NEW t \in Thread,
                      pc[t] = "exit_free_process"
               PROVE  threads = {}
    BY DEF LastThreadFrees
  <2>1. t = Main
    BY DEF JoinedInv, Final
  <2>2. \A u \in Thread : Gone(u)
    BY <2>1 DEF JoinedInv, ExitSteps, Gone, Dead
  <2> QED
    BY <2>2 DEF ExitInv, BaseInv, TypeOK, TypeTables
<1> QED
  BY <1>1, BaseInvariant, ExitInvariant, JoinedInvariant, PTL

=============================================================================
