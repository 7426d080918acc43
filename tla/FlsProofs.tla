----------------------------- MODULE FlsProofs ------------------------------
(***************************************************************************)
(* Fiber-local storage is a map per fiber, for every number of threads,    *)
(* fibers and slots.  The argument: a fiber has one runner, so nothing     *)
(* changes its bitmap between a call's test and its use of the index       *)
(* (NotStale), and the second step of each call is the operation of        *)
(* FlsSpec.                                                                *)
(***************************************************************************)
EXTENDS Fls, WellFoundedInduction, TLAPS

\* The inductive invariant.
FlsInv == TypeOK /\ Fiber!OneRunner /\ NotStale

\* find_first_zero_bit finds a clear bit when there is one, and otherwise
\* returns MAX_FLS_POINTERS.
LEMMA FirstZeroBit ==
  ASSUME NEW f \in FiberId
  PROVE  LET i == FindFirstZeroBit(f)
         IN  /\ i \in Index \cup {MAX_FLS_POINTERS}
             /\ i # MAX_FLS_POINTERS => i \in Index /\ i \notin fls_bitmap[f]
             /\ i = MAX_FLS_POINTERS => Index \ fls_bitmap[f] = {}
<1> DEFINE zero == (Index \ fls_bitmap[f]) \cup {MAX_FLS_POINTERS}
           i == FindFirstZeroBit(f)
           R == OpToRel(<, Nat)
<1>1. zero \subseteq Nat /\ zero # {}
  BY FlsAssumption DEF Index
<1>2. \E m \in zero : \A j \in zero : m <= j
  <2>1. IsWellFoundedOn(R, Nat)
    BY NatLessThanWellFounded
  <2>2. PICK m \in zero : \A j \in zero : ~(<<j, m>> \in R)
    <3> HIDE DEF zero, R
    <3> QED  BY <1>1, <2>1, WFMin
  <2>3. \A j \in zero : ~(j < m)
    BY <1>1, <2>2 DEF OpToRel
  <2> QED  BY <1>1, <2>3
<1>3. i \in zero /\ \A j \in zero : i <= j
  BY <1>2 DEF FindFirstZeroBit
<1>4. i = MAX_FLS_POINTERS => Index \ fls_bitmap[f] = {}
  BY <1>3, FlsAssumption DEF Index
<1> QED  BY <1>3, <1>4

\* The initial state satisfies the invariant.
LEMMA FlsInit == Init => FlsInv
<1> SUFFICES ASSUME Init PROVE FlsInv  OBVIOUS
<1> USE FlsAssumption
<1>1. TypeOK
  BY DEF Init, Fiber!Init, TypeOK
<1>2. Fiber!OneRunner
  BY DEF Init, Fiber!Init, Fiber!OneRunner
<1>3. NotStale
  BY DEF Init, NotStale
<1> QED  BY <1>1, <1>2, <1>3 DEF FlsInv

\* Threads change fibers: nobody else runs a fiber that is created or
\* resumed, so no call in progress sees another bitmap.
LEMMA MoveInv ==
  ASSUME FlsInv, NEW t \in Thread, MoveFibers(t)
  PROVE  FlsInv'
<1> USE FlsAssumption
<1>0. TypeOK /\ Fiber!OneRunner /\ NotStale /\ pc[t] = "user"
  BY DEF FlsInv, MoveFibers
<1>1. ASSUME NEW f \in FiberId, Convert(t, f) \/ Create(t, f), UNCHANGED calls
      PROVE  FlsInv'
  <2>1. /\ f \notin fibs /\ fibs' = fibs \cup {f} /\ InitFls(f)
        /\ run' \in {run, [run EXCEPT ![t] = f]}
    BY <1>1 DEF Convert, Create, Fiber!Convert, Fiber!Create
  <2>2. TypeOK'
    BY <1>0, <1>1, <2>1 DEF TypeOK, InitFls, calls
  <2>3. Fiber!OneRunner'
    BY <1>0, <2>1 DEF TypeOK, Fiber!OneRunner
  <2>4. NotStale'
    <3> SUFFICES ASSUME NEW u \in Thread, pc[u] # "user"
                 PROVE  /\ run'[u] # NoFiber
                        /\ index[u] \in Index
                        /\ pc[u] = "alloc" <=> index[u] \notin fls_bitmap'[run'[u]]
      BY <1>1 DEF NotStale, calls
    <3>1. u # t /\ run'[u] = run[u] /\ run[u] # NoFiber
      BY <1>0, <2>1 DEF TypeOK, NotStale
    <3>2. run[u] # f /\ run[u] \in FiberId
      BY <1>0, <2>1, <3>1 DEF TypeOK, Fiber!OneRunner
    <3>3. fls_bitmap'[run[u]] = fls_bitmap[run[u]]
      BY <1>0, <2>1, <3>2 DEF TypeOK, InitFls
    <3> QED  BY <1>0, <3>1, <3>3 DEF NotStale
  <2> QED  BY <2>2, <2>3, <2>4 DEF FlsInv
<1>2. ASSUME NEW f \in FiberId, Switch(t, f), UNCHANGED calls
      PROVE  FlsInv'
  <2>1. /\ f \in fibs /\ (\A u \in Thread : run[u] # f)
        /\ run' = [run EXCEPT ![t] = f]
        /\ UNCHANGED <<fibs, fls, fls_bitmap>>
    BY <1>2 DEF Switch, Fiber!Switch, Fiber!Suspended, storage
  <2>2. TypeOK'
    BY <1>0, <1>2, <2>1 DEF TypeOK, calls
  <2>3. Fiber!OneRunner'
    BY <1>0, <2>1 DEF TypeOK, Fiber!OneRunner
  <2>4. NotStale'
    BY <1>0, <1>2, <2>1 DEF TypeOK, NotStale, calls
  <2> QED  BY <2>2, <2>3, <2>4 DEF FlsInv
<1>3. ASSUME Exit(t), UNCHANGED calls
      PROVE  FlsInv'
  <2>1. /\ run' = [run EXCEPT ![t] = NoFiber]
        /\ fibs' = fibs \/ (fibs' = {} /\ \A u \in Thread \ {t} : run[u] = NoFiber)
        /\ UNCHANGED <<fls, fls_bitmap>>
    BY <1>3 DEF Exit, Fiber!Release, Fiber!CleanUp, Fiber!Last, storage
  <2>2. TypeOK'
    BY <1>0, <1>3, <2>1 DEF TypeOK, calls
  <2>3. Fiber!OneRunner'
    BY <1>0, <2>1 DEF TypeOK, Fiber!OneRunner
  <2>4. NotStale'
    BY <1>0, <1>3, <2>1 DEF TypeOK, NotStale, calls
  <2> QED  BY <2>2, <2>3, <2>4 DEF FlsInv
<1> QED  BY <1>1, <1>2, <1>3 DEF MoveFibers

\* The first half of a call leaves the storage alone and records what the
\* bitmap says.
LEMMA TestInv ==
  ASSUME FlsInv, NEW t \in Thread,
         \/ AllocFind(t)
         \/ \E i \in -1..MAX_FLS_POINTERS :
              \/ FreeTest(t, i) \/ GetTest(t, i)
              \/ \E v \in Value : SetTest(t, i, v)
  PROVE  FlsInv'
<1> USE FlsAssumption
<1>0. TypeOK /\ Fiber!OneRunner /\ NotStale /\ pc[t] = "user"
  BY DEF FlsInv, AllocFind, FreeTest, GetTest, SetTest, Test
<1>1. UNCHANGED <<run, fibs, fls, fls_bitmap>>
  BY DEF AllocFind, FreeTest, GetTest, SetTest, Test, fiberVars, storage
<1>2. Fiber!OneRunner'
  BY <1>0, <1>1 DEF Fiber!OneRunner
<1>3. ASSUME NEW r \in Int, Fail(t, r)
      PROVE  TypeOK' /\ NotStale'
  BY <1>0, <1>1, <1>3 DEF TypeOK, NotStale, Fail
<1>4. ASSUME NEW call \in {"alloc", "free", "get", "set"},
             NEW i \in Index, NEW v \in Value,
             Proceed(t, call, i, v),
             run[t] # NoFiber,
             call = "alloc" <=> i \notin fls_bitmap[run[t]]
      PROVE  TypeOK' /\ NotStale'
  <2>1. TypeOK'
    BY <1>0, <1>1, <1>4 DEF TypeOK, Proceed, Index
  <2>2. NotStale'
    BY <1>0, <1>1, <1>4 DEF TypeOK, NotStale, Proceed
  <2> QED  BY <2>1, <2>2
<1>5. ASSUME AllocFind(t)
      PROVE  TypeOK' /\ NotStale'
  <2>1. CASE Fail(t, -1)
    BY <1>3, <2>1
  <2>2. CASE /\ run[t] # NoFiber
             /\ FindFirstZeroBit(run[t]) # MAX_FLS_POINTERS
             /\ Proceed(t, "alloc", FindFirstZeroBit(run[t]), 0)
    <3> DEFINE i == FindFirstZeroBit(run[t])
    <3>1. run[t] \in FiberId
      BY <1>0, <2>2 DEF TypeOK
    <3>2. i \in Index /\ i \notin fls_bitmap[run[t]]
      BY <2>2, <3>1, FirstZeroBit
    <3> QED  BY <1>4, <2>2, <3>2
  <2> QED  BY <1>5, <2>1, <2>2 DEF AllocFind
<1>6. ASSUME NEW call \in {"free", "get", "set"}, NEW i \in -1..MAX_FLS_POINTERS,
             NEW v \in Value, NEW r \in Int, Test(t, call, i, v, r)
      PROVE  TypeOK' /\ NotStale'
  <2>1. CASE Fail(t, r)
    BY <1>3, <2>1
  <2>2. CASE run[t] # NoFiber /\ TestBit(run[t], i) /\ Proceed(t, call, i, v)
    BY <1>4, <2>2 DEF TestBit
  <2> QED  BY <1>6, <2>1, <2>2 DEF Test
<1>7. ret[t] \in Int
  BY <1>0 DEF TypeOK
<1> QED  BY <1>2, <1>5, <1>6, <1>7 DEF FlsInv, FreeTest, GetTest, SetTest

\* The second half of a call changes only the storage of the fiber its thread
\* runs, which no other thread's call is looking at.
LEMMA UseInv ==
  ASSUME FlsInv, NEW t \in Thread,
         AllocChange(t) \/ FreeChange(t) \/ GetRead(t) \/ SetWrite(t)
  PROVE  FlsInv'
<1> USE FlsAssumption
<1>0. TypeOK /\ Fiber!OneRunner /\ NotStale /\ pc[t] # "user"
  BY DEF FlsInv, AllocChange, FreeChange, GetRead, SetWrite
<1>1. run[t] \in FiberId /\ index[t] \in Index
  BY <1>0 DEF TypeOK, NotStale
<1>2. UNCHANGED <<run, fibs>>
  BY DEF AllocChange, FreeChange, GetRead, SetWrite, fiberVars
<1>3. /\ pc' = [pc EXCEPT ![t] = "user"]
      /\ index' = [index EXCEPT ![t] = 0]
      /\ value' = [value EXCEPT ![t] = 0]
      /\ \E r \in Int : ret' = [ret EXCEPT ![t] = r]
  <2>1. index[t] \in Int /\ fls[run[t]][index[t]] \in Int /\ ret[t] \in Int
    <3>1. fls[run[t]][index[t]] \in Value
      BY <1>0, <1>1 DEF TypeOK
    <3>2. fls[run[t]][index[t]] \in Int
      BY <3>1
    <3>3. index[t] \in Int /\ ret[t] \in Int
      BY <1>0, <1>1 DEF TypeOK, Index
    <3> QED  BY <3>2, <3>3
  <2> QED  BY <2>1 DEF AllocChange, FreeChange, GetRead, SetWrite, Done
<1>4. /\ fls' \in [FiberId -> [Index -> Value]]
      /\ fls_bitmap' \in [FiberId -> SUBSET Index]
      /\ \A f \in FiberId : f # run[t] => fls_bitmap'[f] = fls_bitmap[f]
  <2>1. CASE AllocChange(t) \/ FreeChange(t)
    BY <1>0, <1>1, <2>1 DEF TypeOK, AllocChange, FreeChange, ChangeBit
  <2>2. CASE GetRead(t)
    BY <1>0, <2>2 DEF TypeOK, GetRead, storage
  <2>3. CASE SetWrite(t)
    BY <1>0, <1>1, <2>3 DEF TypeOK, SetWrite
  <2> QED  BY <2>1, <2>2, <2>3
<1>5. TypeOK'
  BY <1>0, <1>2, <1>3, <1>4 DEF TypeOK
<1>6. Fiber!OneRunner'
  BY <1>0, <1>2 DEF Fiber!OneRunner
<1>7. NotStale'
  <2> SUFFICES ASSUME NEW u \in Thread, pc'[u] # "user"
               PROVE  /\ run[u] # NoFiber
                      /\ index'[u] \in Index
                      /\ pc'[u] = "alloc" <=> index'[u] \notin fls_bitmap'[run[u]]
    BY <1>2 DEF NotStale
  <2>1. u # t /\ pc'[u] = pc[u] /\ index'[u] = index[u]
    BY <1>0, <1>3 DEF TypeOK
  <2>2. run[u] # NoFiber /\ run[u] # run[t]
    BY <1>0, <1>1, <2>1 DEF NotStale, Fiber!OneRunner
  <2>3. fls_bitmap'[run[u]] = fls_bitmap[run[u]]
    BY <1>0, <1>4, <2>2 DEF TypeOK
  <2> QED  BY <1>0, <2>1, <2>2, <2>3 DEF NotStale
<1> QED  BY <1>5, <1>6, <1>7 DEF FlsInv

\* Every step keeps the invariant.
LEMMA FlsStep == FlsInv /\ [Next]_vars => FlsInv'
<1> SUFFICES ASSUME FlsInv, [Next]_vars PROVE FlsInv'  OBVIOUS
<1>1. CASE UNCHANGED vars
  BY <1>1 DEF FlsInv, TypeOK, NotStale, Fiber!OneRunner, vars, fiberVars,
              storage, calls
<1>2. CASE Next
  <2>1. PICK t \in Thread :
          \/ MoveFibers(t)
          \/ AllocFind(t)
          \/ AllocChange(t) \/ FreeChange(t) \/ GetRead(t) \/ SetWrite(t)
          \/ \E i \in -1..MAX_FLS_POINTERS :
               \/ FreeTest(t, i) \/ GetTest(t, i)
               \/ \E v \in Value : SetTest(t, i, v)
    BY <1>2, Zenon DEF Next
  <2> QED  BY <2>1, MoveInv, TestInv, UseInv
<1> QED  BY <1>1, <1>2

\* Fibers change hands: no map changes but the one of a fiber that is
\* created, which starts empty.
LEMMA MoveRefines ==
  ASSUME FlsInv, NEW t \in Thread, MoveFibers(t)
  PROVE  Promise!Move
<1> USE FlsAssumption
<1> DEFINE idle == {f \in FiberId : \A u \in Thread : run[u] # f}
           Emptied(new) ==
             [f \in FiberId |-> IF f \in new THEN Promise!Empty ELSE Store[f]]
<1>0. TypeOK /\ Fiber!OneRunner
  BY DEF FlsInv
<1>1. ret' = ret
  BY DEF MoveFibers, calls
<1>2. run' \in [Thread -> FiberId \cup {NoFiber}]
  BY MoveInv DEF FlsInv, TypeOK
<1>3. \E new \in SUBSET idle : Store' = Emptied(new)
  <2>1. ASSUME NEW g \in FiberId, Convert(t, g) \/ Create(t, g)
        PROVE  \E new \in SUBSET idle : Store' = Emptied(new)
    <3>1. g \notin fibs /\ InitFls(g)
      BY <2>1 DEF Convert, Create, Fiber!Convert, Fiber!Create
    <3>2. {g} \in SUBSET idle
      BY <1>0, <3>1 DEF TypeOK, Fiber!OneRunner
    <3>3. ASSUME NEW f \in FiberId, f # g
          PROVE  fls'[f] = fls[f] /\ fls_bitmap'[f] = fls_bitmap[f]
      BY <1>0, <3>1, <3>3 DEF TypeOK, InitFls
    <3>4. fls_bitmap'[g] = {}
      BY <1>0, <3>1 DEF TypeOK, InitFls
    <3>5. [i \in fls_bitmap'[g] |-> fls'[g][i]] = Promise!Empty
      BY <3>4 DEF Promise!Empty
    <3>6. Store' = Emptied({g})
      BY <3>3, <3>5 DEF Store
    <3> QED  BY <3>2, <3>6
  <2>2. ASSUME UNCHANGED storage
        PROVE  \E new \in SUBSET idle : Store' = Emptied(new)
    <3>1. Store' = Emptied({})
      BY <2>2 DEF Store, storage
    <3>2. {} \in SUBSET idle
      OBVIOUS
    <3> QED  BY <3>1, <3>2, Zenon
  <2> QED  BY <2>1, <2>2 DEF MoveFibers, Switch, Exit
<1> QED  BY <1>1, <1>2, <1>3 DEF Promise!Move

\* A call that fails its test is the operation of FlsSpec that fails, and one
\* that passes has not taken place yet.
LEMMA TestRefines ==
  ASSUME FlsInv, NEW t \in Thread,
         \/ AllocFind(t)
         \/ \E i \in -1..MAX_FLS_POINTERS :
              \/ FreeTest(t, i) \/ GetTest(t, i)
              \/ \E v \in Value : SetTest(t, i, v)
  PROVE  [Promise!Next]_(Promise!vars)
<1> USE FlsAssumption
<1>0. TypeOK
  BY DEF FlsInv
<1>1. run' = run /\ Store' = Store
  BY DEF AllocFind, FreeTest, GetTest, SetTest, Test, fiberVars, storage, Store
<1>2. ASSUME ret' = ret  PROVE UNCHANGED Promise!vars
  BY <1>1, <1>2 DEF Promise!vars
<1>3. ASSUME NEW r, r \in {-1, 0, ret[t]}, Fail(t, r), run[t] = NoFiber
      PROVE  Promise!Refused(t)
  BY <1>1, <1>3 DEF Fail, Promise!Refused, Promise!Returns
<1>4. ASSUME run[t] # NoFiber
      PROVE  run[t] \in FiberId /\ DOMAIN Store[run[t]] = fls_bitmap[run[t]]
  BY <1>0, <1>4 DEF TypeOK, Store
<1>5. CASE AllocFind(t)
  <2>1. CASE run[t] = NoFiber /\ Fail(t, -1)
    BY <1>3, <2>1 DEF Promise!Next
  <2>2. CASE run[t] # NoFiber /\ FindFirstZeroBit(run[t]) = MAX_FLS_POINTERS
             /\ Fail(t, -1)
    <3>1. Promise!Index \ DOMAIN Store[run[t]] = {}
      BY <1>4, <2>2, FirstZeroBit DEF Promise!Index, Index
    <3>2. Promise!FlsAlloc(t)
      BY <1>1, <2>2, <3>1 DEF Fail, Promise!FlsAlloc, Promise!Returns
    <3> QED  BY <3>2 DEF Promise!Next
  <2>3. CASE \E i : Proceed(t, "alloc", i, 0)
    BY <1>2, <2>3 DEF Proceed
  <2> QED  BY <1>5, <2>1, <2>2, <2>3 DEF AllocFind
<1>6. ASSUME NEW i \in -1..MAX_FLS_POINTERS, run[t] # NoFiber, ~TestBit(run[t], i)
      PROVE  i \notin DOMAIN Store[run[t]]
  BY <1>0, <1>4, <1>6 DEF TypeOK, TestBit
<1>7. ASSUME NEW i \in -1..MAX_FLS_POINTERS, FreeTest(t, i)
      PROVE  [Promise!Next]_(Promise!vars)
  <2>1. CASE run[t] = NoFiber /\ Fail(t, 0)
    BY <1>3, <2>1 DEF Promise!Next
  <2>2. CASE run[t] # NoFiber /\ ~TestBit(run[t], i) /\ Fail(t, 0)
    <3>1. i \notin DOMAIN Store[run[t]] /\ run[t] \in FiberId
      BY <1>4, <1>6, <2>2
    <3> DEFINE m == [j \in DOMAIN Store[run[t]] \ {i} |-> Store[run[t]][j]]
    <3>2. Store = [Store EXCEPT ![run[t]] = m]
      <4>1. Store[run[t]] = [j \in fls_bitmap[run[t]] |-> fls[run[t]][j]]
        BY <3>1 DEF Store
      <4>2. DOMAIN Store[run[t]] \ {i} = fls_bitmap[run[t]]
        BY <1>4, <2>2, <3>1
      <4>3. m = Store[run[t]]
        BY <4>1, <4>2
      <4> QED  BY <4>3 DEF Store
    <3>3. Promise!FlsFree(t, i)
      BY <1>1, <2>2, <3>1, <3>2 DEF Fail, Promise!FlsFree, Promise!Returns
    <3> QED  BY <3>3 DEF Promise!Next
  <2>3. CASE Proceed(t, "free", i, 0)
    BY <1>2, <2>3 DEF Proceed
  <2> QED  BY <1>7, <2>1, <2>2, <2>3 DEF FreeTest, Test
<1>8. ASSUME NEW i \in -1..MAX_FLS_POINTERS, GetTest(t, i)
      PROVE  [Promise!Next]_(Promise!vars)
  <2>1. CASE run[t] = NoFiber /\ Fail(t, -1)
    BY <1>3, <2>1 DEF Promise!Next
  <2>2. CASE run[t] # NoFiber /\ ~TestBit(run[t], i) /\ Fail(t, -1)
    <3>1. Promise!FlsGetValue(t, i)
      BY <1>1, <1>6, <2>2 DEF Fail, Promise!FlsGetValue, Promise!Returns
    <3> QED  BY <3>1 DEF Promise!Next
  <2>3. CASE Proceed(t, "get", i, 0)
    BY <1>2, <2>3 DEF Proceed
  <2> QED  BY <1>8, <2>1, <2>2, <2>3 DEF GetTest, Test
<1>9. ASSUME NEW i \in -1..MAX_FLS_POINTERS, NEW v \in Value, SetTest(t, i, v)
      PROVE  [Promise!Next]_(Promise!vars)
  <2>1. CASE Fail(t, ret[t])
    <3>1. ret' = ret
      BY <1>0, <2>1 DEF TypeOK, Fail
    <3> QED  BY <1>2, <3>1
  <2>2. CASE Proceed(t, "set", i, v)
    BY <1>2, <2>2 DEF Proceed
  <2> QED  BY <1>9, <2>1, <2>2 DEF SetTest, Test
<1> QED  BY <1>5, <1>7, <1>8, <1>9

\* The second half of a call is the operation of FlsSpec.
LEMMA UseRefines ==
  ASSUME FlsInv, NEW t \in Thread,
         AllocChange(t) \/ FreeChange(t) \/ GetRead(t) \/ SetWrite(t)
  PROVE  Promise!Next
<1> USE FlsAssumption
<1> DEFINE f == run[t]
           i == index[t]
<1>0. TypeOK /\ NotStale /\ pc[t] # "user"
  BY DEF FlsInv, AllocChange, FreeChange, GetRead, SetWrite
<1>1. /\ f \in FiberId /\ f # NoFiber /\ i \in Index
      /\ i \in -1..MAX_FLS_POINTERS
      /\ pc[t] = "alloc" <=> i \notin fls_bitmap[f]
      /\ run' = run
  BY <1>0 DEF TypeOK, NotStale, Index, AllocChange, FreeChange, GetRead,
              SetWrite, fiberVars
<1>2. /\ DOMAIN Store[f] = fls_bitmap[f]
      /\ \A j \in fls_bitmap[f] : Store[f][j] = fls[f][j]
  BY <1>1 DEF Store
<1>3. ASSUME NEW m, fls_bitmap' = [fls_bitmap EXCEPT ![f] = fls_bitmap'[f]],
             \A g \in FiberId : g # f => fls'[g] = fls[g],
             m = [j \in fls_bitmap'[f] |-> fls'[f][j]]
      PROVE  Store' = [Store EXCEPT ![f] = m]
  BY <1>0, <1>1, <1>3 DEF TypeOK, Store
<1>4. CASE AllocChange(t)
  <2> DEFINE m == [j \in DOMAIN Store[f] \cup {i} |->
                     IF j = i THEN fls[f][i] ELSE Store[f][j]]
  <2>1. pc[t] = "alloc" /\ fls' = fls /\ i \notin fls_bitmap[f]
    BY <1>1, <1>4 DEF AllocChange
  <2>2. fls_bitmap' = [fls_bitmap EXCEPT ![f] = fls_bitmap[f] \cup {i}]
    BY <1>0, <1>1, <1>4, <2>1 DEF TypeOK, AllocChange, ChangeBit
  <2>3. fls_bitmap'[f] = fls_bitmap[f] \cup {i}
    BY <1>0, <1>1, <2>2 DEF TypeOK
  <2>4. m = [j \in fls_bitmap'[f] |-> fls'[f][j]]
    BY <1>2, <2>1, <2>3
  <2>5. Store' = [Store EXCEPT ![f] = m]
    BY <1>3, <2>1, <2>2, <2>3, <2>4
  <2>6. fls[f][i] \in Value /\ i \in Promise!Index \ DOMAIN Store[f]
    BY <1>0, <1>1, <1>2, <2>1 DEF TypeOK, Promise!Index, Index
  <2>7. Promise!FlsAlloc(t)
    BY <1>1, <1>4, <2>5, <2>6 DEF AllocChange, Done, Promise!FlsAlloc,
                                  Promise!Returns
  <2> QED  BY <2>7 DEF Promise!Next
<1>5. CASE FreeChange(t)
  <2> DEFINE m == [j \in DOMAIN Store[f] \ {i} |-> Store[f][j]]
  <2>1. pc[t] = "free" /\ fls' = fls /\ i \in fls_bitmap[f]
    BY <1>1, <1>5 DEF FreeChange
  <2>2. fls_bitmap' = [fls_bitmap EXCEPT ![f] = fls_bitmap[f] \ {i}]
    BY <1>0, <1>1, <1>5, <2>1 DEF TypeOK, FreeChange, ChangeBit
  <2>3. fls_bitmap'[f] = fls_bitmap[f] \ {i}
    BY <1>0, <1>1, <2>2 DEF TypeOK
  <2>4. m = [j \in fls_bitmap'[f] |-> fls'[f][j]]
    BY <1>2, <2>1, <2>3
  <2>5. Store' = [Store EXCEPT ![f] = m]
    BY <1>3, <2>1, <2>2, <2>3, <2>4
  <2>6. Promise!FlsFree(t, i)
    BY <1>1, <1>2, <1>5, <2>1, <2>5 DEF FreeChange, Done, Promise!FlsFree,
                                        Promise!Returns
  <2> QED  BY <1>1, <2>6 DEF Promise!Next
<1>6. CASE GetRead(t)
  <2>1. i \in fls_bitmap[f] /\ Store' = Store
    BY <1>1, <1>6 DEF GetRead, Store, storage
  <2>2. Promise!FlsGetValue(t, i)
    BY <1>1, <1>2, <1>6, <2>1 DEF GetRead, Done, Promise!FlsGetValue,
                                  Promise!Returns
  <2> QED  BY <1>1, <2>2 DEF Promise!Next
<1>7. CASE SetWrite(t)
  <2> DEFINE m == [j \in DOMAIN Store[f] |->
                     IF j = i THEN value[t] ELSE Store[f][j]]
  <2>1. i \in fls_bitmap[f] /\ fls_bitmap' = fls_bitmap
    BY <1>1, <1>7 DEF SetWrite
  <2>2. fls' = [fls EXCEPT ![f][i] = value[t]]
    BY <1>7 DEF SetWrite
  <2>3. /\ \A g \in FiberId : g # f => fls'[g] = fls[g]
        /\ \A j \in Index : fls'[f][j] = IF j = i THEN value[t] ELSE fls[f][j]
    BY <1>0, <1>1, <2>2 DEF TypeOK
  <2>4. fls_bitmap[f] \subseteq Index
    BY <1>0, <1>1 DEF TypeOK
  <2>5. m = [j \in fls_bitmap'[f] |-> fls'[f][j]]
    BY <1>2, <2>1, <2>3, <2>4
  <2>6. fls_bitmap' = [fls_bitmap EXCEPT ![f] = fls_bitmap'[f]]
    BY <1>0, <2>1 DEF TypeOK
  <2>7. Store' = [Store EXCEPT ![f] = m]
    BY <1>3, <2>3, <2>5, <2>6
  <2>8. ret' = ret /\ value[t] \in Value
    BY <1>0, <1>7 DEF TypeOK, SetWrite, Done
  <2>9. Promise!FlsSetValue(t, i, value[t])
    BY <1>1, <2>7, <2>8 DEF Promise!FlsSetValue
  <2> QED  BY <1>1, <2>8, <2>9 DEF Promise!Next
<1> QED  BY <1>4, <1>5, <1>6, <1>7

\* The initial state is one of FlsSpec's.
LEMMA InitRefines == Init => Promise!Init
<1> SUFFICES ASSUME Init PROVE Promise!Init  OBVIOUS
<1>1. \A f \in FiberId : [i \in fls_bitmap[f] |-> fls[f][i]] = Promise!Empty
  BY DEF Init, Promise!Empty
<1>2. Store = [f \in FiberId |-> Promise!Empty]
  BY <1>1 DEF Store
<1> QED  BY <1>2 DEF Init, Fiber!Init, Promise!Init

\* Every step is a step of FlsSpec or changes nothing it sees.
LEMMA StepRefines ==
  FlsInv /\ [Next]_vars => [Promise!Next]_(Promise!vars)
<1> SUFFICES ASSUME FlsInv, [Next]_vars
             PROVE  [Promise!Next]_(Promise!vars)
  OBVIOUS
<1>1. CASE UNCHANGED vars
  <2>1. run' = run /\ Store' = Store /\ ret' = ret
    BY <1>1 DEF vars, fiberVars, storage, calls, Store
  <2> QED  BY <2>1 DEF Promise!vars
<1>2. CASE Next
  <2>1. PICK t \in Thread :
          \/ MoveFibers(t)
          \/ AllocFind(t)
          \/ AllocChange(t) \/ FreeChange(t) \/ GetRead(t) \/ SetWrite(t)
          \/ \E i \in -1..MAX_FLS_POINTERS :
               \/ FreeTest(t, i) \/ GetTest(t, i)
               \/ \E v \in Value : SetTest(t, i, v)
    BY <1>2, Zenon DEF Next
  <2>2. CASE MoveFibers(t)
    BY <2>2, MoveRefines DEF Promise!Next
  <2> QED  BY <2>1, <2>2, TestRefines, UseRefines
<1> QED  BY <1>1, <1>2

\* Whatever the number of threads and fibers, the bit a call of the storage
\* has tested does not change before the call uses the index.
THEOREM BitsNotStale == Spec => []NotStale
<1>1. Spec => []FlsInv
  BY FlsInit, FlsStep, PTL DEF Spec
<1>2. FlsInv => NotStale
  BY DEF FlsInv
<1> QED  BY <1>1, <1>2, PTL

\* Fiber-local storage is a map per fiber with atomic operations, whatever the
\* number of threads, fibers and slots.
THEOREM StorageIsMap == Spec => ImplementsFlsSpec
<1>1. Spec => []FlsInv
  BY FlsInit, FlsStep, PTL DEF Spec
<1> QED  BY <1>1, InitRefines, StepRefines, PTL DEF Spec, ImplementsFlsSpec,
                                                Promise!Spec

=============================================================================
