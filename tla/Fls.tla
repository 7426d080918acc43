-------------------------------- MODULE Fls ---------------------------------
(***************************************************************************)
(* Fiber-local storage: do_FlsAlloc, do_FlsFree, do_FlsGetValue and        *)
(* do_FlsSetValue of module/fibers.c, on the array fls and the bitmap      *)
(* fls_bitmap of each struct fiber.  No lock protects them: the module     *)
(* relies on a fiber being run by one thread at a time.  Which thread runs *)
(* which fiber is taken from FiberSpec, which Fibers implements.           *)
(*                                                                         *)
(* Every call is cut between its look at the bitmap and its use of the     *)
(* index, the two accesses to the fiber's memory that it makes.            *)
(***************************************************************************)
EXTENDS Integers

CONSTANTS
  Thread, FiberId, NoFiber,
  MAX_FLS_POINTERS,  \* bound: 4096 in the code
  Value              \* the values clients store

ASSUME FlsAssumption ==
  /\ NoFiber \notin FiberId
  /\ MAX_FLS_POINTERS \in Nat
  /\ Value \subseteq Int
  /\ 0 \in Value

Index == 0..(MAX_FLS_POINTERS - 1)

VARIABLES
  run, fibs, ctx,  \* the fibers, as in FiberSpec
  fls,             \* fiber->fls
  fls_bitmap,      \* fiber->fls_bitmap: the bits that are set
  pc,              \* "user", or the call that has passed its test
  index,           \* the index that call uses
  value,           \* the value FlsSetValue was given
  ret              \* what the thread's last call returned

fiberVars == <<run, fibs, ctx>>
storage   == <<fls, fls_bitmap>>
calls     == <<pc, index, value, ret>>
vars      == <<fiberVars, storage, calls>>

Fiber == INSTANCE FiberSpec WITH Phases <- 0

Init ==
  /\ Fiber!Init
  /\ fls = [f \in FiberId |-> [i \in Index |-> 0]]
  /\ fls_bitmap = [f \in FiberId |-> {}]
  /\ pc = [t \in Thread |-> "user"]
  /\ index = [t \in Thread |-> 0]
  /\ value = [t \in Thread |-> 0]
  /\ ret = [t \in Thread |-> 0]

-----------------------------------------------------------------------------

\* Part of init_fiber: memset(fls) and bitmap_zero.
InitFls(f) ==
  /\ fls' = [fls EXCEPT ![f] = [i \in Index |-> 0]]
  /\ fls_bitmap' = [fls_bitmap EXCEPT ![f] = {}]

\* The calls of Fibers, which a thread makes between its calls here.
Convert(t, f) == Fiber!Convert(t, f) /\ InitFls(f)
Create(t, f)  == Fiber!Create(t, f) /\ InitFls(f)
Switch(t, f)  == Fiber!Switch(t, f) /\ UNCHANGED storage
Exit(t)       == (Fiber!Release(t) \/ Fiber!CleanUp(t)) /\ UNCHANGED storage

MoveFibers(t) ==
  /\ pc[t] = "user"
  /\ \/ \E f \in FiberId : Convert(t, f) \/ Create(t, f) \/ Switch(t, f)
     \/ Exit(t)
  /\ UNCHANGED calls

-----------------------------------------------------------------------------

\* find_first_zero_bit(f->fls_bitmap, MAX_FLS_POINTERS)
FindFirstZeroBit(f) ==
  LET zero == (Index \ fls_bitmap[f]) \cup {MAX_FLS_POINTERS}
  IN  CHOOSE i \in zero : \A j \in zero : i <= j

\* index >= MAX_FLS_POINTERS || index < 0, then test_bit.
TestRangeOnly(f, i) == i \in Index
TestBit(f, i) == i \in Index /\ i \in fls_bitmap[f]

ChangeBit(f, i) ==
  fls_bitmap' = [fls_bitmap EXCEPT ![f] = IF i \in @ THEN @ \ {i}
                                                     ELSE @ \cup {i}]

Fail(t, r) ==
  /\ ret' = [ret EXCEPT ![t] = r]
  /\ UNCHANGED <<pc, index, value>>

Proceed(t, call, i, v) ==
  /\ pc' = [pc EXCEPT ![t] = call]
  /\ index' = [index EXCEPT ![t] = i]
  /\ value' = [value EXCEPT ![t] = v]
  /\ UNCHANGED ret

\* The call ends; its local variables die with it.
Done(t, r) ==
  /\ pc' = [pc EXCEPT ![t] = "user"]
  /\ index' = [index EXCEPT ![t] = 0]
  /\ value' = [value EXCEPT ![t] = 0]
  /\ ret' = [ret EXCEPT ![t] = r]

-----------------------------------------------------------------------------

AllocFind(t) ==
  /\ pc[t] = "user"
  /\ \/ run[t] = NoFiber /\ Fail(t, -1)
     \/ /\ run[t] # NoFiber
        /\ LET i == FindFirstZeroBit(run[t])
           IN  \/ i = MAX_FLS_POINTERS /\ Fail(t, -1)
               \/ i # MAX_FLS_POINTERS /\ Proceed(t, "alloc", i, 0)
  /\ UNCHANGED <<fiberVars, storage>>

AllocChange(t) ==
  /\ pc[t] = "alloc"
  /\ ChangeBit(run[t], index[t])
  /\ Done(t, index[t])
  /\ UNCHANGED <<fiberVars, fls>>

\* The tests of free, get and set, which differ in what failure returns: r.
Test(t, call, i, v, r) ==
  /\ pc[t] = "user"
  /\ \/ run[t] = NoFiber /\ Fail(t, r)
     \/ run[t] # NoFiber /\ ~TestBit(run[t], i) /\ Fail(t, r)
     \/ run[t] # NoFiber /\ TestBit(run[t], i) /\ Proceed(t, call, i, v)
  /\ UNCHANGED <<fiberVars, storage>>

FreeTest(t, i) == Test(t, "free", i, 0, 0)

FreeChange(t) ==
  /\ pc[t] = "free"
  /\ ChangeBit(run[t], index[t])
  /\ Done(t, 1)
  /\ UNCHANGED <<fiberVars, fls>>

GetTest(t, i) == Test(t, "get", i, 0, -1)

GetRead(t) ==
  /\ pc[t] = "get"
  /\ Done(t, fls[run[t]][index[t]])
  /\ UNCHANGED <<fiberVars, storage>>

\* FlsSetValue returns nothing.
SetTest(t, i, v) == Test(t, "set", i, v, ret[t])

SetWrite(t) ==
  /\ pc[t] = "set"
  /\ fls' = [fls EXCEPT ![run[t]][index[t]] = value[t]]
  /\ Done(t, ret[t])
  /\ UNCHANGED <<fiberVars, fls_bitmap>>

\* Clients pass any index, in range or not.
Next == \E t \in Thread :
  \/ MoveFibers(t)
  \/ AllocFind(t) \/ AllocChange(t)
  \/ FreeChange(t) \/ GetRead(t) \/ SetWrite(t)
  \/ \E i \in -1..MAX_FLS_POINTERS :
       \/ FreeTest(t, i) \/ GetTest(t, i)
       \/ \E v \in Value : SetTest(t, i, v)

Spec == Init /\ [][Next]_vars

-----------------------------------------------------------------------------

TypeOK ==
  /\ run \in [Thread -> FiberId \cup {NoFiber}]
  /\ fibs \subseteq FiberId
  /\ fls \in [FiberId -> [Index -> Value]]
  /\ fls_bitmap \in [FiberId -> SUBSET Index]
  /\ pc \in [Thread -> {"user", "alloc", "free", "get", "set"}]
  /\ index \in [Thread -> -1..MAX_FLS_POINTERS]
  /\ value \in [Thread -> Value]
  /\ ret \in [Thread -> Int]

\* What a call has seen of the bitmap still holds when it uses the index:
\* no other thread changes the bitmap between test_bit (or
\* find_first_zero_bit) and the access that follows.
NotStale ==
  \A t \in Thread : pc[t] # "user" =>
    /\ run[t] # NoFiber
    /\ index[t] \in Index
    /\ pc[t] = "alloc" <=> index[t] \notin fls_bitmap[run[t]]

\* The map of a fiber: its allocated indices and what they hold.
Store == [f \in FiberId |-> [i \in fls_bitmap[f] |-> fls[f][i]]]

Promise == INSTANCE FlsSpec WITH store <- Store

\* Every call is one operation on the map of the calling fiber and touches no
\* other fiber's: an index is never given out twice, alloc fails only when all
\* are in use, free succeeds exactly on allocated indices, and get returns
\* what this fiber last set.
ImplementsFlsSpec == Promise!Spec

=============================================================================
