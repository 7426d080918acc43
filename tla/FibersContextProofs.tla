------------------------ MODULE FibersContextProofs -------------------------
(***************************************************************************)
(* Proofs about contexts, for the clients that join their threads in Main  *)
(* and use only the ids they were given: ContextInv is inductive, relative *)
(* to the invariants of FibersProofs and FibersExitProofs, and with it     *)
(* every step is a step of FiberSpec or changes nothing that FiberSpec     *)
(* sees.                                                                   *)
(***************************************************************************)
EXTENDS FibersExitProofs

(***************************************************************************)
(* What the lower invariants say of such clients                           *)
(***************************************************************************)

\* Everything the proofs below build on.
ClientInv == BaseInv /\ LockInv /\ AttachInv /\ ExitInv /\ JoinedInv

\* A thread in the middle of a call or an exit has its struct thread, and the
\* device is open while anybody is in a call.
LEMMA StepsLive ==
  ASSUME ClientInv, NEW t \in Thread
  PROVE  /\ ep[t] # "freed"
         /\ pc[t] \in ThreadSteps => t \in threads /\ ep[t] = "live"
         /\ pc[t] \in IoctlSteps => open
         /\ t \in threads => open
<1>1. ep[t] # "freed" /\ (pc[t] \in IoctlSteps => open)
  BY DEF ClientInv, JoinedInv
<1>2. pc[t] \in ThreadSteps => t \in threads /\ ep[t] = "live"
  BY <1>1 DEF ClientInv, BaseInv, PointersOK, ThreadSteps, SwitchSteps, TypeOK,
       TypeLocals
<1>3. t \in threads => open
  BY DEF ClientInv, BaseInv, PointersOK, JoinedInv
<1> QED
  BY <1>1, <1>2, <1>3

\* A thread whose fiber is in memory owns that fiber.
LEMMA InMemoryOwned ==
  ASSUME ClientInv, NEW t \in Thread, NEW f \in FiberId, InMemory(t, f)
  PROVE  Owns(t, f)
<1>1. t \in threads
  BY StepsLive DEF InMemory, ThreadSteps, SwitchSteps
<1>2. Attaches(t)
  BY <1>1 DEF ClientInv, AttachInv
<1> QED
  BY <1>1, <1>2 DEF InMemory, Attaches, Owns, SwitchSteps

\* A thread that has a fiber on its CPU owns it, unless it is Main, alone.
LEMMA OnCpuOwned ==
  ASSUME ClientInv, NEW t \in Thread, NEW f \in FiberId, OnCpu(t, f)
  PROVE  Owns(t, f) \/ (Final(t) /\ \A u \in Thread \ {t} : Dead(u))
<1>1. CASE Final(t)
  BY <1>1 DEF ClientInv, JoinedInv, Final, Leaving, ExitSteps
<1>2. CASE ~Final(t)
  BY <1>2, StepsLive DEF OnCpu, Owns, Final, Leaving, Unconverted, ThreadSteps,
       SwitchSteps
<1> QED
  BY <1>1, <1>2

\* A fiber is on one CPU, and not on a CPU while it is in memory with another
\* thread.
LEMMA OneCpu ==
  ASSUME ClientInv, NEW t \in Thread, NEW u \in Thread, NEW f \in FiberId,
         OnCpu(t, f), OnCpu(u, f) \/ InMemory(u, f) \/ Owns(u, f)
  PROVE  t = u
<1>1. Owns(u, f) \/ (Final(u) /\ \A v \in Thread \ {u} : Dead(v))
  BY OnCpuOwned, InMemoryOwned
<1>2. Owns(t, f) \/ (Final(t) /\ \A v \in Thread \ {t} : Dead(v))
  BY OnCpuOwned
<1>3. Owns(t, f) => t \in threads
  BY DEF Owns
<1>4. Owns(u, f) => u \in threads
  BY DEF Owns
<1>5. \A v \in Thread : Dead(v) => v \notin threads /\ ~Final(v)
  BY DEF ClientInv, ExitInv, Gone, Dead, Final, Leaving
<1>6. Owns(t, f) /\ Owns(u, f) => t = u
  BY DEF ClientInv, LockInv, OneOwner
<1> QED
  BY <1>1, <1>2, <1>3, <1>4, <1>5, <1>6

-----------------------------------------------------------------------------
(***************************************************************************)
(* Every step keeps ContextInv                                             *)
(***************************************************************************)

\* A step that moves no context keeps ContextInv, if nothing comes to depend on
\* a context that it did not depend on before.
LEMMA QuietContext ==
  ASSUME ContextInv, UNCHANGED <<open, known, gp, fp, body, phase, regs, fpu>>,
         \A u \in Thread : open /\ Unconverted(u)' => Unconverted(u),
         \A u \in Thread, g \in FiberId : OnCpu(u, g)' => OnCpu(u, g),
         \A g \in known : ~lock'[g] \/ (\E u \in Thread : InMemory(u, g)')
                          => ~lock[g] \/ (\E u \in Thread : InMemory(u, g)),
         Built'
  PROVE  ContextInv'
<1> USE DEF ContextInv, Loaded, Saved, Whole
<1>1. OwnCode'
  BY DEF OwnCode
<1>2. Bodies'
  BY DEF Bodies
<1>3. Running'
  BY DEF Running
<1>4. Stored'
  BY DEF Stored
<1> QED
  BY <1>1, <1>2, <1>3, <1>4

\* When the process has been freed and nobody can make a new one, no context
\* matters any more.
LEMMA GoneContext ==
  ASSUME known' = {}, threads' = {}, \A u \in Thread : pc'[u] \in {"user", "dead"},
         open' => \A u \in Thread : pc'[u] = "dead"
  PROVE  ContextInv'
BY DEF ContextInv, OwnCode, Bodies, Built, Running, Stored, OnCpu, Unconverted

\* The fields of a whole context.
LEMMA WholeFields ==
  ASSUME NEW g, NEW h, NEW c, Whole(g, h, c)
  PROVE  g.code = c /\ g.stack = c /\ g.phase = phase[c]
BY DEF Whole

\* The context with which CreateFiber lets a fiber start.
LEMMA EntryContext ==
  ASSUME NEW r \in GpContext, NEW c
  PROVE  [r EXCEPT !.code = c, !.phase = 0]
           = [code |-> c, stack |-> r.stack, phase |-> 0]
<1>1. PICK s : s = [r EXCEPT !.code = c]
  OBVIOUS
<1>2. s = [code |-> c, stack |-> r.stack, phase |-> r.phase]
  BY <1>1 DEF GpContext
<1>3. [r EXCEPT !.code = c, !.phase = 0] = [s EXCEPT !.phase = 0]
  BY <1>1 DEF GpContext
<1> QED
  BY <1>2, <1>3

\* Returned fibers are not affected by what happens to the context, the code and
\* the phase of a fiber under construction.
LEMMA NewFiberContext ==
  ASSUME ClientInv, ContextInv, NEW f \in FiberId, f \notin known,
         UNCHANGED <<open, known, gp, fp>>,
         \A g \in known : UNCHANGED <<body[g], regs[g], fpu[g], lock[g]>>,
         \A c \in Code \ {f} : phase'[c] = phase[c],
         \A u \in Thread : open /\ Unconverted(u)' => Unconverted(u),
         \A u \in Thread, g \in FiberId : OnCpu(u, g)' => OnCpu(u, g),
         \A u \in Thread, g \in known : InMemory(u, g)' => InMemory(u, g),
         Built'
  PROVE  ContextInv'
<1>1. \A u \in Thread : u \in Code /\ u # f
  BY ConstantsAssumption DEF Code, FiberId
<1>2. \A g \in known : body[g] \in Code /\ body[g] # f
  BY <1>1 DEF ContextInv, Bodies, ClientInv, BaseInv, TypeOK, TypeTables, Code
<1>3. OwnCode'
  BY <1>1 DEF ContextInv, OwnCode, Loaded, Whole
<1>4. Bodies'
  BY DEF ContextInv, Bodies
<1>5. Running'
  <2> SUFFICES ASSUME NEW u \in Thread, NEW g \in FiberId, OnCpu(u, g)'
               PROVE  g \in known /\ Loaded(u, body[g])'
    BY DEF Running
  <2>1. g \in known /\ Loaded(u, body[g])
    BY DEF ContextInv, Running
  <2> QED
    BY <1>2, <2>1 DEF Loaded, Whole
<1>6. Stored'
  BY <1>2 DEF ContextInv, Stored, Saved, Whole
<1> QED
  BY <1>3, <1>4, <1>5, <1>6 DEF ContextInv

\* A step that saves the context of a running fiber keeps ContextInv.
LEMMA SavedContext ==
  ASSUME ClientInv, ContextInv, NEW t \in Thread, NEW f \in FiberId, OnCpu(t, f),
         SaveContext(t, f), UNCHANGED <<open, known, gp, fp, body, phase, lock>>,
         \A u \in Thread : open /\ Unconverted(u)' => Unconverted(u),
         \A u \in Thread, g \in FiberId : OnCpu(u, g)' => OnCpu(u, g),
         \A u \in Thread, g \in known : InMemory(u, g)' => g = f \/ InMemory(u, g),
         \A u \in threads' : UNCHANGED cur[u] /\ u \in threads /\
           (pc'[u] \in BuildSteps => pc'[u] = pc[u])
  PROVE  ContextInv'
<1>1. f \in known /\ Loaded(t, body[f])
  BY DEF ContextInv, Running
<1>2. regs'[f] = gp[t] /\ fpu'[f] = fp[t]
      /\ \A g \in FiberId \ {f} : regs'[g] = regs[g] /\ fpu'[g] = fpu[g]
  BY DEF SaveContext, ClientInv, BaseInv, TypeOK, TypeContexts
<1>3. Saved(f)'
  BY <1>1, <1>2 DEF Saved, Loaded, Whole
<1>4. OwnCode'
  BY DEF ContextInv, OwnCode, Loaded, Whole
<1>5. Bodies'
  BY DEF ContextInv, Bodies
<1>6. Running'
  BY DEF ContextInv, Running, Loaded, Whole
<1>7. Stored'
  <2> SUFFICES ASSUME NEW g \in known, g # f,
                      ~lock[g] \/ \E u \in Thread : InMemory(u, g)
               PROVE  Saved(g)'
    BY <1>3 DEF Stored
  <2> QED
    BY <1>2 DEF ContextInv, Stored, Saved, Whole, ClientInv, BaseInv, TypeOK,
         TypeTables
<1>8. \A u \in threads : pc[u] \in BuildSteps => cur[u] \in FiberId \ {f}
  BY <1>1 DEF ClientInv, LockInv, Unreturned, BaseInv, PointersOK, CurOK, Builds,
       BuildSteps, TypeOK, TypeTables, TypeLocals
<1>9. Built'
  BY <1>2, <1>8 DEF ContextInv, Built, BuildSteps
<1> QED
  BY <1>4, <1>5, <1>6, <1>7, <1>9 DEF ContextInv

\* Work advances a phase and the registers that show it.
LEMMA WorkDone ==
  ASSUME BaseInv, NEW t \in Thread, Work(t)
  PROVE  LET c == gp[t].code
         IN  /\ c \in Code /\ phase'[c] # 0
             /\ gp'[t] = [code |-> c, stack |-> gp[t].stack, phase |-> phase'[c]]
             /\ fp'[t] = [code |-> c, phase |-> phase'[c]]
             /\ \A d \in Code \ {c} : phase'[d] = phase[d]
             /\ \A u \in Thread \ {t} : gp'[u] = gp[u] /\ fp'[u] = fp[u]
<1> DEFINE c == gp[t].code
           p == IF gp[t].phase < Phases THEN gp[t].phase + 1 ELSE 1
<1>1. c \in Code /\ p # 0
  BY ConstantsAssumption, GpFields DEF BaseInv, TypeOK, TypeContexts
<1> HIDE DEF c, p
<1>2. /\ gp' = [gp EXCEPT ![t] = [gp[t] EXCEPT !.phase = p]]
      /\ fp' = [fp EXCEPT ![t] = [code |-> c, phase |-> p]]
      /\ phase' = [phase EXCEPT ![c] = p]
  BY DEF Work, c, p
<1>3. gp[t] \in GpContext /\ gp[t].code = c
  BY DEF BaseInv, TypeOK, TypeContexts, c
<1>4. [gp[t] EXCEPT !.phase = p] = [code |-> c, stack |-> gp[t].stack, phase |-> p]
  BY <1>3 DEF GpContext
<1>5. phase'[c] = p /\ \A d \in Code \ {c} : phase'[d] = phase[d]
  BY <1>1, <1>2 DEF BaseInv, TypeOK, TypeContexts
<1>6. gp'[t] = [gp[t] EXCEPT !.phase = p] /\ fp'[t] = [code |-> c, phase |-> p]
      /\ \A u \in Thread \ {t} : gp'[u] = gp[u] /\ fp'[u] = fp[u]
  BY <1>2 DEF BaseInv, TypeOK, TypeContexts
<1> QED
  BY <1>1, <1>4, <1>5, <1>6 DEF c

\* Every step keeps ContextInv.
LEMMA ContextStep ==
  ASSUME Joined, ~GuessIds, ClientInv, ClientInv', ContextInv, [Next]_vars
  PROVE  ContextInv'
<1>0. BaseInv /\ TypeOK /\ known \subseteq FiberId
  BY DEF ClientInv, BaseInv, TypeOK, TypeTables
<1>1. ASSUME NEW t \in Thread, Work(t) PROVE ContextInv'
  <2> DEFINE c == gp[t].code
  <2>1. /\ c \in Code /\ phase'[c] # 0
        /\ gp'[t] = [code |-> c, stack |-> gp[t].stack, phase |-> phase'[c]]
        /\ fp'[t] = [code |-> c, phase |-> phase'[c]]
        /\ \A d \in Code \ {c} : phase'[d] = phase[d]
        /\ \A u \in Thread \ {t} : gp'[u] = gp[u] /\ fp'[u] = fp[u]
    BY <1>0, <1>1, WorkDone
  <2> HIDE DEF c
  <2>2. /\ pc[t] = "user"
        /\ UNCHANGED <<open, known, body, regs, fpu, lock, threads, sel, pc, cmd, cur,
                      prev, final>>
    BY <1>1 DEF Work, tables, structs, locals
  <2>3. /\ \A u \in Thread : Unconverted(u)' <=> Unconverted(u)
        /\ \A u \in Thread, g \in FiberId : OnCpu(u, g)' <=> OnCpu(u, g)
        /\ \A u \in Thread, g \in FiberId : InMemory(u, g)' <=> InMemory(u, g)
    BY <2>2 DEF Unconverted, Converting, OnCpu, InMemory
  <2>4. /\ Thread \subseteq Code /\ FiberId \subseteq Code
        /\ Thread \cap FiberId = {} /\ body \in [FiberId -> Code]
    BY <1>0, ConstantsAssumption DEF Code, FiberId, TypeOK, TypeContexts
  <2>5. Bodies'
    BY <2>2 DEF ContextInv, Bodies
  <2>6. \A u \in threads : pc[u] = "create_entry" => cur[u] \in FiberId \ known
    BY <1>0 DEF ClientInv, LockInv, Unreturned, BaseInv, PointersOK, CurOK, Builds,
         BuildSteps, TypeOK, TypeTables, TypeLocals
  <2>7. CASE ~open
    <3>1. known = {} /\ threads = {}
      BY <2>7 DEF ClientInv, JoinedInv, BaseInv, PointersOK
    <3> QED
      BY <2>2, <2>3, <2>5, <2>7, <3>1 DEF ContextInv, OwnCode, Built, Running,
           Stored
  <2>8. CASE open /\ t \notin threads
    <3>1. Unconverted(t)
      BY <2>2, <2>8 DEF Unconverted
    <3>2. c = t /\ gp[t].stack = t /\ \A g \in known : body[g] # t
      BY <2>8, <3>1, WholeFields DEF c, ContextInv, OwnCode, Loaded
    <3>3. OwnCode'
      BY <2>1, <2>2, <2>3, <2>4, <3>2 DEF ContextInv, OwnCode, Loaded, Whole
    <3>4. \A g \in FiberId : ~OnCpu(t, g)
      BY <2>2, <2>8 DEF OnCpu
    <3>5. Running'
      <4> SUFFICES ASSUME NEW u \in Thread, NEW g \in FiberId, OnCpu(u, g)
                   PROVE  g \in known /\ Loaded(u, body[g])'
        BY <2>2, <2>3 DEF Running
      <4>1. g \in known /\ Loaded(u, body[g]) /\ u # t
        BY <3>4 DEF ContextInv, Running
      <4> QED
        BY <2>1, <2>2, <2>4, <3>2, <4>1 DEF Loaded, Whole
    <3>6. Stored'
      BY <1>0, <2>1, <2>2, <2>3, <2>4, <3>2 DEF ContextInv, Stored, Saved, Whole
    <3>7. Built'
      BY <2>1, <2>2, <2>4, <2>6, <3>2 DEF ContextInv, Built
    <3> QED
      BY <2>5, <3>3, <3>5, <3>6, <3>7 DEF ContextInv
  <2>9. CASE t \in threads
    <3> DEFINE f == sel[t]
    <3>1. ~Converting(t)
      BY <2>2 DEF Converting, InitFiberSteps
    <3>2. f \in FiberId /\ OnCpu(t, f)
      BY <2>2, <2>9, <3>1, SelectedIsOwn DEF OnCpu, Unconverted, ClientInv
    <3>3. f \in known /\ c = body[f] /\ gp[t].stack = c
      BY <3>2, WholeFields DEF c, ContextInv, Running, Loaded
    <3>4. \A g \in known : g # f => body[g] # c
      BY <3>3 DEF ContextInv, Bodies
    <3>5. OwnCode'
      <4>1. \A u \in Thread : open /\ Unconverted(u) => u # c /\ u # t
        BY <2>2, <2>9, <3>1, <3>3 DEF ContextInv, OwnCode, Unconverted
      <4> QED
        BY <2>1, <2>2, <2>3, <2>4, <4>1 DEF ContextInv, OwnCode, Loaded, Whole
    <3>6. Running'
      <4> SUFFICES ASSUME NEW u \in Thread, NEW g \in FiberId, OnCpu(u, g)
                   PROVE  g \in known /\ Loaded(u, body[g])'
        BY <2>2, <2>3 DEF Running
      <4>1. g \in known /\ Loaded(u, body[g])
        BY DEF ContextInv, Running
      <4>2. CASE g = f
        <5>1. u = t
          BY <3>2, <4>2, OneCpu
        <5> QED
          BY <2>1, <2>2, <3>3, <4>1, <4>2, <5>1 DEF Loaded, Whole
      <4>3. CASE g # f
        <5>1. u # t
          BY <2>2, <4>3 DEF OnCpu
        <5> QED
          BY <2>1, <2>2, <2>4, <3>4, <4>1, <4>3, <5>1 DEF Loaded, Whole
      <4> QED
        BY <4>2, <4>3
    <3>7. Stored'
      <4>1. lock[f] /\ \A u \in Thread : ~InMemory(u, f)
        <5>1. Owns(t, f)
          BY <2>2, <2>9 DEF Owns
        <5>2. \A u \in Thread : InMemory(u, f) => u = t
          BY <3>2, OneCpu
        <5>3. ~InMemory(t, f)
          BY <2>2 DEF InMemory, SwitchSteps
        <5> QED
          BY <3>2, <5>1, <5>2, <5>3 DEF ClientInv, LockInv, OwnedLocked
      <4> QED
        BY <1>0, <2>1, <2>2, <2>3, <2>4, <3>4, <4>1 DEF ContextInv, Stored, Saved,
             Whole
    <3>8. Built'
      <4>1. \A u \in threads : pc[u] = "create_entry" => cur[u] # c
        BY <2>4, <2>6, <3>3 DEF ContextInv, Bodies
      <4> QED
        BY <2>1, <2>2, <2>4, <2>6, <4>1 DEF ContextInv, Built
    <3> QED
      BY <2>5, <3>5, <3>6, <3>7, <3>8 DEF ContextInv
  <2> QED
    BY <2>7, <2>8, <2>9
<1>2. ASSUME NEW t \in Thread, CallConvert(t) PROVE ContextInv'
  <2>0. UNCHANGED <<open, known, gp, fp, body, phase, regs, fpu>>
    BY <1>2 DEF CallConvert, users, cpus, structs
  <2>1. \A u \in Thread : open /\ Unconverted(u)' => Unconverted(u)
    BY <1>0, <1>2, StepsLive DEF CallConvert, Goto, tables, locals,
         Unconverted, Converting, ThreadSteps, SwitchSteps, InitFiberSteps,
         CmdOK, AttachInv, ClientInv, TypeOK, TypeTables, TypePc, TypeLocals,
         TypeLinks
  <2>2. \A u \in Thread, g \in FiberId : OnCpu(u, g)' => OnCpu(u, g)
    BY <1>0, <1>2, StepsLive DEF CallConvert, Goto, tables, locals, OnCpu,
         Unconverted, Converting, ThreadSteps, SwitchSteps, InitFiberSteps,
         CmdOK, AttachInv, ClientInv, TypeOK, TypeTables, TypePc, TypeLocals,
         TypeLinks
  <2>3. \A g \in known : ~lock'[g] \/ (\E u \in Thread : InMemory(u, g)')
                         => ~lock[g] \/ (\E u \in Thread : InMemory(u, g))
    BY <1>0, <1>2 DEF CallConvert, Goto, tables, locals, structs, InMemory,
         SwitchSteps, TypeOK, TypeTables, TypePc, TypeLocals, TypeLinks
  <2>4. Built'
    BY <1>0, <1>2 DEF CallConvert, Goto, tables, locals, structs, users,
         ContextInv, Built, TypeOK, TypeTables, TypePc, TypeLocals, TypeLinks
  <2> QED
    BY <2>0, <2>1, <2>2, <2>3, <2>4, QuietContext
<1>3. ASSUME NEW t \in Thread, CallCreate(t) PROVE ContextInv'
  <2>0. UNCHANGED <<open, known, gp, fp, body, phase, regs, fpu>>
    BY <1>3 DEF CallCreate, users, cpus, structs
  <2>1. \A u \in Thread : open /\ Unconverted(u)' => Unconverted(u)
    BY <1>0, <1>3, StepsLive DEF CallCreate, Goto, tables, locals,
         Unconverted, Converting, ThreadSteps, SwitchSteps, InitFiberSteps,
         CmdOK, AttachInv, ClientInv, TypeOK, TypeTables, TypePc, TypeLocals,
         TypeLinks
  <2>2. \A u \in Thread, g \in FiberId : OnCpu(u, g)' => OnCpu(u, g)
    BY <1>0, <1>3, StepsLive DEF CallCreate, Goto, tables, locals, OnCpu,
         Unconverted, Converting, ThreadSteps, SwitchSteps, InitFiberSteps,
         CmdOK, AttachInv, ClientInv, TypeOK, TypeTables, TypePc, TypeLocals,
         TypeLinks
  <2>3. \A g \in known : ~lock'[g] \/ (\E u \in Thread : InMemory(u, g)')
                         => ~lock[g] \/ (\E u \in Thread : InMemory(u, g))
    BY <1>0, <1>3 DEF CallCreate, Goto, tables, locals, structs, InMemory,
         SwitchSteps, TypeOK, TypeTables, TypePc, TypeLocals, TypeLinks
  <2>4. Built'
    BY <1>0, <1>3 DEF CallCreate, Goto, tables, locals, structs, users,
         ContextInv, Built, TypeOK, TypeTables, TypePc, TypeLocals, TypeLinks
  <2> QED
    BY <2>0, <2>1, <2>2, <2>3, <2>4, QuietContext
<1>4. ASSUME NEW t \in Thread, CallExit(t) PROVE ContextInv'
  <2>0. UNCHANGED <<open, known, gp, fp, body, phase, regs, fpu>>
    BY <1>4 DEF CallExit, users, cpus, structs
  <2>1. \A u \in Thread : open /\ Unconverted(u)' => Unconverted(u)
    BY <1>0, <1>4, StepsLive DEF CallExit, Goto, Leave, tables, locals,
         Unconverted, Converting, ThreadSteps, SwitchSteps, InitFiberSteps,
         CmdOK, AttachInv, ClientInv, TypeOK, TypeTables, TypePc, TypeLocals,
         TypeLinks
  <2>2. \A u \in Thread, g \in FiberId : OnCpu(u, g)' => OnCpu(u, g)
    BY <1>0, <1>4, StepsLive DEF CallExit, Goto, Leave, tables, locals,
         OnCpu, Unconverted, Converting, ThreadSteps, SwitchSteps,
         InitFiberSteps, CmdOK, AttachInv, ClientInv, TypeOK, TypeTables,
         TypePc, TypeLocals, TypeLinks
  <2>3. \A g \in known : ~lock'[g] \/ (\E u \in Thread : InMemory(u, g)')
                         => ~lock[g] \/ (\E u \in Thread : InMemory(u, g))
    BY <1>0, <1>4 DEF CallExit, Goto, Leave, tables, locals, structs,
         InMemory, SwitchSteps, TypeOK, TypeTables, TypePc, TypeLocals,
         TypeLinks
  <2>4. Built'
    BY <1>0, <1>4 DEF CallExit, Goto, Leave, tables, locals, structs,
         users, ContextInv, Built, TypeOK, TypeTables, TypePc, TypeLocals,
         TypeLinks
  <2> QED
    BY <2>0, <2>1, <2>2, <2>3, <2>4, QuietContext
<1>5. ASSUME NEW t \in Thread, Close(t) PROVE ContextInv'
  <2>1. ~open' /\ \A u \in Thread : pc'[u] \in {"user", "dead"}
    BY <1>5 DEF Close, MayLeave, Dead
  <2>2. known' = {} /\ threads' = {}
    BY <2>1 DEF ClientInv, JoinedInv, BaseInv, PointersOK
  <2> QED
    BY <2>1, <2>2, GoneContext
<1>6. ASSUME NEW t \in Thread, FindThread(t) PROVE ContextInv'
  <2>0. UNCHANGED <<open, known, gp, fp, body, phase, regs, fpu>>
    BY <1>6 DEF FindThread, users, cpus, structs
  <2>1. \A u \in Thread : open /\ Unconverted(u)' => Unconverted(u)
    BY <1>0, <1>6, StepsLive DEF FindThread, Return, Leave, Continue, Goto,
         tables, locals, Unconverted, Converting, ThreadSteps, SwitchSteps,
         InitFiberSteps, CmdOK, AttachInv, ClientInv, TypeOK, TypeTables,
         TypePc, TypeLocals, TypeLinks
  <2>2. \A u \in Thread, g \in FiberId : OnCpu(u, g)' => OnCpu(u, g)
    BY <1>0, <1>6, StepsLive DEF FindThread, Return, Leave, Continue, Goto,
         tables, locals, OnCpu, Unconverted, Converting, ThreadSteps,
         SwitchSteps, InitFiberSteps, CmdOK, AttachInv, ClientInv, TypeOK,
         TypeTables, TypePc, TypeLocals, TypeLinks
  <2>3. \A g \in known : ~lock'[g] \/ (\E u \in Thread : InMemory(u, g)')
                         => ~lock[g] \/ (\E u \in Thread : InMemory(u, g))
    BY <1>0, <1>6 DEF FindThread, Return, Leave, Continue, Goto, tables,
         locals, structs, InMemory, SwitchSteps, TypeOK, TypeTables, TypePc,
         TypeLocals, TypeLinks
  <2>4. Built'
    BY <1>0, <1>6 DEF FindThread, Return, Leave, Continue, Goto, tables,
         locals, structs, users, ContextInv, Built, TypeOK, TypeTables, TypePc,
         TypeLocals, TypeLinks
  <2> QED
    BY <2>0, <2>1, <2>2, <2>3, <2>4, QuietContext
<1>7. ASSUME NEW t \in Thread, ConvertLock(t) PROVE ContextInv'
  <2>0. UNCHANGED <<open, known, gp, fp, body, phase, regs, fpu>>
    BY <1>7 DEF ConvertLock, users, cpus, structs
  <2>1. \A u \in Thread : open /\ Unconverted(u)' => Unconverted(u)
    BY <1>0, <1>7, StepsLive DEF ConvertLock, Step, Goto, tables, locals,
         Unconverted, Converting, ThreadSteps, SwitchSteps, InitFiberSteps,
         CmdOK, AttachInv, ClientInv, TypeOK, TypeTables, TypePc, TypeLocals,
         TypeLinks
  <2>2. \A u \in Thread, g \in FiberId : OnCpu(u, g)' => OnCpu(u, g)
    BY <1>0, <1>7, StepsLive DEF ConvertLock, Step, Goto, tables, locals,
         OnCpu, Unconverted, Converting, ThreadSteps, SwitchSteps,
         InitFiberSteps, CmdOK, AttachInv, ClientInv, TypeOK, TypeTables,
         TypePc, TypeLocals, TypeLinks
  <2>3. \A g \in known : ~lock'[g] \/ (\E u \in Thread : InMemory(u, g)')
                         => ~lock[g] \/ (\E u \in Thread : InMemory(u, g))
    BY <1>0, <1>7 DEF ConvertLock, Step, Goto, tables, locals, structs,
         InMemory, SwitchSteps, TypeOK, TypeTables, TypePc, TypeLocals,
         TypeLinks
  <2>4. Built'
    BY <1>0, <1>7 DEF ConvertLock, Step, Goto, tables, locals, structs,
         users, ContextInv, Built, TypeOK, TypeTables, TypePc, TypeLocals,
         TypeLinks
  <2> QED
    BY <2>0, <2>1, <2>2, <2>3, <2>4, QuietContext
<1>8. ASSUME NEW t \in Thread, ConvertFind(t) PROVE ContextInv'
  <2>0. UNCHANGED <<open, known, gp, fp, body, phase, regs, fpu>>
    BY <1>8 DEF ConvertFind, users, cpus, structs
  <2>1. \A u \in Thread : open /\ Unconverted(u)' => Unconverted(u)
    BY <1>0, <1>8, StepsLive DEF ConvertFind, Step, Goto, tables, locals,
         Unconverted, Converting, ThreadSteps, SwitchSteps, InitFiberSteps,
         CmdOK, AttachInv, ClientInv, TypeOK, TypeTables, TypePc, TypeLocals,
         TypeLinks
  <2>2. \A u \in Thread, g \in FiberId : OnCpu(u, g)' => OnCpu(u, g)
    BY <1>0, <1>8, StepsLive DEF ConvertFind, Step, Goto, tables, locals,
         OnCpu, Unconverted, Converting, ThreadSteps, SwitchSteps,
         InitFiberSteps, CmdOK, AttachInv, ClientInv, TypeOK, TypeTables,
         TypePc, TypeLocals, TypeLinks
  <2>3. \A g \in known : ~lock'[g] \/ (\E u \in Thread : InMemory(u, g)')
                         => ~lock[g] \/ (\E u \in Thread : InMemory(u, g))
    BY <1>0, <1>8 DEF ConvertFind, Step, Goto, tables, locals, structs,
         InMemory, SwitchSteps, TypeOK, TypeTables, TypePc, TypeLocals,
         TypeLinks
  <2>4. Built'
    BY <1>0, <1>8 DEF ConvertFind, Step, Goto, tables, locals, structs,
         users, ContextInv, Built, TypeOK, TypeTables, TypePc, TypeLocals,
         TypeLinks
  <2> QED
    BY <2>0, <2>1, <2>2, <2>3, <2>4, QuietContext
<1>9. ASSUME NEW t \in Thread, ConvertProcess(t) PROVE ContextInv'
  <2>0. UNCHANGED <<open, known, gp, fp, body, phase, regs, fpu, lock, sel, cmd, cur,
                  prev, final>>
    BY <1>9 DEF ConvertProcess, users, cpus, structs
  <2>1. threads' = threads /\ pc' = [pc EXCEPT ![t] = "convert_thread"]
        /\ pc[t] = "convert_process"
    <3>1. InitProcess => nproc = 0 /\ threads' = {}
      BY <1>0, <1>9 DEF ConvertProcess, InitProcess, BaseInv, ProcessLockOK, tables,
           TypeOK, TypeTables
    <3> QED
      BY <1>0, <1>9, <3>1 DEF ConvertProcess, Goto, tables, BaseInv, PointersOK
  <2>2. \A u \in Thread : Unconverted(u)' => Unconverted(u)
    BY <1>0, <2>0, <2>1 DEF Unconverted, Converting, InitFiberSteps, TypeOK, TypePc
  <2>3. \A u \in Thread, g \in FiberId : OnCpu(u, g)' => OnCpu(u, g)
    BY <1>0, <2>0, <2>1 DEF OnCpu, Unconverted, Converting, InitFiberSteps, TypeOK, TypePc
  <2>4. \A u \in Thread, g \in FiberId : InMemory(u, g)' => InMemory(u, g)
    BY <1>0, <2>0, <2>1 DEF InMemory, SwitchSteps, TypeOK, TypePc
  <2>5. Built'
    BY <1>0, <2>0, <2>1 DEF ContextInv, Built, TypeOK, TypeTables, TypePc
  <2> QED
    BY <1>0, <2>0, <2>2, <2>3, <2>4, <2>5, QuietContext
<1>10. ASSUME NEW t \in Thread, ConvertThread(t) PROVE ContextInv'
  <2>0. UNCHANGED <<open, known, gp, fp, body, phase, regs, fpu>>
    BY <1>10 DEF ConvertThread, users, cpus, structs
  <2>1. \A u \in Thread : open /\ Unconverted(u)' => Unconverted(u)
    BY <1>0, <1>10, StepsLive DEF ConvertThread, Return, Leave, Continue,
         Goto, tables, locals, Unconverted, Converting, ThreadSteps,
         SwitchSteps, InitFiberSteps, CmdOK, AttachInv, ClientInv, TypeOK,
         TypeTables, TypePc, TypeLocals, TypeLinks
  <2>2. \A u \in Thread, g \in FiberId : OnCpu(u, g)' => OnCpu(u, g)
    BY <1>0, <1>10, StepsLive DEF ConvertThread, Return, Leave, Continue,
         Goto, tables, locals, OnCpu, Unconverted, Converting, ThreadSteps,
         SwitchSteps, InitFiberSteps, CmdOK, AttachInv, ClientInv, TypeOK,
         TypeTables, TypePc, TypeLocals, TypeLinks
  <2>3. \A g \in known : ~lock'[g] \/ (\E u \in Thread : InMemory(u, g)')
                         => ~lock[g] \/ (\E u \in Thread : InMemory(u, g))
    BY <1>0, <1>10 DEF ConvertThread, Return, Leave, Continue, Goto,
         tables, locals, structs, InMemory, SwitchSteps, TypeOK, TypeTables,
         TypePc, TypeLocals, TypeLinks
  <2>4. Built'
    BY <1>0, <1>10 DEF ConvertThread, Return, Leave, Continue, Goto,
         tables, locals, structs, users, ContextInv, Built, TypeOK, TypeTables,
         TypePc, TypeLocals, TypeLinks
  <2> QED
    BY <2>0, <2>1, <2>2, <2>3, <2>4, QuietContext
<1>11. ASSUME NEW t \in Thread, InitFiberReserve(t) PROVE ContextInv'
  <2>0. UNCHANGED <<open, known, gp, fp, body, phase, regs, fpu>>
    BY <1>11 DEF InitFiberReserve, users, cpus, structs
  <2>1. \A u \in Thread : open /\ Unconverted(u)' => Unconverted(u)
    BY <1>0, <1>11, StepsLive DEF InitFiberReserve, Step, Goto, tables,
         locals, Unconverted, Converting, ThreadSteps, SwitchSteps,
         InitFiberSteps, CmdOK, AttachInv, ClientInv, TypeOK, TypeTables,
         TypePc, TypeLocals, TypeLinks
  <2>2. \A u \in Thread, g \in FiberId : OnCpu(u, g)' => OnCpu(u, g)
    BY <1>0, <1>11, StepsLive DEF InitFiberReserve, Step, Goto, tables,
         locals, OnCpu, Unconverted, Converting, ThreadSteps, SwitchSteps,
         InitFiberSteps, CmdOK, AttachInv, ClientInv, TypeOK, TypeTables,
         TypePc, TypeLocals, TypeLinks
  <2>3. \A g \in known : ~lock'[g] \/ (\E u \in Thread : InMemory(u, g)')
                         => ~lock[g] \/ (\E u \in Thread : InMemory(u, g))
    BY <1>0, <1>11 DEF InitFiberReserve, Step, Goto, tables, locals,
         structs, InMemory, SwitchSteps, TypeOK, TypeTables, TypePc, TypeLocals,
         TypeLinks
  <2>4. Built'
    BY <1>0, <1>11 DEF InitFiberReserve, Step, Goto, tables, locals,
         structs, users, ContextInv, Built, TypeOK, TypeTables, TypePc,
         TypeLocals, TypeLinks
  <2> QED
    BY <2>0, <2>1, <2>2, <2>3, <2>4, QuietContext
<1>12. ASSUME NEW t \in Thread, InitFiberPublish(t) PROVE ContextInv'
  <2> DEFINE f == cur[t]
  <2>1. /\ t \in threads /\ pc[t] = "fiber_publish" /\ open
        /\ f \in FiberId /\ Builds(t, f) /\ f \notin known
    BY <1>0, <1>12, StepsLive DEF InitFiberPublish, Step, ThreadSteps, IoctlSteps,
         InitFiberSteps, BaseInv, CurOK, Builds, BuildSteps, ClientInv, LockInv, Unreturned
  <2>2. /\ body' = [body EXCEPT ![f] = IF cmd[t] = "create" THEN f ELSE gp[t].code]
        /\ phase' = IF cmd[t] = "create" THEN [phase EXCEPT ![f] = 0] ELSE phase
        /\ regs' = [regs EXCEPT ![f] =
                      [code |-> gp[t].code, phase |-> gp[t].phase,
                       stack |-> IF cmd[t] = "create" THEN f ELSE NoFiber]]
        /\ lock' = [lock EXCEPT ![f] = FALSE]
        /\ pc' = [pc EXCEPT ![t] = IF cmd[t] = "create" THEN "create_entry"
                                                       ELSE "convert_stack"]
        /\ UNCHANGED <<open, known, gp, fp, fpu, threads, cur, cmd>>
    BY <1>12 DEF InitFiberPublish, Step, Goto, locals, cpus
  <2>3. cmd[t] # "create" => gp[t].code = t
    <3>1. cmd[t] # "create" => Unconverted(t)
      BY <2>1 DEF ClientInv, AttachInv, CmdOK, Unconverted, Converting,
           InitFiberSteps
    <3> QED
      BY <2>1, <3>1, WholeFields DEF ContextInv, OwnCode, Loaded
  <2>4. Built'
    <3> SUFFICES ASSUME NEW u \in threads
                 PROVE  /\ pc'[u] \in {"convert_stack", "convert_attach",
                                       "convert_trylock"} => body'[cur[u]] = u
                        /\ pc'[u] = "create_entry" =>
                             /\ body'[cur[u]] = cur[u] /\ phase'[cur[u]] = 0
                             /\ regs'[cur[u]].stack = cur[u]
      BY <2>2 DEF Built
    <3>1. CASE u = t
      <4>1. f \in Code
        BY <2>1 DEF Code
      <4> QED
        BY <1>0, <2>1, <2>2, <2>3, <3>1, <4>1 DEF TypeOK, TypePc, TypeContexts
    <3>2. CASE u # t
      <4>1. pc'[u] = pc[u] /\ u \in Thread
        BY <1>0, <2>2, <3>2 DEF TypeOK, TypePc, TypeTables
      <4>2. pc[u] \in BuildSteps => cur[u] \in FiberId /\ cur[u] # f
        <5>1. pc[u] \in BuildSteps => cur[u] \in FiberId /\ Builds(u, cur[u])
          BY <1>0, <4>1, StepsLive DEF Builds, BuildSteps, ThreadSteps, BaseInv,
               CurOK
        <5> QED
          BY <2>1, <3>2, <4>1, <5>1 DEF BaseInv, ClientInv, IdsOK
      <4> QED
        BY <1>0, <2>1, <2>2, <4>1, <4>2 DEF ContextInv, Built, BuildSteps, TypeOK,
             TypeContexts, Code
    <3> QED
      BY <3>1, <3>2
  <2>5. \A u \in Thread : open /\ Unconverted(u)' => Unconverted(u)
    BY <1>0, <1>12, StepsLive DEF InitFiberPublish, Step, Goto, locals, Unconverted, Converting,
         ThreadSteps, SwitchSteps, InitFiberSteps, ClientInv, AttachInv, CmdOK,
         TypeOK, TypePc, TypeTables, TypeLocals
  <2>6. \A u \in Thread, g \in FiberId : OnCpu(u, g)' => OnCpu(u, g)
    BY <1>0, <1>12, StepsLive DEF InitFiberPublish, Step, Goto, locals, OnCpu, Unconverted,
         Converting, ThreadSteps, SwitchSteps, InitFiberSteps, TypeOK, TypePc,
         TypeTables, TypeLocals
  <2>7. \A u \in Thread, g \in known : InMemory(u, g)' => InMemory(u, g)
    BY <1>0, <1>12 DEF InitFiberPublish, Step, Goto, locals, InMemory, SwitchSteps, TypeOK, TypePc,
         TypeTables, TypeLocals
  <2>8. /\ \A g \in known : UNCHANGED <<body[g], regs[g], fpu[g], lock[g]>>
        /\ \A d \in Code \ {f} : phase'[d] = phase[d]
    BY <1>0, <2>1, <2>2 DEF TypeOK, TypeLinks, TypeContexts
  <2> QED
    BY <2>1, <2>2, <2>4, <2>5, <2>6, <2>7, <2>8, NewFiberContext
<1>13. ASSUME NEW t \in Thread, ConvertStack(t) PROVE ContextInv'
  <2> DEFINE f == cur[t]
  <2>1. /\ t \in threads /\ pc[t] = "convert_stack"
        /\ f \in FiberId /\ Builds(t, f) /\ f \notin known
    BY <1>0, <1>13, StepsLive DEF ConvertStack, Step, ThreadSteps, BaseInv, CurOK,
         Builds, BuildSteps, ClientInv, LockInv, Unreturned
  <2>2. /\ fpu' = [fpu EXCEPT ![f] = fp[t]]
        /\ regs' = [regs EXCEPT ![f] = [regs[f] EXCEPT !.stack = gp[t].stack]]
        /\ pc' = [pc EXCEPT ![t] = "convert_attach"]
        /\ UNCHANGED <<open, known, gp, fp, body, phase, lock, threads, cur>>
    BY <1>13 DEF ConvertStack, Step, Goto, tables, locals, cpus, users
  <2>3. \A u \in threads : u # t /\ pc[u] \in BuildSteps
                           => cur[u] \in FiberId /\ cur[u] # f
    <3>1. \A u \in threads : pc[u] \in BuildSteps => cur[u] \in FiberId /\ Builds(u, cur[u])
      BY <1>0, StepsLive DEF Builds, BuildSteps, ThreadSteps, BaseInv, CurOK, TypeOK,
           TypeTables
    <3> QED
      BY <1>0, <2>1, <3>1 DEF BaseInv, IdsOK, TypeOK, TypeTables
  <2>4. Built'
    BY <1>0, <2>1, <2>2, <2>3 DEF ContextInv, Built, BuildSteps, TypeOK, TypeTables,
         TypePc, TypeContexts
  <2>5. \A u \in Thread : open /\ Unconverted(u)' => Unconverted(u)
    BY <1>0, <1>13, StepsLive DEF ConvertStack, Step, Goto, tables, locals, Unconverted, Converting,
         ThreadSteps, SwitchSteps, InitFiberSteps, TypeOK, TypePc, TypeTables,
         TypeLocals
  <2>6. \A u \in Thread, g \in FiberId : OnCpu(u, g)' => OnCpu(u, g)
    BY <1>0, <1>13, StepsLive DEF ConvertStack, Step, Goto, tables, locals, OnCpu, Unconverted,
         Converting, ThreadSteps, SwitchSteps, InitFiberSteps, TypeOK, TypePc,
         TypeTables, TypeLocals
  <2>7. \A u \in Thread, g \in known : InMemory(u, g)' => InMemory(u, g)
    BY <1>0, <1>13 DEF ConvertStack, Step, Goto, tables, locals, InMemory, SwitchSteps, TypeOK, TypePc,
         TypeTables, TypeLocals
  <2>8. \A g \in known : UNCHANGED <<body[g], regs[g], fpu[g], lock[g]>>
    BY <1>0, <2>1, <2>2 DEF TypeOK, TypeContexts
  <2> QED
    BY <2>1, <2>2, <2>4, <2>5, <2>6, <2>7, <2>8, NewFiberContext
<1>14. ASSUME NEW t \in Thread, ConvertAttach(t) PROVE ContextInv'
  <2>0. UNCHANGED <<open, known, gp, fp, body, phase, regs, fpu>>
    BY <1>14 DEF ConvertAttach, users, cpus, structs
  <2>1. \A u \in Thread : open /\ Unconverted(u)' => Unconverted(u)
    BY <1>0, <1>14, StepsLive DEF ConvertAttach, Step, Goto, tables,
         locals, Unconverted, Converting, ThreadSteps, SwitchSteps,
         InitFiberSteps, CmdOK, AttachInv, ClientInv, TypeOK, TypeTables,
         TypePc, TypeLocals, TypeLinks
  <2>2. \A u \in Thread, g \in FiberId : OnCpu(u, g)' => OnCpu(u, g)
    BY <1>0, <1>14, StepsLive DEF ConvertAttach, Step, Goto, tables,
         locals, OnCpu, Unconverted, Converting, ThreadSteps, SwitchSteps,
         InitFiberSteps, CmdOK, AttachInv, ClientInv, TypeOK, TypeTables,
         TypePc, TypeLocals, TypeLinks
  <2>3. \A g \in known : ~lock'[g] \/ (\E u \in Thread : InMemory(u, g)')
                         => ~lock[g] \/ (\E u \in Thread : InMemory(u, g))
    BY <1>0, <1>14 DEF ConvertAttach, Step, Goto, tables, locals, structs,
         InMemory, SwitchSteps, TypeOK, TypeTables, TypePc, TypeLocals,
         TypeLinks
  <2>4. Built'
    BY <1>0, <1>14 DEF ConvertAttach, Step, Goto, tables, locals, structs,
         users, ContextInv, Built, TypeOK, TypeTables, TypePc, TypeLocals,
         TypeLinks
  <2> QED
    BY <2>0, <2>1, <2>2, <2>3, <2>4, QuietContext
<1>15. ASSUME NEW t \in Thread, ConvertTrylock(t) PROVE ContextInv'
  <2>0. PICK f \in FiberId : f = cur[t]
    BY <1>0, <1>15 DEF ConvertTrylock, BaseInv, CurOK, BuildSteps
  <2>1. /\ t \in threads /\ pc[t] = "convert_trylock" /\ open
        /\ Builds(t, f) /\ sel[t] = f
        /\ f \in fibers /\ f \notin known /\ ~lock[f]
    BY <1>0, <1>15, <2>0, StepsLive DEF ConvertTrylock, ThreadSteps, IoctlSteps,
         ConvertSteps, Builds, BuildSteps, BaseInv, IdsOK, ClientInv, LockInv, Unreturned,
         SwitchOK
  <2>2. /\ known' = known \cup {f} /\ lock' = [lock EXCEPT ![f] = TRUE]
        /\ pc' = [pc EXCEPT ![t] = "user"]
        /\ UNCHANGED <<open, gp, fp, body, phase, regs, fpu, threads, sel, final>>
        /\ \A u \in Thread \ {t} : UNCHANGED <<cmd[u], cur[u], prev[u]>>
    BY <1>0, <1>15, <2>0, <2>1 DEF ConvertTrylock, TrylockFails, Return, Leave, Goto,
         tables, cpus, TypeOK, TypeLocals
  <2>3. /\ body[f] = t /\ Loaded(t, t) /\ \A g \in known : body[g] # t
    BY <2>0, <2>1 DEF ContextInv, Built, OwnCode, Unconverted
  <2>4. OwnCode'
    <3>1. \A u \in Thread : Unconverted(u)' => u # t /\ Unconverted(u)
      BY <1>0, <2>1, <2>2 DEF Unconverted, Converting, InitFiberSteps, TypeOK, TypePc
    <3> QED
      BY <2>2, <2>3, <3>1 DEF ContextInv, OwnCode, Loaded, Whole
  <2>5. Bodies'
    BY <2>2, <2>3 DEF ContextInv, Bodies
  <2>6. Running'
    <3>1. \A u \in Thread, g \in FiberId :
            OnCpu(u, g)' => OnCpu(u, g) \/ (u = t /\ g = f)
      BY <1>0, <2>1, <2>2 DEF OnCpu, Unconverted, Converting, InitFiberSteps, TypeOK,
           TypePc, TypeLocals
    <3> QED
      BY <2>2, <2>3, <3>1 DEF ContextInv, Running, Loaded, Whole
  <2>7. Stored'
    <3>1. \A u \in Thread, g \in FiberId : InMemory(u, g)' => InMemory(u, g)
      BY <1>0, <2>1, <2>2 DEF InMemory, SwitchSteps, TypeOK, TypePc
    <3>2. \A u \in Thread : ~InMemory(u, f)
      BY <2>1, InMemoryOwned DEF ClientInv, LockInv, OwnedLocked
    <3> QED
      BY <1>0, <2>2, <3>1, <3>2 DEF ContextInv, Stored, Saved, Whole, TypeOK,
           TypeLinks
  <2>8. Built'
    BY <1>0, <2>1, <2>2 DEF ContextInv, Built, TypeOK, TypeTables, TypePc
  <2> QED
    BY <2>4, <2>5, <2>6, <2>7, <2>8 DEF ContextInv
<1>16. ASSUME NEW t \in Thread, CreateEntry(t) PROVE ContextInv'
  <2>0. PICK f \in FiberId : f = cur[t]
    BY <1>0, <1>16 DEF CreateEntry, BaseInv, CurOK, BuildSteps
  <2>1. /\ t \in threads /\ pc[t] = "create_entry" /\ Builds(t, f) /\ f \notin known
    BY <1>0, <1>16, <2>0, StepsLive DEF CreateEntry, ThreadSteps, Builds, BuildSteps,
         ClientInv, LockInv, Unreturned
  <2>2. /\ known' = known \cup {f}
        /\ regs' = [regs EXCEPT ![f] = [regs[f] EXCEPT !.code = f, !.phase = 0]]
        /\ fpu' = [fpu EXCEPT ![f] = fp[t]]
        /\ pc' = [pc EXCEPT ![t] = "user"]
        /\ UNCHANGED <<open, gp, fp, body, phase, lock, threads, sel, final>>
        /\ \A u \in Thread \ {t} : UNCHANGED <<cmd[u], cur[u], prev[u]>>
    BY <1>0, <1>16, <2>0 DEF CreateEntry, Return, Leave, Goto, tables, cpus, TypeOK,
         TypeLocals
  <2>3. body[f] = f /\ phase[f] = 0 /\ regs[f].stack = f
    BY <2>0, <2>1 DEF ContextInv, Built
  <2>4. OwnCode'
    <3>1. \A u \in Thread : Unconverted(u)' => u # t /\ Unconverted(u)
      BY <1>0, <2>1, <2>2 DEF Unconverted, Converting, InitFiberSteps, TypeOK, TypePc
    <3>2. f \notin Thread
      BY ConstantsAssumption DEF FiberId
    <3> QED
      BY <2>2, <2>3, <3>1, <3>2 DEF ContextInv, OwnCode, Loaded, Whole
  <2>5. Bodies'
    <3>1. \A g \in known : body[g] # f
      BY <2>1, ConstantsAssumption DEF ContextInv, Bodies, FiberId
    <3> QED
      BY <2>2, <2>3, <3>1 DEF ContextInv, Bodies
  <2>6. Running'
    <3>1. \A u \in Thread, g \in FiberId : OnCpu(u, g)' => OnCpu(u, g)
      BY <1>0, <2>1, <2>2 DEF OnCpu, Unconverted, Converting, InitFiberSteps, TypeOK,
           TypePc, TypeLocals
    <3> QED
      BY <2>2, <3>1 DEF ContextInv, Running, Loaded, Whole
  <2>7. Stored'
    <3>1. \A u \in Thread, g \in FiberId : InMemory(u, g)' => InMemory(u, g)
      BY <1>0, <2>1, <2>2 DEF InMemory, SwitchSteps, TypeOK, TypePc
    <3>2. regs[f] \in GpContext
      BY <1>0 DEF TypeOK, TypeContexts
    <3>3. [regs[f] EXCEPT !.code = f, !.phase = 0] = [code |-> f, stack |-> f, phase |-> 0]
      <4>1. [regs[f] EXCEPT !.code = f, !.phase = 0]
              = [code |-> f, stack |-> regs[f].stack, phase |-> 0]
        BY <3>2, EntryContext, Zenon
      <4> QED BY <2>3, <4>1
    <3>4. Saved(f)'
      BY <1>0, <2>2, <2>3, <3>3 DEF Saved, Whole, TypeOK, TypeContexts
    <3>5. \A g \in known : Saved(g) => Saved(g)'
      BY <1>0, <2>1, <2>2 DEF Saved, Whole, TypeOK, TypeContexts
    <3> QED
      BY <1>0, <2>2, <3>1, <3>4, <3>5 DEF ContextInv, Stored
  <2>8. Built'
    <3>1. \A u \in threads : pc[u] \in BuildSteps => cur[u] \in FiberId /\ Builds(u, cur[u])
      BY <1>0, StepsLive DEF Builds, BuildSteps, ThreadSteps, BaseInv, CurOK, TypeOK,
           TypeTables
    <3>2. \A u \in threads : u # t /\ pc[u] \in BuildSteps
                             => cur[u] \in FiberId /\ cur[u] # f
      BY <1>0, <2>1, <3>1 DEF BaseInv, IdsOK, TypeOK, TypeTables
    <3> QED
      BY <1>0, <2>1, <2>2, <3>2 DEF ContextInv, Built, BuildSteps, TypeOK, TypeTables,
           TypePc, TypeContexts
  <2> QED
    BY <2>4, <2>5, <2>6, <2>7, <2>8 DEF ContextInv
<1>17. ASSUME NEW t \in Thread, SwitchLookup(t) PROVE ContextInv'
  <2>0. UNCHANGED <<open, known, gp, fp, body, phase, regs, fpu>>
    BY <1>17 DEF SwitchLookup, users, cpus, structs
  <2>1. \A u \in Thread : open /\ Unconverted(u)' => Unconverted(u)
    BY <1>0, <1>17, StepsLive DEF SwitchLookup, Return, Leave, Continue,
         Goto, tables, locals, Unconverted, Converting, ThreadSteps,
         SwitchSteps, InitFiberSteps, CmdOK, AttachInv, ClientInv, TypeOK,
         TypeTables, TypePc, TypeLocals, TypeLinks
  <2>2. \A u \in Thread, g \in FiberId : OnCpu(u, g)' => OnCpu(u, g)
    BY <1>0, <1>17, StepsLive DEF SwitchLookup, Return, Leave, Continue,
         Goto, tables, locals, OnCpu, Unconverted, Converting, ThreadSteps,
         SwitchSteps, InitFiberSteps, CmdOK, AttachInv, ClientInv, TypeOK,
         TypeTables, TypePc, TypeLocals, TypeLinks
  <2>3. \A g \in known : ~lock'[g] \/ (\E u \in Thread : InMemory(u, g)')
                         => ~lock[g] \/ (\E u \in Thread : InMemory(u, g))
    BY <1>0, <1>17 DEF SwitchLookup, Return, Leave, Continue, Goto, tables,
         locals, structs, InMemory, SwitchSteps, TypeOK, TypeTables, TypePc,
         TypeLocals, TypeLinks
  <2>4. Built'
    BY <1>0, <1>17 DEF SwitchLookup, Return, Leave, Continue, Goto, tables,
         locals, structs, users, ContextInv, Built, TypeOK, TypeTables, TypePc,
         TypeLocals, TypeLinks
  <2> QED
    BY <2>0, <2>1, <2>2, <2>3, <2>4, QuietContext
<1>18. ASSUME NEW t \in Thread, SwitchTrylock(t) PROVE ContextInv'
  <2>0. UNCHANGED <<open, known, gp, fp, body, phase, regs, fpu>>
    BY <1>18 DEF SwitchTrylock, users, cpus, structs
  <2>1. \A u \in Thread : open /\ Unconverted(u)' => Unconverted(u)
    BY <1>0, <1>18, StepsLive DEF SwitchTrylock, Return, Leave, Continue,
         Goto, tables, locals, Unconverted, Converting, ThreadSteps,
         SwitchSteps, InitFiberSteps, CmdOK, AttachInv, ClientInv, TypeOK,
         TypeTables, TypePc, TypeLocals, TypeLinks
  <2>2. \A u \in Thread, g \in FiberId : OnCpu(u, g)' => OnCpu(u, g)
    BY <1>0, <1>18, StepsLive DEF SwitchTrylock, Return, Leave, Continue,
         Goto, tables, locals, OnCpu, Unconverted, Converting, ThreadSteps,
         SwitchSteps, InitFiberSteps, CmdOK, AttachInv, ClientInv, TypeOK,
         TypeTables, TypePc, TypeLocals, TypeLinks
  <2>3. \A g \in known : ~lock'[g] \/ (\E u \in Thread : InMemory(u, g)')
                         => ~lock[g] \/ (\E u \in Thread : InMemory(u, g))
    BY <1>0, <1>18 DEF SwitchTrylock, Return, Leave, Continue, Goto,
         tables, locals, structs, TrylockFails, InMemory, SwitchSteps, TypeOK,
         TypeTables, TypePc, TypeLocals, TypeLinks
  <2>4. Built'
    BY <1>0, <1>18 DEF SwitchTrylock, Return, Leave, Continue, Goto,
         tables, locals, structs, users, ContextInv, Built, TypeOK, TypeTables,
         TypePc, TypeLocals, TypeLinks
  <2> QED
    BY <2>0, <2>1, <2>2, <2>3, <2>4, QuietContext
<1>19. ASSUME NEW t \in Thread, SwitchCheck(t) PROVE ContextInv'
  <2>0. UNCHANGED <<open, known, gp, fp, body, phase, regs, fpu>>
    BY <1>19 DEF SwitchCheck, users, cpus, structs
  <2>1. \A u \in Thread : open /\ Unconverted(u)' => Unconverted(u)
    BY <1>0, <1>19, StepsLive DEF SwitchCheck, Return, Leave, Continue,
         Goto, tables, locals, Unconverted, Converting, ThreadSteps,
         SwitchSteps, InitFiberSteps, CmdOK, AttachInv, ClientInv, TypeOK,
         TypeTables, TypePc, TypeLocals, TypeLinks
  <2>2. \A u \in Thread, g \in FiberId : OnCpu(u, g)' => OnCpu(u, g)
    BY <1>0, <1>19, StepsLive DEF SwitchCheck, Return, Leave, Continue,
         Goto, tables, locals, OnCpu, Unconverted, Converting, ThreadSteps,
         SwitchSteps, InitFiberSteps, CmdOK, AttachInv, ClientInv, TypeOK,
         TypeTables, TypePc, TypeLocals, TypeLinks
  <2>3. \A g \in known : ~lock'[g] \/ (\E u \in Thread : InMemory(u, g)')
                         => ~lock[g] \/ (\E u \in Thread : InMemory(u, g))
    BY <1>0, <1>19 DEF SwitchCheck, Return, Leave, Continue, Goto, tables,
         locals, structs, InMemory, SwitchSteps, TypeOK, TypeTables, TypePc,
         TypeLocals, TypeLinks
  <2>4. Built'
    BY <1>0, <1>19 DEF SwitchCheck, Return, Leave, Continue, Goto, tables,
         locals, structs, users, ContextInv, Built, TypeOK, TypeTables, TypePc,
         TypeLocals, TypeLinks
  <2> QED
    BY <2>0, <2>1, <2>2, <2>3, <2>4, QuietContext
<1>20. ASSUME NEW t \in Thread, SwitchAttach(t) PROVE ContextInv'
  <2>0. UNCHANGED <<open, known, gp, fp, body, phase, regs, fpu>>
    BY <1>20 DEF SwitchAttach, users, cpus, structs
  <2>1. \A u \in Thread : open /\ Unconverted(u)' => Unconverted(u)
    BY <1>0, <1>20, StepsLive DEF SwitchAttach, Step, Goto, tables, locals,
         Unconverted, Converting, ThreadSteps, SwitchSteps, InitFiberSteps,
         CmdOK, AttachInv, ClientInv, TypeOK, TypeTables, TypePc, TypeLocals,
         TypeLinks
  <2>2. \A u \in Thread, g \in FiberId : OnCpu(u, g)' => OnCpu(u, g)
    BY <1>0, <1>20, StepsLive DEF SwitchAttach, Step, Goto, tables, locals,
         OnCpu, Unconverted, Converting, ThreadSteps, SwitchSteps,
         InitFiberSteps, CmdOK, AttachInv, ClientInv, TypeOK, TypeTables,
         TypePc, TypeLocals, TypeLinks
  <2>3. \A g \in known : ~lock'[g] \/ (\E u \in Thread : InMemory(u, g)')
                         => ~lock[g] \/ (\E u \in Thread : InMemory(u, g))
    BY <1>0, <1>20 DEF SwitchAttach, Step, Goto, tables, locals, structs,
         InMemory, SwitchSteps, TypeOK, TypeTables, TypePc, TypeLocals,
         TypeLinks
  <2>4. Built'
    BY <1>0, <1>20 DEF SwitchAttach, Step, Goto, tables, locals, structs,
         users, ContextInv, Built, TypeOK, TypeTables, TypePc, TypeLocals,
         TypeLinks
  <2> QED
    BY <2>0, <2>1, <2>2, <2>3, <2>4, QuietContext
<1>21. ASSUME NEW t \in Thread, SwitchSave(t) PROVE ContextInv'
  <2>0. t \in threads /\ pc[t] = "switch_save" /\ ~Converting(t)
    BY <1>0, <1>21, StepsLive DEF SwitchSave, Step, ThreadSteps, SwitchSteps, Converting,
         InitFiberSteps
  <2>1. PICK f \in FiberId : f = prev[t]
    BY <2>0, SelectedIsOwn DEF ClientInv, AttachInv, Attaches
  <2>2. OnCpu(t, f)
    BY <2>0, <2>1 DEF OnCpu, Unconverted
  <2>3. /\ SaveContext(t, f)
        /\ UNCHANGED <<open, known, gp, fp, body, phase, lock, threads, cur>>
    BY <1>21, <2>1 DEF SwitchSave, tables, locals, cpus, users
  <2>4. \A u \in Thread : pc'[u] \in BuildSteps => pc'[u] = pc[u]
    BY <1>0, <1>21 DEF SwitchSave, Step, Goto, BuildSteps, TypeOK, TypePc
  <2>5. \A u \in Thread : open /\ Unconverted(u)' => Unconverted(u)
    BY <1>0, <1>21, StepsLive DEF SwitchSave, Step, Goto, tables, locals, Unconverted, Converting,
         ThreadSteps, SwitchSteps, InitFiberSteps, TypeOK, TypePc, TypeTables,
         TypeLocals
  <2>6. \A u \in Thread, g \in FiberId : OnCpu(u, g)' => OnCpu(u, g)
    BY <1>0, <1>21, StepsLive DEF SwitchSave, Step, Goto, tables, locals, OnCpu, Unconverted,
         Converting, ThreadSteps, SwitchSteps, InitFiberSteps, TypeOK, TypePc,
         TypeTables, TypeLocals
  <2>7. \A u \in Thread, g \in known : InMemory(u, g)' => g = f \/ InMemory(u, g)
    BY <1>0, <1>21, <2>0, <2>1 DEF SwitchSave, Step, Goto, tables, locals, InMemory, SwitchSteps, TypeOK, TypePc,
         TypeTables, TypeLocals
  <2>8. threads \subseteq Thread
    BY <1>0 DEF TypeOK, TypeTables
  <2> QED
    BY <2>2, <2>3, <2>4, <2>5, <2>6, <2>7, <2>8, SavedContext
<1>22. ASSUME NEW t \in Thread, SwitchDetach(t) PROVE ContextInv'
  <2>0. UNCHANGED <<open, known, gp, fp, body, phase, regs, fpu>>
    BY <1>22 DEF SwitchDetach, users, cpus, structs
  <2>1. \A u \in Thread : open /\ Unconverted(u)' => Unconverted(u)
    BY <1>0, <1>22, StepsLive DEF SwitchDetach, Step, Goto, tables, locals,
         Unconverted, Converting, ThreadSteps, SwitchSteps, InitFiberSteps,
         CmdOK, AttachInv, ClientInv, TypeOK, TypeTables, TypePc, TypeLocals,
         TypeLinks
  <2>2. \A u \in Thread, g \in FiberId : OnCpu(u, g)' => OnCpu(u, g)
    BY <1>0, <1>22, StepsLive DEF SwitchDetach, Step, Goto, tables, locals,
         OnCpu, Unconverted, Converting, ThreadSteps, SwitchSteps,
         InitFiberSteps, CmdOK, AttachInv, ClientInv, TypeOK, TypeTables,
         TypePc, TypeLocals, TypeLinks
  <2>3. \A g \in known : ~lock'[g] \/ (\E u \in Thread : InMemory(u, g)')
                         => ~lock[g] \/ (\E u \in Thread : InMemory(u, g))
    BY <1>0, <1>22 DEF SwitchDetach, Step, Goto, tables, locals, structs,
         InMemory, SwitchSteps, TypeOK, TypeTables, TypePc, TypeLocals,
         TypeLinks
  <2>4. Built'
    BY <1>0, <1>22 DEF SwitchDetach, Step, Goto, tables, locals, structs,
         users, ContextInv, Built, TypeOK, TypeTables, TypePc, TypeLocals,
         TypeLinks
  <2> QED
    BY <2>0, <2>1, <2>2, <2>3, <2>4, QuietContext
<1>23. ASSUME NEW t \in Thread, SwitchUnlock(t) PROVE ContextInv'
  <2>0. UNCHANGED <<open, known, gp, fp, body, phase, regs, fpu>>
    BY <1>23 DEF SwitchUnlock, users, cpus, structs
  <2>1. \A u \in Thread : open /\ Unconverted(u)' => Unconverted(u)
    BY <1>0, <1>23, StepsLive DEF SwitchUnlock, Step, Goto, tables, locals,
         Unconverted, Converting, ThreadSteps, SwitchSteps, InitFiberSteps,
         CmdOK, AttachInv, ClientInv, TypeOK, TypeTables, TypePc, TypeLocals,
         TypeLinks
  <2>2. \A u \in Thread, g \in FiberId : OnCpu(u, g)' => OnCpu(u, g)
    BY <1>0, <1>23, StepsLive DEF SwitchUnlock, Step, Goto, tables, locals,
         OnCpu, Unconverted, Converting, ThreadSteps, SwitchSteps,
         InitFiberSteps, CmdOK, AttachInv, ClientInv, TypeOK, TypeTables,
         TypePc, TypeLocals, TypeLinks
  <2>3. \A g \in known : ~lock'[g] \/ (\E u \in Thread : InMemory(u, g)')
                         => ~lock[g] \/ (\E u \in Thread : InMemory(u, g))
    BY <1>0, <1>23 DEF SwitchUnlock, Step, Goto, tables, locals, structs,
         UnlockFiber, InMemory, SwitchSteps, TypeOK, TypeTables, TypePc,
         TypeLocals, TypeLinks
  <2>4. Built'
    BY <1>0, <1>23 DEF SwitchUnlock, Step, Goto, tables, locals, structs,
         users, ContextInv, Built, TypeOK, TypeTables, TypePc, TypeLocals,
         TypeLinks
  <2> QED
    BY <2>0, <2>1, <2>2, <2>3, <2>4, QuietContext
<1>24. ASSUME NEW t \in Thread, SwitchRestore(t) PROVE ContextInv'
  <2>0. t \in threads /\ pc[t] = "switch_restore" /\ sel[t] = cur[t]
    BY <1>0, <1>24, StepsLive DEF SwitchRestore, ThreadSteps, SwitchSteps, ClientInv,
         AttachInv, Attaches
  <2>1. PICK f \in FiberId : f = cur[t]
    BY <1>0, <1>24 DEF SwitchRestore, BaseInv, CurOK, SwitchSteps
  <2>2. InMemory(t, f) /\ f \in known
    BY <2>0, <2>1, InMemoryOwned DEF InMemory, SwitchSteps, ClientInv, LockInv,
         OwnedLocked
  <2>3. Saved(f)
    BY <2>2 DEF ContextInv, Stored
  <2>4. /\ gp' = [gp EXCEPT ![t] = regs[f]] /\ fp' = [fp EXCEPT ![t] = fpu[f]]
        /\ pc' = [pc EXCEPT ![t] = "user"]
        /\ UNCHANGED <<open, known, body, phase, regs, fpu, lock, threads, sel, final>>
        /\ \A u \in Thread \ {t} : UNCHANGED <<cmd[u], cur[u], prev[u]>>
    BY <1>0, <1>24, <2>1 DEF SwitchRestore, Return, Leave, Goto, tables, structs, users,
         TypeOK, TypeLocals
  <2>5. OwnCode'
    <3>1. \A u \in Thread : Unconverted(u)' => u # t /\ Unconverted(u)
      BY <1>0, <2>0, <2>4 DEF Unconverted, Converting, InitFiberSteps, TypeOK, TypePc
    <3> QED
      BY <1>0, <2>4, <3>1 DEF ContextInv, OwnCode, Loaded, Whole, TypeOK, TypeContexts
  <2>6. Bodies'
    BY <2>4 DEF ContextInv, Bodies
  <2>7. Running'
    <3>1. \A u \in Thread, g \in FiberId :
            OnCpu(u, g)' => (u # t /\ OnCpu(u, g)) \/ (u = t /\ g = f)
      BY <1>0, <2>0, <2>1, <2>4 DEF OnCpu, Unconverted, Converting, InitFiberSteps,
           TypeOK, TypePc
    <3>2. Loaded(t, body[f])'
      BY <1>0, <2>3, <2>4 DEF Saved, Loaded, Whole, TypeOK, TypeContexts
    <3>3. \A u \in Thread \ {t}, g \in FiberId : Loaded(u, body[g]) => Loaded(u, body[g])'
      BY <1>0, <2>4 DEF Loaded, Whole, TypeOK, TypeContexts
    <3> QED
      BY <2>2, <2>4, <3>1, <3>2, <3>3 DEF ContextInv, Running
  <2>8. Stored'
    <3>1. \A u \in Thread, g \in FiberId : InMemory(u, g)' => InMemory(u, g)
      BY <1>0, <2>0, <2>4 DEF InMemory, SwitchSteps, TypeOK, TypePc
    <3> QED
      BY <1>0, <2>4, <3>1 DEF ContextInv, Stored, Saved, Whole
  <2>9. Built'
    BY <1>0, <2>4 DEF ContextInv, Built, TypeOK, TypeTables, TypePc
  <2> QED
    BY <2>5, <2>6, <2>7, <2>8, <2>9 DEF ContextInv
<1>25. ASSUME NEW t \in Thread, ExitThread(t) PROVE ContextInv'
  <2>0. UNCHANGED <<open, known, gp, fp, body, phase, regs, fpu>>
    BY <1>25 DEF ExitThread, users, cpus, structs
  <2>1. \A u \in Thread : open /\ Unconverted(u)' => Unconverted(u)
    BY <1>0, <1>25, StepsLive DEF ExitThread, Leave, Continue, Goto,
         tables, locals, Unconverted, Converting, ThreadSteps, SwitchSteps,
         InitFiberSteps, CmdOK, AttachInv, ClientInv, TypeOK, TypeTables,
         TypePc, TypeLocals, TypeLinks
  <2>2. \A u \in Thread, g \in FiberId : OnCpu(u, g)' => OnCpu(u, g)
    BY <1>0, <1>25, StepsLive DEF ExitThread, Leave, Continue, Goto,
         tables, locals, OnCpu, Unconverted, Converting, ThreadSteps,
         SwitchSteps, InitFiberSteps, CmdOK, AttachInv, ClientInv, TypeOK,
         TypeTables, TypePc, TypeLocals, TypeLinks
  <2>3. \A g \in known : ~lock'[g] \/ (\E u \in Thread : InMemory(u, g)')
                         => ~lock[g] \/ (\E u \in Thread : InMemory(u, g))
    BY <1>0, <1>25 DEF ExitThread, Leave, Continue, Goto, tables, locals,
         structs, InMemory, SwitchSteps, TypeOK, TypeTables, TypePc, TypeLocals,
         TypeLinks
  <2>4. Built'
    BY <1>0, <1>25 DEF ExitThread, Leave, Continue, Goto, tables, locals,
         structs, users, ContextInv, Built, TypeOK, TypeTables, TypePc,
         TypeLocals, TypeLinks
  <2> QED
    BY <2>0, <2>1, <2>2, <2>3, <2>4, QuietContext
<1>26. ASSUME NEW t \in Thread, ExitDec(t) PROVE ContextInv'
  <2>0. UNCHANGED <<open, known, gp, fp, body, phase, regs, fpu>>
    BY <1>26 DEF ExitDec, users, cpus, structs
  <2>1. \A u \in Thread : open /\ Unconverted(u)' => Unconverted(u)
    BY <1>0, <1>26, StepsLive DEF ExitDec, Step, Goto, tables, locals,
         Unconverted, Converting, ThreadSteps, SwitchSteps, InitFiberSteps,
         CmdOK, AttachInv, ClientInv, TypeOK, TypeTables, TypePc, TypeLocals,
         TypeLinks
  <2>2. \A u \in Thread, g \in FiberId : OnCpu(u, g)' => OnCpu(u, g)
    BY <1>0, <1>26, StepsLive DEF ExitDec, Step, Goto, tables, locals,
         OnCpu, Unconverted, Converting, ThreadSteps, SwitchSteps,
         InitFiberSteps, CmdOK, AttachInv, ClientInv, TypeOK, TypeTables,
         TypePc, TypeLocals, TypeLinks
  <2>3. \A g \in known : ~lock'[g] \/ (\E u \in Thread : InMemory(u, g)')
                         => ~lock[g] \/ (\E u \in Thread : InMemory(u, g))
    BY <1>0, <1>26 DEF ExitDec, Step, Goto, tables, locals, structs,
         InMemory, SwitchSteps, TypeOK, TypeTables, TypePc, TypeLocals,
         TypeLinks
  <2>4. Built'
    BY <1>0, <1>26 DEF ExitDec, Step, Goto, tables, locals, structs, users,
         ContextInv, Built, TypeOK, TypeTables, TypePc, TypeLocals, TypeLinks
  <2> QED
    BY <2>0, <2>1, <2>2, <2>3, <2>4, QuietContext
<1>27. ASSUME NEW t \in Thread, ExitSave(t) PROVE ContextInv'
  <2>0. t \in threads /\ pc[t] = "exit_save" /\ ~Converting(t)
    BY <1>0, <1>27, StepsLive DEF ExitSave, Step, ThreadSteps, SwitchSteps, Converting,
         InitFiberSteps
  <2>1. PICK f \in FiberId : f = sel[t]
    BY <2>0, SelectedIsOwn DEF ClientInv, AttachInv, Attaches
  <2>2. OnCpu(t, f)
    BY <2>0, <2>1 DEF OnCpu, Unconverted
  <2>3. /\ SaveContext(t, f)
        /\ UNCHANGED <<open, known, gp, fp, body, phase, lock, threads, cur>>
    BY <1>27, <2>1 DEF ExitSave, tables, locals, cpus, users
  <2>4. \A u \in Thread : pc'[u] \in BuildSteps => pc'[u] = pc[u]
    BY <1>0, <1>27 DEF ExitSave, Step, Goto, BuildSteps, TypeOK, TypePc
  <2>5. \A u \in Thread : open /\ Unconverted(u)' => Unconverted(u)
    BY <1>0, <1>27, StepsLive DEF ExitSave, Step, Goto, tables, locals, Unconverted, Converting,
         ThreadSteps, SwitchSteps, InitFiberSteps, TypeOK, TypePc, TypeTables,
         TypeLocals
  <2>6. \A u \in Thread, g \in FiberId : OnCpu(u, g)' => OnCpu(u, g)
    BY <1>0, <1>27, StepsLive DEF ExitSave, Step, Goto, tables, locals, OnCpu, Unconverted,
         Converting, ThreadSteps, SwitchSteps, InitFiberSteps, TypeOK, TypePc,
         TypeTables, TypeLocals
  <2>7. \A u \in Thread, g \in known : InMemory(u, g)' => g = f \/ InMemory(u, g)
    BY <1>0, <1>27, <2>0, <2>1 DEF ExitSave, Step, Goto, tables, locals, InMemory, SwitchSteps, TypeOK, TypePc,
         TypeTables, TypeLocals
  <2>8. threads \subseteq Thread
    BY <1>0 DEF TypeOK, TypeTables
  <2> QED
    BY <2>2, <2>3, <2>4, <2>5, <2>6, <2>7, <2>8, SavedContext
<1>28. ASSUME NEW t \in Thread, ExitDetach(t) PROVE ContextInv'
  <2>0. UNCHANGED <<open, known, gp, fp, body, phase, regs, fpu>>
    BY <1>28 DEF ExitDetach, users, cpus, structs
  <2>1. \A u \in Thread : open /\ Unconverted(u)' => Unconverted(u)
    BY <1>0, <1>28, StepsLive DEF ExitDetach, Step, Goto, tables, locals,
         Unconverted, Converting, ThreadSteps, SwitchSteps, InitFiberSteps,
         CmdOK, AttachInv, ClientInv, TypeOK, TypeTables, TypePc, TypeLocals,
         TypeLinks
  <2>2. \A u \in Thread, g \in FiberId : OnCpu(u, g)' => OnCpu(u, g)
    BY <1>0, <1>28, StepsLive DEF ExitDetach, Step, Goto, tables, locals,
         OnCpu, Unconverted, Converting, ThreadSteps, SwitchSteps,
         InitFiberSteps, CmdOK, AttachInv, ClientInv, TypeOK, TypeTables,
         TypePc, TypeLocals, TypeLinks
  <2>3. \A g \in known : ~lock'[g] \/ (\E u \in Thread : InMemory(u, g)')
                         => ~lock[g] \/ (\E u \in Thread : InMemory(u, g))
    BY <1>0, <1>28 DEF ExitDetach, Step, Goto, tables, locals, structs,
         InMemory, SwitchSteps, TypeOK, TypeTables, TypePc, TypeLocals,
         TypeLinks
  <2>4. Built'
    BY <1>0, <1>28 DEF ExitDetach, Step, Goto, tables, locals, structs,
         users, ContextInv, Built, TypeOK, TypeTables, TypePc, TypeLocals,
         TypeLinks
  <2> QED
    BY <2>0, <2>1, <2>2, <2>3, <2>4, QuietContext
<1>29. ASSUME NEW t \in Thread, ExitUnlock(t) PROVE ContextInv'
  <2>0. UNCHANGED <<open, known, gp, fp, body, phase, regs, fpu>>
    BY <1>29 DEF ExitUnlock, users, cpus, structs
  <2>1. \A u \in Thread : open /\ Unconverted(u)' => Unconverted(u)
    BY <1>0, <1>29, StepsLive DEF ExitUnlock, Step, Goto, tables, locals,
         Unconverted, Converting, ThreadSteps, SwitchSteps, InitFiberSteps,
         CmdOK, AttachInv, ClientInv, TypeOK, TypeTables, TypePc, TypeLocals,
         TypeLinks
  <2>2. \A u \in Thread, g \in FiberId : OnCpu(u, g)' => OnCpu(u, g)
    BY <1>0, <1>29, StepsLive DEF ExitUnlock, Step, Goto, tables, locals,
         OnCpu, Unconverted, Converting, ThreadSteps, SwitchSteps,
         InitFiberSteps, CmdOK, AttachInv, ClientInv, TypeOK, TypeTables,
         TypePc, TypeLocals, TypeLinks
  <2>3. \A g \in known : ~lock'[g] \/ (\E u \in Thread : InMemory(u, g)')
                         => ~lock[g] \/ (\E u \in Thread : InMemory(u, g))
    BY <1>0, <1>29 DEF ExitUnlock, Step, Goto, tables, locals, structs,
         UnlockFiber, InMemory, SwitchSteps, TypeOK, TypeTables, TypePc,
         TypeLocals, TypeLinks
  <2>4. Built'
    BY <1>0, <1>29 DEF ExitUnlock, Step, Goto, tables, locals, structs,
         users, ContextInv, Built, TypeOK, TypeTables, TypePc, TypeLocals,
         TypeLinks
  <2> QED
    BY <2>0, <2>1, <2>2, <2>3, <2>4, QuietContext
<1>30. ASSUME NEW t \in Thread, ExitFreeThread(t) PROVE ContextInv'
  <2>0. UNCHANGED <<open, known, gp, fp, body, phase, regs, fpu>>
    BY <1>30 DEF ExitFreeThread, users, cpus, structs
  <2>1. \A u \in Thread : open /\ Unconverted(u)' => Unconverted(u)
    BY <1>0, <1>30, StepsLive DEF ExitFreeThread, Leave, Continue, Goto,
         tables, locals, Unconverted, Converting, ThreadSteps, SwitchSteps,
         InitFiberSteps, CmdOK, AttachInv, ClientInv, TypeOK, TypeTables,
         TypePc, TypeLocals, TypeLinks
  <2>2. \A u \in Thread, g \in FiberId : OnCpu(u, g)' => OnCpu(u, g)
    BY <1>0, <1>30, StepsLive DEF ExitFreeThread, Leave, Continue, Goto,
         tables, locals, OnCpu, Unconverted, Converting, ThreadSteps,
         SwitchSteps, InitFiberSteps, CmdOK, AttachInv, ClientInv, TypeOK,
         TypeTables, TypePc, TypeLocals, TypeLinks
  <2>3. \A g \in known : ~lock'[g] \/ (\E u \in Thread : InMemory(u, g)')
                         => ~lock[g] \/ (\E u \in Thread : InMemory(u, g))
    BY <1>0, <1>30 DEF ExitFreeThread, Leave, Continue, Goto, tables,
         locals, structs, InMemory, SwitchSteps, TypeOK, TypeTables, TypePc,
         TypeLocals, TypeLinks
  <2>4. Built'
    BY <1>0, <1>30 DEF ExitFreeThread, Leave, Continue, Goto, tables,
         locals, structs, users, ContextInv, Built, TypeOK, TypeTables, TypePc,
         TypeLocals, TypeLinks
  <2> QED
    BY <2>0, <2>1, <2>2, <2>3, <2>4, QuietContext
<1>31. ASSUME NEW t \in Thread, ExitFreeProcess(t) PROVE ContextInv'
  <2>1. t = Main /\ pc' = [pc EXCEPT ![t] = "dead"] /\ known' = {} /\ threads' = {}
    BY <1>31 DEF ExitFreeProcess, FreeProcess, Step, Goto, ClientInv, JoinedInv, Final
  <2>2. \A u \in Thread : pc'[u] = "dead"
    BY <1>0, <1>31, <2>1 DEF ExitFreeProcess, Step, ClientInv, JoinedInv, ExitSteps,
         Dead, TypeOK, TypePc
  <2> QED
    BY <2>1, <2>2, GoneContext
<1>32. ASSUME NEW t \in Thread, Fault(t) PROVE ContextInv'
  BY <1>32, StepsLive DEF Fault
<1>33. ASSUME NEW t \in Thread, NEW f \in FiberId, CallSwitch(t, f) PROVE ContextInv'
  <2>0. UNCHANGED <<open, known, gp, fp, body, phase, regs, fpu>>
    BY <1>33 DEF CallSwitch, users, cpus, structs
  <2>1. \A u \in Thread : open /\ Unconverted(u)' => Unconverted(u)
    BY <1>0, <1>33, StepsLive DEF CallSwitch, Goto, tables, locals,
         Unconverted, Converting, ThreadSteps, SwitchSteps, InitFiberSteps,
         CmdOK, AttachInv, ClientInv, TypeOK, TypeTables, TypePc, TypeLocals,
         TypeLinks
  <2>2. \A u \in Thread, g \in FiberId : OnCpu(u, g)' => OnCpu(u, g)
    BY <1>0, <1>33, StepsLive DEF CallSwitch, Goto, tables, locals, OnCpu,
         Unconverted, Converting, ThreadSteps, SwitchSteps, InitFiberSteps,
         CmdOK, AttachInv, ClientInv, TypeOK, TypeTables, TypePc, TypeLocals,
         TypeLinks
  <2>3. \A g \in known : ~lock'[g] \/ (\E u \in Thread : InMemory(u, g)')
                         => ~lock[g] \/ (\E u \in Thread : InMemory(u, g))
    BY <1>0, <1>33 DEF CallSwitch, Goto, tables, locals, structs, InMemory,
         SwitchSteps, TypeOK, TypeTables, TypePc, TypeLocals, TypeLinks
  <2>4. Built'
    BY <1>0, <1>33 DEF CallSwitch, Goto, tables, locals, structs, users,
         ContextInv, Built, TypeOK, TypeTables, TypePc, TypeLocals, TypeLinks
  <2> QED
    BY <2>0, <2>1, <2>2, <2>3, <2>4, QuietContext
<1>34. CASE UNCHANGED vars
  BY <1>34 DEF vars, tables, structs, locals, cpus, users, ContextInv,
       OwnCode, Bodies, Built, Running, Stored, Unconverted, Converting, OnCpu,
       InMemory, Loaded, Saved, Whole
<1> QED
  BY <1>1, <1>2, <1>3, <1>4, <1>5, <1>6, <1>7, <1>8, <1>9, <1>10, <1>11,
       <1>12, <1>13, <1>14, <1>15, <1>16, <1>17, <1>18, <1>19, <1>20, <1>21,
       <1>22, <1>23, <1>24, <1>25, <1>26, <1>27, <1>28, <1>29, <1>30, <1>31,
       <1>32, <1>33, <1>34 DEF Next, UserStep, KernelStep, Finished

\* Before any call every thread runs its own code.
LEMMA ContextInit == Init => ContextInv
<1> SUFFICES ASSUME Init PROVE ContextInv
  OBVIOUS
<1>1. OwnCode
  BY DEF Init, OwnCode, Loaded, Whole, Code
<1>2. Running
  BY DEF Init, Running, OnCpu
<1> QED
  BY <1>1, <1>2 DEF Init, ContextInv, Bodies, Built, Stored

\* The lower invariants together.
LEMMA ClientInvariant ==
  ASSUME Joined, ~GuessIds
  PROVE  Spec => []ClientInv
<1>1. BaseInv /\ LockInv /\ AttachInv /\ ExitInv /\ JoinedInv => ClientInv
  BY DEF ClientInv
<1> QED
  BY <1>1, BaseInvariant, LockInvariant, AttachInvariant, ExitInvariant,
     JoinedInvariant, PTL

\* Where every context is: the invariant a context switch relies on holds for
\* every number of threads and fibers and however long the code runs.
THEOREM ContextInvariant ==
  ASSUME Joined, ~GuessIds
  PROVE  Spec => []ContextInv
<1>1. ClientInv /\ ClientInv' /\ ContextInv /\ [Next]_vars => ContextInv'
  BY ContextStep
<1> QED
  BY <1>1, ContextInit, ClientInvariant, PTL DEF Spec

\* A converted thread in user mode has exactly the registers of the fiber it
\* selected, at the point that fiber had reached, whichever threads ran it.
THEOREM ContextsIntact ==
  ASSUME Joined, ~GuessIds
  PROVE  Spec => []ContextIntegrity
<1>1. ClientInv /\ ContextInv => ContextIntegrity
  <2> SUFFICES ASSUME ClientInv, ContextInv, NEW t \in Thread, pc[t] = "user",
                      t \in threads
               PROVE  Whole(gp[t], fp[t], body[sel[t]])
    BY DEF ContextIntegrity, Whole
  <2>1. ~Converting(t)
    BY DEF Converting, InitFiberSteps
  <2>2. sel[t] \in FiberId
    BY <2>1, SelectedIsOwn DEF ClientInv
  <2>3. OnCpu(t, sel[t])
    BY <2>1 DEF OnCpu, Unconverted
  <2> QED
    BY <2>2, <2>3 DEF ContextInv, Running, Loaded
<1> QED
  BY <1>1, ClientInvariant, ContextInvariant, PTL

\* A fiber whose lock is free is attached to nobody and its saved context is
\* where its code stopped.
THEOREM SuspendedFibersIntact ==
  ASSUME Joined, ~GuessIds
  PROVE  Spec => []SuspendedIntact
<1>1. ClientInv /\ ContextInv => SuspendedIntact
  BY DEF ClientInv, AttachInv, ContextInv, Stored, Saved, Whole, SuspendedIntact
<1> QED
  BY <1>1, ClientInvariant, ContextInvariant, PTL

-----------------------------------------------------------------------------
(***************************************************************************)
(* Refinement of FiberSpec                                                 *)
(***************************************************************************)

\* The last thread leaves a fiber: it was converted.
LeavesFiber == \A t \in Thread : pc[t] = "exit_free_process" => sel[t] \in FiberId

\* Everything the refinement builds on.
PromiseInv == ClientInv /\ ContextInv /\ LocksHeld /\ LeavesFiber

\* Every step keeps LeavesFiber.
LEMMA LeavesStep ==
  ASSUME ~GuessIds, BaseInv, LockInv, AttachInv, LeavesFiber, [Next]_vars
  PROVE  LeavesFiber'
<1>0. TypePc /\ TypeLinks
  BY DEF BaseInv, TypeOK
<1>1. ASSUME NEW t \in Thread, Work(t) PROVE LeavesFiber'
  BY <1>0, <1>1 DEF Work, LeavesFiber, TypePc, TypeLinks
<1>2. ASSUME NEW t \in Thread, CallConvert(t) PROVE LeavesFiber'
  BY <1>0, <1>2 DEF CallConvert, Goto, LeavesFiber, TypePc, TypeLinks
<1>3. ASSUME NEW t \in Thread, CallCreate(t) PROVE LeavesFiber'
  BY <1>0, <1>3 DEF CallCreate, Goto, LeavesFiber, TypePc, TypeLinks
<1>4. ASSUME NEW t \in Thread, CallExit(t) PROVE LeavesFiber'
  BY <1>0, <1>4 DEF CallExit, Goto, Leave, LeavesFiber, TypePc, TypeLinks
<1>5. ASSUME NEW t \in Thread, Close(t) PROVE LeavesFiber'
  BY <1>0, <1>5 DEF Close, LeavesFiber, TypePc, TypeLinks
<1>6. ASSUME NEW t \in Thread, FindThread(t) PROVE LeavesFiber'
  BY <1>0, <1>6 DEF FindThread, Return, Leave, Continue, Goto, LeavesFiber,
       TypePc, TypeLinks
<1>7. ASSUME NEW t \in Thread, ConvertLock(t) PROVE LeavesFiber'
  BY <1>0, <1>7 DEF ConvertLock, Step, Goto, LeavesFiber, TypePc, TypeLinks
<1>8. ASSUME NEW t \in Thread, ConvertFind(t) PROVE LeavesFiber'
  BY <1>0, <1>8 DEF ConvertFind, Step, Goto, LeavesFiber, TypePc, TypeLinks
<1>9. ASSUME NEW t \in Thread, ConvertProcess(t) PROVE LeavesFiber'
  BY <1>0, <1>9 DEF ConvertProcess, Goto, LeavesFiber, TypePc, TypeLinks
<1>10. ASSUME NEW t \in Thread, ConvertThread(t) PROVE LeavesFiber'
  BY <1>0, <1>10 DEF ConvertThread, Return, Leave, Continue, Goto,
       LeavesFiber, TypePc, TypeLinks
<1>11. ASSUME NEW t \in Thread, InitFiberReserve(t) PROVE LeavesFiber'
  BY <1>0, <1>11 DEF InitFiberReserve, Step, Goto, LeavesFiber, TypePc,
       TypeLinks
<1>12. ASSUME NEW t \in Thread, InitFiberPublish(t) PROVE LeavesFiber'
  BY <1>0, <1>12 DEF InitFiberPublish, Step, Goto, LeavesFiber, TypePc,
       TypeLinks
<1>13. ASSUME NEW t \in Thread, ConvertStack(t) PROVE LeavesFiber'
  BY <1>0, <1>13 DEF ConvertStack, Step, Goto, LeavesFiber, TypePc,
       TypeLinks
<1>14. ASSUME NEW t \in Thread, ConvertAttach(t) PROVE LeavesFiber'
  BY <1>0, <1>14 DEF ConvertAttach, Step, Goto, LeavesFiber, TypePc,
       TypeLinks
<1>15. ASSUME NEW t \in Thread, ConvertTrylock(t) PROVE LeavesFiber'
  BY <1>0, <1>15 DEF ConvertTrylock, Return, Leave, Goto, LeavesFiber,
       TypePc, TypeLinks
<1>16. ASSUME NEW t \in Thread, CreateEntry(t) PROVE LeavesFiber'
  BY <1>0, <1>16 DEF CreateEntry, Return, Leave, Goto, LeavesFiber, TypePc,
       TypeLinks
<1>17. ASSUME NEW t \in Thread, SwitchLookup(t) PROVE LeavesFiber'
  BY <1>0, <1>17 DEF SwitchLookup, Return, Leave, Continue, Goto,
       LeavesFiber, TypePc, TypeLinks
<1>18. ASSUME NEW t \in Thread, SwitchTrylock(t) PROVE LeavesFiber'
  BY <1>0, <1>18 DEF SwitchTrylock, Return, Leave, Continue, Goto,
       LeavesFiber, TypePc, TypeLinks
<1>19. ASSUME NEW t \in Thread, SwitchCheck(t) PROVE LeavesFiber'
  BY <1>0, <1>19 DEF SwitchCheck, Return, Leave, Continue, Goto,
       LeavesFiber, TypePc, TypeLinks
<1>20. ASSUME NEW t \in Thread, SwitchAttach(t) PROVE LeavesFiber'
  BY <1>0, <1>20 DEF SwitchAttach, Step, Goto, LeavesFiber, TypePc,
       TypeLinks
<1>21. ASSUME NEW t \in Thread, SwitchSave(t) PROVE LeavesFiber'
  BY <1>0, <1>21 DEF SwitchSave, Step, Goto, LeavesFiber, TypePc, TypeLinks
<1>22. ASSUME NEW t \in Thread, SwitchDetach(t) PROVE LeavesFiber'
  BY <1>0, <1>22 DEF SwitchDetach, Step, Goto, LeavesFiber, TypePc,
       TypeLinks
<1>23. ASSUME NEW t \in Thread, SwitchUnlock(t) PROVE LeavesFiber'
  BY <1>0, <1>23 DEF SwitchUnlock, Step, Goto, LeavesFiber, TypePc,
       TypeLinks
<1>24. ASSUME NEW t \in Thread, SwitchRestore(t) PROVE LeavesFiber'
  BY <1>0, <1>24 DEF SwitchRestore, Return, Leave, Goto, LeavesFiber,
       TypePc, TypeLinks
<1>25. ASSUME NEW t \in Thread, ExitThread(t) PROVE LeavesFiber'
  BY <1>0, <1>25 DEF ExitThread, Leave, Continue, Goto, LeavesFiber,
       TypePc, TypeLinks
<1>26. ASSUME NEW t \in Thread, ExitDec(t) PROVE LeavesFiber'
  BY <1>0, <1>26 DEF ExitDec, Step, Goto, LeavesFiber, TypePc, TypeLinks
<1>27. ASSUME NEW t \in Thread, ExitSave(t) PROVE LeavesFiber'
  BY <1>0, <1>27 DEF ExitSave, Step, Goto, LeavesFiber, TypePc, TypeLinks
<1>28. ASSUME NEW t \in Thread, ExitDetach(t) PROVE LeavesFiber'
  BY <1>0, <1>28 DEF ExitDetach, Step, Goto, LeavesFiber, TypePc, TypeLinks
<1>29. ASSUME NEW t \in Thread, ExitUnlock(t) PROVE LeavesFiber'
  BY <1>0, <1>29 DEF ExitUnlock, Step, Goto, LeavesFiber, TypePc, TypeLinks
<1>30. ASSUME NEW t \in Thread, ExitFreeThread(t) PROVE LeavesFiber'
  <2>1. ep[t] = "live" => t \in threads
    BY <1>30 DEF ExitFreeThread, BaseInv, PointersOK, ThreadSteps
  <2>2. ep[t] = "live"
    BY <1>30 DEF ExitFreeThread, BaseInv, PointersOK, TypeOK, TypeLocals
  <2>3. ~Converting(t)
    BY <1>30 DEF ExitFreeThread, Converting, InitFiberSteps
  <2>4. sel[t] \in FiberId
    BY <2>1, <2>2, <2>3, SelectedIsOwn
  <2> QED
    BY <1>0, <1>30, <2>4 DEF ExitFreeThread, Leave, Continue, Goto, LeavesFiber, TypePc
<1>31. ASSUME NEW t \in Thread, ExitFreeProcess(t) PROVE LeavesFiber'
  BY <1>0, <1>31 DEF ExitFreeProcess, Step, Goto, LeavesFiber, TypePc,
       TypeLinks
<1>32. ASSUME NEW t \in Thread, Fault(t) PROVE LeavesFiber'
  BY <1>0, <1>32 DEF Fault, Goto, LeavesFiber, TypePc, TypeLinks
<1>33. ASSUME NEW t \in Thread, NEW f \in FiberId, CallSwitch(t, f) PROVE LeavesFiber'
  BY <1>0, <1>33 DEF CallSwitch, Goto, LeavesFiber, TypePc, TypeLinks
<1>34. CASE UNCHANGED vars
  BY <1>34 DEF vars, LeavesFiber
<1> QED
  BY <1>1, <1>2, <1>3, <1>4, <1>5, <1>6, <1>7, <1>8, <1>9, <1>10, <1>11,
       <1>12, <1>13, <1>14, <1>15, <1>16, <1>17, <1>18, <1>19, <1>20, <1>21,
       <1>22, <1>23, <1>24, <1>25, <1>26, <1>27, <1>28, <1>29, <1>30, <1>31,
       <1>32, <1>33, <1>34 DEF Next, UserStep, KernelStep, Finished

\* Whatever thread t runs, in terms of where the contexts are.
LEMMA RunIs ==
  PromiseInv =>
    \A t \in Thread, f \in FiberId :
      RunOf(t) = f <=> OnCpu(t, f) \/ (pc[t] = "switch_restore" /\ sel[t] = f)
<1> SUFFICES ASSUME PromiseInv, NEW t \in Thread, NEW f \in FiberId
             PROVE  RunOf(t) = f
                      <=> OnCpu(t, f) \/ (pc[t] = "switch_restore" /\ sel[t] = f)
  OBVIOUS
<1>0. ClientInv /\ ContextInv /\ f # NoFiber
  BY DEF PromiseInv, FiberId, NoFiber
<1>1. ASSUME t \in threads, f \in known, sel[t] = f PROVE ~Unconverted(t)
  <2>1. CASE Converting(t)
    BY <1>0, <1>1, <2>1 DEF ClientInv, AttachInv, Attaches
  <2>2. CASE pc[t] = "convert_trylock"
    <3>1. ep[t] = "live"
      BY <1>0, <2>2, StepsLive DEF ThreadSteps
    <3>2. sel[t] = cur[t]
      BY <1>0, <2>2 DEF ClientInv, LockInv, SwitchOK
    <3>3. Builds(t, f)
      BY <1>1, <2>2, <3>1, <3>2 DEF Builds, BuildSteps
    <3> QED
      BY <1>0, <1>1, <3>3 DEF ClientInv, LockInv, Unreturned
  <2> QED
    BY <1>1, <2>1, <2>2 DEF Unconverted
<1>2. OnCpu(t, f) => f \in known
  BY <1>0 DEF ContextInv, Running
<1>3. pc[t] = "switch_restore" /\ sel[t] = f => t \in threads /\ f \in known
  <2> SUFFICES ASSUME pc[t] = "switch_restore", sel[t] = f
               PROVE  t \in threads /\ f \in known
    OBVIOUS
  <2>1. t \in threads
    BY <1>0, StepsLive DEF ThreadSteps, SwitchSteps
  <2> QED
    BY <1>0, <2>1 DEF Owns, ClientInv, LockInv, OwnedLocked
<1>4. CASE pc[t] \in {"switch_save", "switch_detach", "switch_unlock"}
  BY <1>4, <1>0 DEF RunOf, OnCpu
<1>5. CASE pc[t] = "exit_free_process"
  BY <1>5 DEF RunOf, OnCpu
<1>6. CASE pc[t] = "exit_free_thread" /\ ~final[t]
  BY <1>6, <1>0 DEF RunOf, OnCpu
<1>7. CASE /\ pc[t] \notin {"switch_save", "switch_detach", "switch_unlock",
                            "exit_free_process"}
           /\ ~(pc[t] = "exit_free_thread" /\ ~final[t])
  <2>1. RunOf(t) = IF t \in threads /\ sel[t] \in known THEN sel[t] ELSE NoFiber
    BY <1>7 DEF RunOf
  <2> QED
    BY <1>0, <1>1, <1>2, <1>3, <1>7, <2>1 DEF OnCpu
<1> QED
  BY <1>4, <1>5, <1>6, <1>7

\* The context of a fiber, wherever the module keeps it, is where its code has
\* come to.
Reached(f) == IF f \in known THEN [code |-> body[f], phase |-> phase[body[f]]]
                             ELSE [code |-> f, phase |-> 0]

LEMMA ContextIs ==
  PromiseInv => \A f \in FiberId : ContextOf(f) = Reached(f)
<1> SUFFICES ASSUME PromiseInv, NEW f \in FiberId, f \in known
             PROVE  ContextOf(f) = Reached(f)
  BY DEF ContextOf, Reached
<1> DEFINE inCPU == {t \in Thread : RunOf(t) = f /\ pc[t] # "switch_restore"}
<1>0. ClientInv /\ ContextInv /\ LocksHeld
  BY DEF PromiseInv
<1>1. CASE inCPU # {}
  <2> DEFINE u == CHOOSE t \in inCPU : TRUE
  <2>1. u \in inCPU
    BY <1>1
  <2> HIDE DEF u
  <2>2. OnCpu(u, f)
    BY <2>1, RunIs
  <2>3. Whole(gp[u], fp[u], body[f])
    BY <1>0, <2>1, <2>2 DEF ContextInv, Running, Loaded
  <2>4. gp[u].code = body[f] /\ gp[u].phase = phase[body[f]]
    BY <2>3, WholeFields
  <2>5. ContextOf(f) = [code |-> gp[u].code, phase |-> gp[u].phase]
    BY <1>1 DEF ContextOf, u
  <2> QED
    BY <2>4, <2>5 DEF Reached
<1>2. CASE inCPU = {}
  <2>1. ~lock[f] \/ \E t \in Thread : InMemory(t, f)
    <3> SUFFICES ASSUME lock[f] PROVE \E t \in Thread : InMemory(t, f)
      OBVIOUS
    <3>1. PICK t \in Thread : Holds(t, f)
      BY <1>0 DEF LocksHeld
    <3>2. ~OnCpu(t, f) /\ (RunOf(t) = f => pc[t] = "switch_restore")
      BY <1>2, RunIs DEF OnCpu
    <3>3. t \in threads => Attaches(t)
      BY <1>0 DEF ClientInv, AttachInv
    <3>4. CASE pc[t] = "exit_free_process"
      BY <3>1, <3>2, <3>4 DEF Holds, OnCpu
    <3>5. CASE /\ t \in threads /\ sel[t] = f /\ pc[t] # "convert_trylock"
               /\ pc[t] = "exit_free_thread" => final[t]
      <4>1. ~Converting(t)
        BY <3>3, <3>5 DEF Attaches, FiberId, NoFiber
      <4>2. pc[t] \in {"switch_save", "switch_detach", "switch_unlock",
                       "switch_restore"}
        BY <3>2, <3>5, <4>1 DEF OnCpu, Unconverted
      <4> QED
        BY <3>3, <3>5, <4>2 DEF Attaches, InMemory, SwitchSteps
    <3>6. CASE cur[t] = f /\ pc[t] \in {"switch_check", "switch_attach"}
      BY <3>6 DEF InMemory, SwitchSteps
    <3>7. CASE /\ prev[t] = f
               /\ pc[t] \in {"switch_save", "switch_detach", "switch_unlock"}
      BY <3>2, <3>7 DEF OnCpu
    <3> QED
      BY <3>1, <3>4, <3>5, <3>6, <3>7 DEF Holds
  <2>2. Whole(regs[f], fpu[f], body[f])
    BY <1>0, <2>1 DEF ContextInv, Stored, Saved
  <2>3. regs[f].code = body[f] /\ regs[f].phase = phase[body[f]]
    BY <2>2, WholeFields
  <2>4. ContextOf(f) = [code |-> regs[f].code, phase |-> regs[f].phase]
    BY <1>2 DEF ContextOf
  <2> QED
    BY <2>3, <2>4 DEF Reached
<1> QED
  BY <1>1, <1>2

\* A converted thread that is not past its clean-up has selected a fiber that
\* exists.
LEMMA SelectedExists ==
  ASSUME PromiseInv, NEW t \in threads, ~Unconverted(t), pc[t] # "exit_free_thread"
  PROVE  t \in Thread /\ sel[t] \in FiberId /\ sel[t] \in known /\ Owns(t, sel[t])
<1>1. BaseInv /\ LockInv /\ AttachInv
  BY DEF PromiseInv, ClientInv
<1>2. ~Converting(t) /\ pc[t] # "convert_trylock"
  BY DEF Unconverted
<1>3. t \in Thread /\ sel[t] \in FiberId
  BY <1>1, <1>2, SelectedIsOwn
<1>4. Owns(t, sel[t])
  BY <1>2 DEF Owns
<1> QED
  BY <1>1, <1>3, <1>4 DEF LockInv, OwnedLocked

\* Nobody runs a fiber that another thread builds, nor has selected it.
LEMMA BuiltUnrun ==
  ASSUME PromiseInv, NEW t \in Thread, NEW f \in FiberId, Builds(t, f),
         NEW u \in Thread, u # t, sel[u] = f
  PROVE  u \notin threads \/ (pc[u] = "exit_free_thread" /\ ~final[u])
<1> SUFFICES ASSUME u \in threads PROVE pc[u] = "exit_free_thread" /\ ~final[u]
  OBVIOUS
<1>0. ClientInv /\ BaseInv /\ LockInv /\ AttachInv
  BY DEF PromiseInv, ClientInv
<1>1. ~Converting(u)
  BY <1>0 DEF AttachInv, Attaches, FiberId, NoFiber
<1>2. pc[u] = "exit_free_thread"
  BY <1>0, <1>1, SelectedIsOwn, Separate
<1>3. ASSUME final[u] PROVE FALSE
  <2>1. u = Main
    BY <1>0, <1>2, <1>3 DEF ClientInv, JoinedInv, Final, Leaving
  <2>2. Dead(t)
    BY <1>0, <1>2, <2>1 DEF ClientInv, JoinedInv, ExitSteps
  <2> QED
    BY <2>2 DEF Dead, Builds, BuildSteps
<1> QED
  BY <1>2, <1>3

\* What the refinement mapping shows of the state, and of the next one.
LEMMA MapIs == PromiseInv => ContextMap = [f \in FiberId |-> Reached(f)]
BY ContextIs DEF ContextMap

LEMMA MapIsPrimed ==
  ASSUME PromiseInv'
  PROVE  ContextMap' = [f \in FiberId |-> Reached(f)']
<1>1. (PromiseInv => ContextMap = [f \in FiberId |-> Reached(f)])'
  BY MapIs, PTL
<1> QED
  BY <1>1

\* A step that lets every thread run the same fiber, and neither adds nor moves
\* a fiber, is invisible.
LEMMA Stutters ==
  ASSUME PromiseInv, PromiseInv', known' = known,
         \A u \in Thread : RunOf(u)' = RunOf(u),
         \A g \in known : body'[g] = body[g] /\ phase'[body[g]] = phase[body[g]]
  PROVE  UNCHANGED Promise!vars
<1>1. RunMap' = RunMap
  BY DEF RunMap
<1>2. \A f \in FiberId : Reached(f)' = Reached(f)
  BY DEF Reached
<1>3. ContextMap' = ContextMap
  BY <1>2, MapIs, MapIsPrimed
<1> QED
  BY <1>1, <1>3 DEF Promise!vars

\* The steps that show.  A conversion takes place when the call returns.
LEMMA ConvertShows ==
  ASSUME PromiseInv, PromiseInv', NEW t \in Thread, ConvertTrylock(t)
  PROVE  \E f \in FiberId : Promise!Convert(t, f)
<1>0. ClientInv /\ BaseInv /\ LockInv /\ AttachInv /\ ContextInv
  BY DEF PromiseInv, ClientInv
<1>1. PICK f \in FiberId : f = cur[t]
  BY <1>0 DEF ConvertTrylock, BaseInv, CurOK, BuildSteps
<1>2. t \in threads /\ ep[t] = "live" /\ pc[t] = "convert_trylock"
  BY <1>0, StepsLive DEF ConvertTrylock, ThreadSteps
<1>3. Builds(t, f) /\ sel[t] = f /\ f \in fibers /\ f \notin known /\ ~lock[f]
  <2>1. Builds(t, f) /\ sel[t] = f
    BY <1>0, <1>1, <1>2 DEF Builds, BuildSteps, LockInv, SwitchOK
  <2>2. f \in fibers /\ f \notin known
    BY <1>0, <1>2, <2>1 DEF BaseInv, IdsOK, LockInv, Unreturned
  <2> QED
    BY <1>0, <2>1, <2>2 DEF LockInv, Unreturned
<1>4. /\ known' = known \cup {f} /\ pc' = [pc EXCEPT ![t] = "user"]
      /\ prev' = [prev EXCEPT ![t] = NoFiber]
      /\ UNCHANGED <<threads, sel, final, body, phase>>
  BY <1>1, <1>3 DEF ConvertTrylock, TrylockFails, Return, Leave, Goto, tables
<1>5. RunOf(t) = NoFiber /\ RunOf(t)' = f
  BY <1>0, <1>2, <1>3, <1>4 DEF RunOf, BaseInv, TypeOK, TypePc
<1>6. ASSUME NEW u \in Thread, u # t PROVE RunOf(u)' = RunOf(u)
  <2>1. /\ pc'[u] = pc[u] /\ prev'[u] = prev[u] /\ sel'[u] = sel[u]
        /\ final'[u] = final[u]
    BY <1>0, <1>4, <1>6 DEF BaseInv, TypeOK, TypePc, TypeLocals
  <2>2. sel[u] = f => u \notin threads \/ (pc[u] = "exit_free_thread" /\ ~final[u])
    BY <1>3, <1>6, BuiltUnrun
  <2> QED
    BY <1>4, <2>1, <2>2 DEF RunOf
<1>7. RunMap' = [RunMap EXCEPT ![t] = f]
  BY <1>5, <1>6 DEF RunMap
<1>8. body[f] = t /\ phase[t] \in 0..Phases
  BY <1>0, <1>1, <1>2 DEF ContextInv, Built, BaseInv, TypeOK, TypeContexts, Code
<1>9. Reached(f)' = [code |-> t, phase |-> phase[t]]
      /\ \A g \in FiberId \ {f} : Reached(g)' = Reached(g)
  BY <1>4, <1>8 DEF Reached
<1>10. ContextMap' = [ContextMap EXCEPT ![f] = [code |-> t, phase |-> phase[t]]]
  BY <1>9, MapIs, MapIsPrimed
<1>11. RunMap[t] = NoFiber
  BY <1>5 DEF RunMap
<1> QED
  BY <1>3, <1>4, <1>7, <1>8, <1>10, <1>11 DEF Promise!Convert

\* A creation takes place when the call returns.
LEMMA CreateShows ==
  ASSUME PromiseInv, PromiseInv', NEW t \in Thread, CreateEntry(t)
  PROVE  \E f \in FiberId : Promise!Create(t, f)
<1>0. ClientInv /\ BaseInv /\ LockInv /\ AttachInv /\ ContextInv
  BY DEF PromiseInv, ClientInv
<1>1. PICK f \in FiberId : f = cur[t]
  BY <1>0 DEF CreateEntry, BaseInv, CurOK, BuildSteps
<1>2. t \in threads /\ ep[t] = "live" /\ pc[t] = "create_entry"
  BY <1>0, StepsLive DEF CreateEntry, ThreadSteps
<1>3. Builds(t, f) /\ f \notin known
  <2>1. Builds(t, f)
    BY <1>1, <1>2 DEF Builds, BuildSteps
  <2> QED
    BY <1>0, <2>1 DEF LockInv, Unreturned
<1>4. /\ known' = known \cup {f} /\ pc' = [pc EXCEPT ![t] = "user"]
      /\ prev' = [prev EXCEPT ![t] = NoFiber]
      /\ UNCHANGED <<threads, sel, final, body, phase>>
  BY <1>1 DEF CreateEntry, Return, Leave, Goto, tables
<1>5. sel[t] \in FiberId /\ sel[t] \in known
  BY <1>2, SelectedExists DEF Unconverted, Converting, InitFiberSteps
<1>6. RunOf(t) = sel[t] /\ RunOf(t)' = sel[t]
  BY <1>0, <1>2, <1>4, <1>5 DEF RunOf, BaseInv, TypeOK, TypePc
<1>7. ASSUME NEW u \in Thread, u # t PROVE RunOf(u)' = RunOf(u)
  <2>1. /\ pc'[u] = pc[u] /\ prev'[u] = prev[u] /\ sel'[u] = sel[u]
        /\ final'[u] = final[u]
    BY <1>0, <1>4, <1>7 DEF BaseInv, TypeOK, TypePc, TypeLocals
  <2>2. sel[u] = f => u \notin threads \/ (pc[u] = "exit_free_thread" /\ ~final[u])
    BY <1>3, <1>7, BuiltUnrun
  <2> QED
    BY <1>4, <2>1, <2>2 DEF RunOf
<1>8. RunMap' = RunMap /\ RunMap[t] # NoFiber
  BY <1>5, <1>6, <1>7 DEF RunMap, FiberId, NoFiber
<1>9. body[f] = f /\ phase[f] = 0
  BY <1>0, <1>1, <1>2 DEF ContextInv, Built
<1>10. Reached(f)' = [code |-> f, phase |-> 0]
       /\ \A g \in FiberId \ {f} : Reached(g)' = Reached(g)
  BY <1>4, <1>9 DEF Reached
<1>11. ContextMap' = [ContextMap EXCEPT ![f] = [code |-> f, phase |-> 0]]
  BY <1>10, MapIs, MapIsPrimed
<1> QED
  BY <1>3, <1>4, <1>8, <1>11 DEF Promise!Create, Promise!Entry

\* A switch takes place when the previous fiber is unlocked.
LEMMA SwitchShows ==
  ASSUME PromiseInv, PromiseInv', NEW t \in Thread, SwitchUnlock(t)
  PROVE  \E f \in FiberId : Promise!Switch(t, f)
<1>0. ClientInv /\ BaseInv /\ LockInv /\ AttachInv /\ ContextInv
  BY DEF PromiseInv, ClientInv
<1>1. t \in threads /\ pc[t] = "switch_unlock"
  BY <1>0, StepsLive DEF SwitchUnlock, Step, ThreadSteps, SwitchSteps
<1>2. PICK f \in FiberId : f = sel[t] /\ f \in known /\ Owns(t, f)
  BY <1>1, SelectedExists DEF Unconverted, Converting, InitFiberSteps
<1>3. prev[t] \in FiberId /\ prev[t] # f
  BY <1>0, <1>1, <1>2 DEF AttachInv, Attaches, LockInv, SwitchOK
<1>4. /\ pc' = [pc EXCEPT ![t] = "switch_restore"]
      /\ UNCHANGED <<known, prev, threads, sel, final, body, phase>>
  BY DEF SwitchUnlock, Step, Goto, tables, locals, users
<1>5. RunOf(t) = prev[t] /\ RunOf(t)' = f
  BY <1>0, <1>1, <1>2, <1>4 DEF RunOf, BaseInv, TypeOK, TypePc
<1>6. \A u \in Thread : u # t => RunOf(u)' = RunOf(u)
  BY <1>0, <1>4 DEF RunOf, BaseInv, TypeOK, TypePc
<1>7. RunMap' = [RunMap EXCEPT ![t] = f] /\ RunMap[t] # NoFiber
  <2>1. RunMap' = [RunMap EXCEPT ![t] = f] /\ RunMap[t] = prev[t]
    BY <1>5, <1>6 DEF RunMap
  <2> QED
    BY <1>3, <2>1 DEF FiberId, NoFiber
<1>8. ASSUME NEW u \in Thread, RunOf(u) = f PROVE FALSE
  <2>1. u # t
    BY <1>3, <1>5, <1>8
  <2>2. CASE OnCpu(u, f)
    BY <1>0, <1>2, <2>1, <2>2, OneCpu
  <2>3. CASE pc[u] = "switch_restore" /\ sel[u] = f
    <3>1. u \in threads
      BY <1>0, <2>3, StepsLive DEF ThreadSteps, SwitchSteps
    <3>2. Owns(u, f)
      BY <2>3, <3>1 DEF Owns
    <3> QED
      BY <1>0, <1>2, <2>1, <3>2 DEF LockInv, OneOwner
  <2> QED
    BY <1>8, <2>2, <2>3, RunIs
<1>9. Promise!Suspended(f)
  BY <1>8 DEF Promise!Suspended, RunMap
<1>10. \A g \in FiberId : Reached(g)' = Reached(g)
  BY <1>4 DEF Reached
<1>11. ContextMap' = ContextMap
  BY <1>10, MapIs, MapIsPrimed
<1> QED
  BY <1>2, <1>4, <1>7, <1>9, <1>11 DEF Promise!Switch

\* The exit of a thread that is not the last takes place when its fiber is
\* unlocked; a thread that found itself the last one never comes here.
LEMMA ReleaseShows ==
  ASSUME PromiseInv, PromiseInv', NEW t \in Thread, ExitUnlock(t)
  PROVE  Promise!Release(t) \/ UNCHANGED Promise!vars
<1>0. ClientInv /\ BaseInv
  BY DEF PromiseInv, ClientInv
<1>1. t \in threads /\ pc[t] = "exit_unlock"
  BY <1>0, StepsLive DEF ExitUnlock, Step, ThreadSteps
<1>2. sel[t] \in FiberId /\ sel[t] \in known
  BY <1>1, SelectedExists DEF Unconverted, Converting, InitFiberSteps
<1>3. /\ pc' = [pc EXCEPT ![t] = "exit_free_thread"]
      /\ UNCHANGED <<known, prev, threads, sel, final, body, phase>>
  BY DEF ExitUnlock, Step, Goto, tables, locals, users
<1>4. RunOf(t) = sel[t] /\ RunOf(t)' = IF final[t] THEN sel[t] ELSE NoFiber
  BY <1>0, <1>1, <1>2, <1>3 DEF RunOf, BaseInv, TypeOK, TypePc
<1>5. \A u \in Thread : u # t => RunOf(u)' = RunOf(u)
  BY <1>0, <1>3 DEF RunOf, BaseInv, TypeOK, TypePc
<1>6. CASE final[t]
  BY <1>3, <1>4, <1>5, <1>6, Stutters
<1>7. CASE ~final[t]
  <2>1. RunMap' = [RunMap EXCEPT ![t] = NoFiber] /\ RunMap[t] # NoFiber
    <3>1. RunMap' = [RunMap EXCEPT ![t] = NoFiber] /\ RunMap[t] = sel[t]
      BY <1>4, <1>5, <1>7 DEF RunMap
    <3> QED
      BY <1>2, <3>1 DEF FiberId, NoFiber
  <2>2. \A g \in FiberId : Reached(g)' = Reached(g)
    BY <1>3 DEF Reached
  <2>3. ContextMap' = ContextMap
    BY <2>2, MapIs, MapIsPrimed
  <2> QED
    BY <1>3, <2>1, <2>3 DEF Promise!Release
<1> QED
  BY <1>6, <1>7

\* The process is freed by the only thread that runs a fiber.
LEMMA CleanUpShows ==
  ASSUME PromiseInv, PromiseInv', NEW t \in Thread, RunOf(t) # NoFiber,
         \A u \in Thread \ {t} : Dead(u), known' = {},
         \A u \in Thread : RunOf(u)' = NoFiber
  PROVE  Promise!CleanUp(t)
<1>1. ASSUME NEW u \in Thread \ {t} PROVE RunOf(u) = NoFiber
  BY <1>1 DEF RunOf, Dead, PromiseInv, ClientInv, ExitInv, Gone
<1>2. RunMap' = [RunMap EXCEPT ![t] = NoFiber] /\ RunMap[t] # NoFiber
      /\ Promise!Last(t)
  BY <1>1 DEF RunMap, Promise!Last
<1>3. \A g \in FiberId : Reached(g)' = [code |-> g, phase |-> 0]
  BY DEF Reached
<1>4. ContextMap' = Promise!Entry
  BY <1>3, MapIsPrimed DEF Promise!Entry
<1> QED
  BY <1>2, <1>4 DEF Promise!CleanUp

\* Work of a fiber shows; that of a thread that is no fiber does not.
LEMMA WorkShows ==
  ASSUME PromiseInv, PromiseInv', NEW t \in Thread, Work(t)
  PROVE  Promise!Work(t) \/ UNCHANGED Promise!vars
<1>0. ClientInv /\ BaseInv /\ ContextInv
  BY DEF PromiseInv, ClientInv
<1>1. /\ pc[t] = "user"
      /\ UNCHANGED <<known, pc, prev, threads, sel, final, body>>
  BY DEF Work, tables, locals
<1>2. \A u \in Thread : RunOf(u)' = RunOf(u)
  BY <1>1 DEF RunOf
<1>3. \A c \in Code \ {gp[t].code} : phase'[c] = phase[c]
  BY <1>0, WorkDone
<1>4. \A g \in known : body[g] \in Code
  BY <1>0 DEF BaseInv, TypeOK, TypeContexts, TypeTables
<1>5. CASE t \in threads
  <2>1. PICK f \in FiberId : f = sel[t] /\ f \in known
    BY <1>1, <1>5, SelectedExists DEF Unconverted, Converting, InitFiberSteps
  <2>2. PICK b \in Code : b = body[f]
    BY <1>4, <2>1
  <2>3. OnCpu(t, f)
    BY <1>1, <1>5, <2>1 DEF OnCpu, Unconverted, Converting, InitFiberSteps
  <2>4. Whole(gp[t], fp[t], b)
    BY <1>0, <2>2, <2>3 DEF ContextInv, Running, Loaded
  <2>5. gp[t].code = b /\ gp[t].phase = phase[b]
    BY <2>4, WholeFields
  <2>6. phase'[b] = Promise!NextPhase(phase[b])
    BY <1>0, <2>5 DEF Work, Promise!NextPhase, BaseInv, TypeOK, TypeContexts
  <2>7. Reached(f) = [code |-> b, phase |-> phase[b]]
        /\ Reached(f)' = [code |-> b, phase |-> phase'[b]]
    BY <1>1, <2>1, <2>2 DEF Reached
  <2>8. ASSUME NEW g \in FiberId, g # f PROVE Reached(g)' = Reached(g)
    <3>1. g \in known => body[g] # b
      BY <1>0, <2>1, <2>2, <2>8 DEF ContextInv, Bodies
    <3> QED
      BY <1>1, <1>3, <1>4, <2>5, <3>1 DEF Reached
  <2>9. [Reached(f) EXCEPT !.phase = Promise!NextPhase(@)] = Reached(f)'
    BY <2>6, <2>7
  <2>10. ContextMap' = [ContextMap EXCEPT ![f].phase = Promise!NextPhase(@)]
    <3>1. ContextMap[f] = Reached(f)
      BY MapIs
    <3> QED
      BY <2>8, <2>9, <3>1, MapIs, MapIsPrimed
  <2>11. RunMap[t] = f /\ RunMap' = RunMap
    BY <1>1, <1>2, <1>5, <2>1 DEF RunMap, RunOf
  <2> QED
    BY <1>1, <2>10, <2>11 DEF Promise!Work, FiberId, NoFiber
<1>6. CASE t \notin threads
  <2>1. CASE open
    <3>1. Loaded(t, t) /\ \A g \in known : body[g] # t
      BY <1>0, <1>1, <1>6, <2>1 DEF ContextInv, OwnCode, Unconverted
    <3>2. gp[t].code = t
      BY <3>1, WholeFields DEF Loaded
    <3> QED
      BY <1>1, <1>2, <1>3, <1>4, <3>1, <3>2, Stutters
  <2>2. CASE ~open
    <3>1. known = {}
      BY <1>0, <2>2 DEF ClientInv, JoinedInv, BaseInv, PointersOK
    <3> QED
      BY <1>1, <1>2, <3>1, Stutters
  <2> QED
    BY <2>1, <2>2
<1> QED
  BY <1>5, <1>6

\* The last exit frees the fibers.
LEMMA LastExitShows ==
  ASSUME PromiseInv, PromiseInv', NEW t \in Thread, ExitFreeProcess(t)
  PROVE  Promise!CleanUp(t)
<1>0. ClientInv /\ BaseInv
  BY DEF PromiseInv, ClientInv
<1>1. /\ pc[t] = "exit_free_process" /\ pc' = [pc EXCEPT ![t] = "dead"]
      /\ threads' = {} /\ known' = {}
  BY DEF ExitFreeProcess, FreeProcess, Step, Goto
<1>2. t = Main
  BY <1>0, <1>1 DEF ClientInv, JoinedInv, Final
<1>3. \A u \in Thread \ {t} : Dead(u)
  BY <1>0, <1>1, <1>2 DEF ClientInv, JoinedInv, ExitSteps
<1>4. \A u \in Thread : pc'[u] = "dead"
  BY <1>0, <1>1, <1>3 DEF Dead, BaseInv, TypeOK, TypePc
<1>5. \A u \in Thread : RunOf(u)' = NoFiber
  BY <1>1, <1>4 DEF RunOf
<1>6. RunOf(t) # NoFiber
  BY <1>1 DEF RunOf, PromiseInv, LeavesFiber, FiberId, NoFiber
<1> QED
  BY <1>1, <1>3, <1>5, <1>6, CleanUpShows

\* Closing the device frees the fibers of Main, the only thread left, or finds
\* none.
LEMMA CloseShows ==
  ASSUME Joined, PromiseInv, PromiseInv', NEW t \in Thread, Close(t)
  PROVE  Promise!CleanUp(t) \/ UNCHANGED Promise!vars
<1>0. ClientInv /\ BaseInv
  BY DEF PromiseInv, ClientInv
<1>1. /\ pc[t] = "user" /\ t = Main
      /\ UNCHANGED <<pc, sel, prev, final, body, phase>>
      /\ \A u \in Thread \ {t} : Dead(u)
  BY DEF Close, MayLeave
<1>2. CASE UNCHANGED <<tables, ep, known>>
  <2>1. \A u \in Thread : RunOf(u)' = RunOf(u)
    BY <1>1, <1>2 DEF RunOf, tables
  <2> QED
    BY <1>1, <1>2, <2>1, Stutters
<1>3. CASE FindProcess = "live" /\ FreeProcess(t)
  <2>1. threads' = {} /\ known' = {} /\ nproc = 1
    BY <1>0, <1>3 DEF FreeProcess, FindProcess, BaseInv, PointersOK, TypeOK,
         TypeTables
  <2>2. \A u \in Thread : RunOf(u)' = NoFiber
    BY <1>1, <2>1 DEF RunOf, Dead
  <2>3. t \in threads
    <3> SUFFICES ASSUME t \notin threads PROVE FALSE
      OBVIOUS
    <3>1. \A u \in Thread \ {t} : u \notin threads
      BY <1>0, <1>1 DEF ClientInv, ExitInv, Gone, Dead
    <3>2. Counted = {}
      BY <1>0, <3>1 DEF Counted, BaseInv, TypeOK, TypeTables
    <3>3. active = 0
      BY <1>0, <3>2, FS_EmptySet DEF ClientInv, ExitInv
    <3>4. \A u \in Thread : ~Needs(u)
      BY <1>1 DEF Needs, Final, Leaving, Dead
    <3> QED
      BY <1>0, <2>1, <3>3, <3>4 DEF ClientInv, ExitInv
  <2>4. sel[t] \in FiberId /\ sel[t] \in known
    BY <1>1, <2>3, SelectedExists DEF Unconverted, Converting, InitFiberSteps
  <2>5. RunOf(t) # NoFiber
    BY <1>1, <2>3, <2>4 DEF RunOf, FiberId, NoFiber
  <2> QED
    BY <1>1, <2>1, <2>2, <2>5, CleanUpShows
<1> QED
  BY <1>2, <1>3 DEF Close

\* Every step is a step of FiberSpec or changes nothing it sees.
LEMMA StepRefines ==
  ASSUME Joined, ~GuessIds, PromiseInv, PromiseInv', [Next]_vars
  PROVE  [Promise!Next]_(Promise!vars)
<1>0. /\ ClientInv /\ BaseInv /\ ContextInv /\ known \subseteq FiberId
      /\ 0 \notin FiberId /\ TypePc /\ TypeLinks /\ TypeLocals /\ TypeTables
  BY DEF PromiseInv, ClientInv, BaseInv, TypeOK, TypeTables, FiberId
<1>1. ASSUME NEW t \in Thread, Work(t) PROVE [Promise!Next]_(Promise!vars)
  BY <1>1, WorkShows DEF Promise!Next
<1>2. ASSUME NEW t \in Thread, CallConvert(t) PROVE [Promise!Next]_(Promise!vars)
  <2>1. known' = known /\ body' = body /\ phase' = phase
    BY <1>2 DEF CallConvert, users
  <2>2. \A u \in Thread : RunOf(u)' = RunOf(u)
    BY <1>0, <1>2 DEF CallConvert, Goto, tables, locals, users, RunOf,
         TypePc, TypeLinks, TypeLocals
  <2> QED
    BY <2>1, <2>2, Stutters
<1>3. ASSUME NEW t \in Thread, CallCreate(t) PROVE [Promise!Next]_(Promise!vars)
  <2>1. known' = known /\ body' = body /\ phase' = phase
    BY <1>3 DEF CallCreate, users
  <2>2. \A u \in Thread : RunOf(u)' = RunOf(u)
    BY <1>0, <1>3 DEF CallCreate, Goto, tables, locals, users, RunOf,
         TypePc, TypeLinks, TypeLocals
  <2> QED
    BY <2>1, <2>2, Stutters
<1>4. ASSUME NEW t \in Thread, CallExit(t) PROVE [Promise!Next]_(Promise!vars)
  <2>1. known' = known /\ body' = body /\ phase' = phase
    BY <1>4 DEF CallExit, users
  <2>2. \A u \in Thread : RunOf(u)' = RunOf(u)
    BY <1>0, <1>4 DEF CallExit, Goto, Leave, tables, locals, users, RunOf,
         TypePc, TypeLinks, TypeLocals
  <2> QED
    BY <2>1, <2>2, Stutters
<1>5. ASSUME NEW t \in Thread, Close(t) PROVE [Promise!Next]_(Promise!vars)
  BY <1>5, CloseShows DEF Promise!Next
<1>6. ASSUME NEW t \in Thread, FindThread(t) PROVE [Promise!Next]_(Promise!vars)
  <2>1. known' = known /\ body' = body /\ phase' = phase
    BY <1>6 DEF FindThread, users
  <2>2. \A u \in Thread : RunOf(u)' = RunOf(u)
    BY <1>0, <1>6 DEF FindThread, Return, Leave, Continue, Goto, tables,
         locals, users, RunOf, TypePc, TypeLinks, TypeLocals
  <2> QED
    BY <2>1, <2>2, Stutters
<1>7. ASSUME NEW t \in Thread, ConvertLock(t) PROVE [Promise!Next]_(Promise!vars)
  <2>1. known' = known /\ body' = body /\ phase' = phase
    BY <1>7 DEF ConvertLock, users
  <2>2. \A u \in Thread : RunOf(u)' = RunOf(u)
    BY <1>0, <1>7 DEF ConvertLock, Step, Goto, tables, locals, users,
         RunOf, TypePc, TypeLinks, TypeLocals
  <2> QED
    BY <2>1, <2>2, Stutters
<1>8. ASSUME NEW t \in Thread, ConvertFind(t) PROVE [Promise!Next]_(Promise!vars)
  <2>1. known' = known /\ body' = body /\ phase' = phase
    BY <1>8 DEF ConvertFind, users
  <2>2. \A u \in Thread : RunOf(u)' = RunOf(u)
    BY <1>0, <1>8 DEF ConvertFind, Step, Goto, tables, locals, users,
         RunOf, TypePc, TypeLinks, TypeLocals
  <2> QED
    BY <2>1, <2>2, Stutters
<1>9. ASSUME NEW t \in Thread, ConvertProcess(t) PROVE [Promise!Next]_(Promise!vars)
  <2>1. known' = known /\ body' = body /\ phase' = phase
    BY <1>9 DEF ConvertProcess, users
  <2>2. threads' = threads
    BY <1>0, <1>9 DEF ConvertProcess, InitProcess, tables, BaseInv, PointersOK,
         ProcessLockOK
  <2>3. \A u \in Thread : RunOf(u)' = RunOf(u)
    BY <1>0, <1>9, <2>2 DEF ConvertProcess, Goto, tables, locals, users,
         RunOf, TypePc, TypeLinks, TypeLocals
  <2> QED
    BY <2>1, <2>3, Stutters
<1>10. ASSUME NEW t \in Thread, ConvertThread(t) PROVE [Promise!Next]_(Promise!vars)
  <2>1. known' = known /\ body' = body /\ phase' = phase
    BY <1>10 DEF ConvertThread, users
  <2>2. \A u \in Thread : RunOf(u)' = RunOf(u)
    BY <1>0, <1>10 DEF ConvertThread, Return, Leave, Continue, Goto,
         tables, locals, NoFiber, users, RunOf, TypePc, TypeLinks, TypeLocals
  <2> QED
    BY <2>1, <2>2, Stutters
<1>11. ASSUME NEW t \in Thread, InitFiberReserve(t) PROVE [Promise!Next]_(Promise!vars)
  <2>1. known' = known /\ body' = body /\ phase' = phase
    BY <1>11 DEF InitFiberReserve, users
  <2>2. \A u \in Thread : RunOf(u)' = RunOf(u)
    BY <1>0, <1>11 DEF InitFiberReserve, Step, Goto, tables, locals, users,
         RunOf, TypePc, TypeLinks, TypeLocals
  <2> QED
    BY <2>1, <2>2, Stutters
<1>12. ASSUME NEW t \in Thread, InitFiberPublish(t) PROVE [Promise!Next]_(Promise!vars)
  <2>1. cur[t] \in FiberId /\ cur[t] \notin known
    <3>1. cur[t] \in FiberId /\ ep[t] = "live" /\ pc[t] = "fiber_publish"
      BY <1>0, <1>12, StepsLive DEF InitFiberPublish, Step, BaseInv, CurOK, BuildSteps,
           ThreadSteps
    <3>2. Builds(t, cur[t])
      BY <3>1 DEF Builds, BuildSteps
    <3> QED
      BY <1>0, <3>1, <3>2 DEF ClientInv, LockInv, Unreturned
  <2>2. known' = known /\ \A g \in known :
          body'[g] = body[g] /\ phase'[body[g]] = phase[body[g]]
    <3>1. known' = known /\ \A g \in known : body'[g] = body[g]
      BY <1>0, <1>12, <2>1 DEF InitFiberPublish, BaseInv, TypeOK, TypeContexts
    <3>2. \A g \in known : body[g] \in Code /\ body[g] # cur[t]
      BY <1>0, <2>1, ConstantsAssumption DEF ContextInv, Bodies, Code, FiberId
    <3>3. \A c \in Code : c # cur[t] => phase'[c] = phase[c]
      BY <1>0, <1>12 DEF InitFiberPublish, BaseInv, TypeOK, TypeContexts
    <3> QED
      BY <3>1, <3>2, <3>3
  <2>3. \A u \in Thread : RunOf(u)' = RunOf(u)
    BY <1>0, <1>12 DEF InitFiberPublish, Step, Goto, tables, locals, users,
         RunOf, TypePc, TypeLinks, TypeLocals
  <2> QED
    BY <2>2, <2>3, Stutters
<1>13. ASSUME NEW t \in Thread, ConvertStack(t) PROVE [Promise!Next]_(Promise!vars)
  <2>1. known' = known /\ body' = body /\ phase' = phase
    BY <1>13 DEF ConvertStack, users
  <2>2. \A u \in Thread : RunOf(u)' = RunOf(u)
    BY <1>0, <1>13 DEF ConvertStack, Step, Goto, tables, locals, users,
         RunOf, TypePc, TypeLinks, TypeLocals
  <2> QED
    BY <2>1, <2>2, Stutters
<1>14. ASSUME NEW t \in Thread, ConvertAttach(t) PROVE [Promise!Next]_(Promise!vars)
  <2>1. known' = known /\ body' = body /\ phase' = phase
    BY <1>14 DEF ConvertAttach, users
  <2>2. t \in threads /\ sel[t] = NoFiber /\ cur[t] \notin known
    <3>1. t \in threads /\ ep[t] = "live" /\ pc[t] = "convert_attach"
      BY <1>0, <1>14, StepsLive DEF ConvertAttach, Step, ThreadSteps
    <3>2. cur[t] \in FiberId /\ Builds(t, cur[t])
      BY <1>0, <3>1 DEF Builds, BuildSteps, BaseInv, CurOK
    <3> QED
      BY <1>0, <3>1, <3>2 DEF ClientInv, LockInv, Unreturned, AttachInv, Attaches,
           Converting
  <2>3. \A u \in Thread : RunOf(u)' = RunOf(u)
    BY <1>0, <1>14, <2>2 DEF ConvertAttach, Step, Goto, tables, locals,
         NoFiber, users, RunOf, TypePc, TypeLinks, TypeLocals
  <2> QED
    BY <2>1, <2>3, Stutters
<1>15. ASSUME NEW t \in Thread, ConvertTrylock(t) PROVE [Promise!Next]_(Promise!vars)
  BY <1>15, ConvertShows DEF Promise!Next
<1>16. ASSUME NEW t \in Thread, CreateEntry(t) PROVE [Promise!Next]_(Promise!vars)
  BY <1>16, CreateShows DEF Promise!Next
<1>17. ASSUME NEW t \in Thread, SwitchLookup(t) PROVE [Promise!Next]_(Promise!vars)
  <2>1. known' = known /\ body' = body /\ phase' = phase
    BY <1>17 DEF SwitchLookup, users
  <2>2. \A u \in Thread : RunOf(u)' = RunOf(u)
    BY <1>0, <1>17 DEF SwitchLookup, Return, Leave, Continue, Goto, tables,
         locals, users, RunOf, TypePc, TypeLinks, TypeLocals
  <2> QED
    BY <2>1, <2>2, Stutters
<1>18. ASSUME NEW t \in Thread, SwitchTrylock(t) PROVE [Promise!Next]_(Promise!vars)
  <2>1. known' = known /\ body' = body /\ phase' = phase
    BY <1>18 DEF SwitchTrylock, users
  <2>2. \A u \in Thread : RunOf(u)' = RunOf(u)
    BY <1>0, <1>18 DEF SwitchTrylock, Return, Leave, Continue, Goto,
         tables, locals, users, RunOf, TypePc, TypeLinks, TypeLocals
  <2> QED
    BY <2>1, <2>2, Stutters
<1>19. ASSUME NEW t \in Thread, SwitchCheck(t) PROVE [Promise!Next]_(Promise!vars)
  <2>1. known' = known /\ body' = body /\ phase' = phase
    BY <1>19 DEF SwitchCheck, users
  <2>2. \A u \in Thread : RunOf(u)' = RunOf(u)
    BY <1>0, <1>19 DEF SwitchCheck, Return, Leave, Continue, Goto, tables,
         locals, users, RunOf, TypePc, TypeLinks, TypeLocals
  <2> QED
    BY <2>1, <2>2, Stutters
<1>20. ASSUME NEW t \in Thread, SwitchAttach(t) PROVE [Promise!Next]_(Promise!vars)
  <2>1. known' = known /\ body' = body /\ phase' = phase
    BY <1>20 DEF SwitchAttach, users
  <2>2. t \in threads /\ sel[t] \in known
    <3>1. t \in threads /\ pc[t] = "switch_attach"
      BY <1>0, <1>20, StepsLive DEF SwitchAttach, Step, ThreadSteps, SwitchSteps
    <3> QED
      BY <3>1, SelectedExists DEF Unconverted, Converting, InitFiberSteps
  <2>3. \A u \in Thread : RunOf(u)' = RunOf(u)
    BY <1>0, <1>20, <2>2 DEF SwitchAttach, Step, Goto, tables, locals,
         users, RunOf, TypePc, TypeLinks, TypeLocals
  <2> QED
    BY <2>1, <2>3, Stutters
<1>21. ASSUME NEW t \in Thread, SwitchSave(t) PROVE [Promise!Next]_(Promise!vars)
  <2>1. known' = known /\ body' = body /\ phase' = phase
    BY <1>21 DEF SwitchSave, users
  <2>2. \A u \in Thread : RunOf(u)' = RunOf(u)
    BY <1>0, <1>21 DEF SwitchSave, Step, Goto, tables, locals, users,
         RunOf, TypePc, TypeLinks, TypeLocals
  <2> QED
    BY <2>1, <2>2, Stutters
<1>22. ASSUME NEW t \in Thread, SwitchDetach(t) PROVE [Promise!Next]_(Promise!vars)
  <2>1. known' = known /\ body' = body /\ phase' = phase
    BY <1>22 DEF SwitchDetach, users
  <2>2. \A u \in Thread : RunOf(u)' = RunOf(u)
    BY <1>0, <1>22 DEF SwitchDetach, Step, Goto, tables, locals, users,
         RunOf, TypePc, TypeLinks, TypeLocals
  <2> QED
    BY <2>1, <2>2, Stutters
<1>23. ASSUME NEW t \in Thread, SwitchUnlock(t) PROVE [Promise!Next]_(Promise!vars)
  BY <1>23, SwitchShows DEF Promise!Next
<1>24. ASSUME NEW t \in Thread, SwitchRestore(t) PROVE [Promise!Next]_(Promise!vars)
  <2>1. known' = known /\ body' = body /\ phase' = phase
    BY <1>24 DEF SwitchRestore, users
  <2>2. \A u \in Thread : RunOf(u)' = RunOf(u)
    BY <1>0, <1>24 DEF SwitchRestore, Return, Leave, Goto, tables, locals,
         users, RunOf, TypePc, TypeLinks, TypeLocals
  <2> QED
    BY <2>1, <2>2, Stutters
<1>25. ASSUME NEW t \in Thread, ExitThread(t) PROVE [Promise!Next]_(Promise!vars)
  <2>1. known' = known /\ body' = body /\ phase' = phase
    BY <1>25 DEF ExitThread, users
  <2>2. \A u \in Thread : RunOf(u)' = RunOf(u)
    BY <1>0, <1>25 DEF ExitThread, Leave, Continue, Goto, tables, locals,
         users, RunOf, TypePc, TypeLinks, TypeLocals
  <2> QED
    BY <2>1, <2>2, Stutters
<1>26. ASSUME NEW t \in Thread, ExitDec(t) PROVE [Promise!Next]_(Promise!vars)
  <2>1. known' = known /\ body' = body /\ phase' = phase
    BY <1>26 DEF ExitDec, users
  <2>2. t \in threads /\ sel[t] \in known
    <3>1. t \in threads /\ pc[t] = "exit_dec"
      BY <1>0, <1>26, StepsLive DEF ExitDec, Step, ThreadSteps, SwitchSteps
    <3> QED
      BY <3>1, SelectedExists DEF Unconverted, Converting, InitFiberSteps
  <2>3. \A u \in Thread : RunOf(u)' = RunOf(u)
    BY <1>0, <1>26, <2>2 DEF ExitDec, Step, Goto, tables, locals, NoFiber,
         users, RunOf, TypePc, TypeLinks, TypeLocals
  <2> QED
    BY <2>1, <2>3, Stutters
<1>27. ASSUME NEW t \in Thread, ExitSave(t) PROVE [Promise!Next]_(Promise!vars)
  <2>1. known' = known /\ body' = body /\ phase' = phase
    BY <1>27 DEF ExitSave, users
  <2>2. \A u \in Thread : RunOf(u)' = RunOf(u)
    BY <1>0, <1>27 DEF ExitSave, Step, Goto, tables, locals, users, RunOf,
         TypePc, TypeLinks, TypeLocals
  <2> QED
    BY <2>1, <2>2, Stutters
<1>28. ASSUME NEW t \in Thread, ExitDetach(t) PROVE [Promise!Next]_(Promise!vars)
  <2>1. known' = known /\ body' = body /\ phase' = phase
    BY <1>28 DEF ExitDetach, users
  <2>2. \A u \in Thread : RunOf(u)' = RunOf(u)
    BY <1>0, <1>28 DEF ExitDetach, Step, Goto, tables, locals, users,
         RunOf, TypePc, TypeLinks, TypeLocals
  <2> QED
    BY <2>1, <2>2, Stutters
<1>29. ASSUME NEW t \in Thread, ExitUnlock(t) PROVE [Promise!Next]_(Promise!vars)
  BY <1>29, ReleaseShows DEF Promise!Next
<1>30. ASSUME NEW t \in Thread, ExitFreeThread(t) PROVE [Promise!Next]_(Promise!vars)
  <2>1. known' = known /\ body' = body /\ phase' = phase
    BY <1>30 DEF ExitFreeThread, users
  <2>2. t \in threads /\ (final[t] => sel[t] \in known)
    <3>1. t \in threads
      BY <1>0, <1>30, StepsLive DEF ExitFreeThread, ThreadSteps
    <3>2. ~Unconverted(t) /\ ~Converting(t)
      BY <1>30, <3>1 DEF ExitFreeThread, Unconverted, Converting, InitFiberSteps
    <3>3. sel[t] \in FiberId
      BY <1>0, <3>1, <3>2, SelectedIsOwn DEF ClientInv
    <3>4. final[t] => OnCpu(t, sel[t])
      BY <1>30, <3>1, <3>2 DEF ExitFreeThread, OnCpu
    <3> QED
      BY <1>0, <3>1, <3>3, <3>4 DEF ContextInv, Running
  <2>3. \A u \in Thread : RunOf(u)' = RunOf(u)
    BY <1>0, <1>30, <2>2 DEF ExitFreeThread, Leave, Continue, Goto, tables,
         locals, users, RunOf, TypePc, TypeLinks, TypeLocals
  <2> QED
    BY <2>1, <2>3, Stutters
<1>31. ASSUME NEW t \in Thread, ExitFreeProcess(t) PROVE [Promise!Next]_(Promise!vars)
  BY <1>31, LastExitShows DEF Promise!Next
<1>32. ASSUME NEW t \in Thread, Fault(t) PROVE [Promise!Next]_(Promise!vars)
  BY <1>0, <1>32, StepsLive DEF Fault
<1>33. ASSUME NEW t \in Thread, NEW f \in FiberId, CallSwitch(t, f) PROVE [Promise!Next]_(Promise!vars)
  <2>1. known' = known /\ body' = body /\ phase' = phase
    BY <1>33 DEF CallSwitch, users
  <2>2. \A u \in Thread : RunOf(u)' = RunOf(u)
    BY <1>0, <1>33 DEF CallSwitch, Goto, tables, locals, users, RunOf,
         TypePc, TypeLinks, TypeLocals
  <2> QED
    BY <2>1, <2>2, Stutters
<1>34. CASE UNCHANGED vars
  <2>1. \A u \in Thread : RunOf(u)' = RunOf(u)
    BY <1>34 DEF vars, tables, locals, users, RunOf
  <2> QED
    BY <1>34, <2>1, Stutters DEF vars, users
<1> QED
  BY <1>1, <1>2, <1>3, <1>4, <1>5, <1>6, <1>7, <1>8, <1>9, <1>10, <1>11,
       <1>12, <1>13, <1>14, <1>15, <1>16, <1>17, <1>18, <1>19, <1>20, <1>21,
       <1>22, <1>23, <1>24, <1>25, <1>26, <1>27, <1>28, <1>29, <1>30, <1>31,
       <1>32, <1>33, <1>34 DEF Next, UserStep, KernelStep, Finished

\* The initial state is one of FiberSpec's.
LEMMA InitRefines == Init => Promise!Init
<1> SUFFICES ASSUME Init PROVE Promise!Init
  OBVIOUS
<1>1. \A t \in Thread : RunOf(t) = NoFiber
  BY DEF Init, RunOf
<1>2. \A f \in FiberId : ContextOf(f) = [code |-> f, phase |-> 0]
  BY DEF Init, ContextOf
<1> QED
  BY <1>1, <1>2 DEF Init, Promise!Init, Promise!Entry, RunMap, ContextMap

\* The module implements FiberSpec: whatever the number of threads and fibers,
\* and whatever the interleaving of their calls, they see atomic conversions,
\* creations, switches and exits, and a fiber that continues where it stopped.
THEOREM ModuleImplementsFiberSpec ==
  ASSUME Joined, ~GuessIds
  PROVE  Spec => ImplementsFiberSpec
<1>1. Init => LeavesFiber
  BY DEF Init, LeavesFiber
<1>2. BaseInv /\ LockInv /\ AttachInv /\ LeavesFiber /\ [Next]_vars => LeavesFiber'
  BY LeavesStep
<1>3. Spec => []LeavesFiber
  BY <1>1, <1>2, BaseInvariant, LockInvariant, AttachInvariant, PTL DEF Spec
<1>4. ClientInv /\ ContextInv /\ LocksHeld /\ LeavesFiber => PromiseInv
  BY DEF PromiseInv
<1>5. Spec => []PromiseInv
  BY <1>3, <1>4, ClientInvariant, ContextInvariant, LocksAreHeld, PTL
<1>6. PromiseInv /\ PromiseInv' /\ [Next]_vars => [Promise!Next]_(Promise!vars)
  BY StepRefines
<1> QED
  BY <1>5, <1>6, InitRefines, PTL DEF Spec, ImplementsFiberSpec, Promise!Spec

\* A step of FiberSpec keeps OneRunner: a fiber is entered only when it is new
\* or nobody runs it, and the fibers go only with the last thread that runs one.
LEMMA PromiseKeepsOneRunner ==
  ASSUME Promise!OneRunner, [Promise!Next]_(Promise!vars)
  PROVE  Promise!OneRunner'
<1> DEFINE R == RunMap
<1>0. R = [t \in Thread |-> R[t]]
  BY DEF RunMap
<1> HIDE DEF R
<1>1. ASSUME NEW t \in Thread, NEW f \in FiberId, f \in known',
             \A u \in Thread : R[u] # f,
             known \subseteq known', R' = [R EXCEPT ![t] = f]
      PROVE  Promise!OneRunner'
  <2>1. R'[t] = f /\ \A u \in Thread \ {t} : R'[u] = R[u]
    BY <1>0, <1>1
  <2> QED
    BY <1>1, <2>1 DEF Promise!OneRunner, R
<1>2. ASSUME NEW t \in Thread, R' = [R EXCEPT ![t] = NoFiber],
             \/ known' = known
             \/ \A u \in Thread \ {t} : R[u] = NoFiber
      PROVE  Promise!OneRunner'
  <2>1. R'[t] = NoFiber /\ \A u \in Thread \ {t} : R'[u] = R[u]
    BY <1>0, <1>2
  <2> QED
    BY <1>2, <2>1 DEF Promise!OneRunner, R
<1>3. ASSUME R' = R, known \subseteq known' PROVE Promise!OneRunner'
  BY <1>3 DEF Promise!OneRunner, R
<1>4. ASSUME NEW t \in Thread, NEW f \in FiberId, Promise!Convert(t, f)
      PROVE  Promise!OneRunner'
  <2>1. \A u \in Thread : R[u] # f
    <3>1. f # NoFiber
      BY ConstantsAssumption DEF FiberId, NoFiber
    <3>2. f \notin known
      BY <1>4 DEF Promise!Convert
    <3> QED
      BY <3>1, <3>2 DEF Promise!OneRunner, R
  <2> QED
    BY <1>1, <1>4, <2>1 DEF Promise!Convert, R
<1>5. ASSUME NEW t \in Thread, NEW f \in FiberId, Promise!Switch(t, f)
      PROVE  Promise!OneRunner'
  BY <1>1, <1>5 DEF Promise!Switch, Promise!Suspended, R
<1>6. ASSUME NEW t \in Thread, NEW f \in FiberId, Promise!Create(t, f)
      PROVE  Promise!OneRunner'
  BY <1>3, <1>6 DEF Promise!Create, R
<1>7. ASSUME NEW t \in Thread, Promise!Work(t) PROVE Promise!OneRunner'
  BY <1>3, <1>7 DEF Promise!Work, R
<1>8. ASSUME NEW t \in Thread, Promise!Release(t) PROVE Promise!OneRunner'
  BY <1>2, <1>8 DEF Promise!Release, R
<1>9. ASSUME NEW t \in Thread, Promise!CleanUp(t) PROVE Promise!OneRunner'
  BY <1>2, <1>9 DEF Promise!CleanUp, Promise!Last, R
<1>10. CASE UNCHANGED Promise!vars
  BY <1>3, <1>10 DEF Promise!vars, R
<1> QED
  BY <1>4, <1>5, <1>6, <1>7, <1>8, <1>9, <1>10 DEF Promise!Next

\* What a client may conclude from the refinement: at every moment, also in the
\* middle of a switch, a thread runs one fiber, which exists (its id has been
\* returned and do_exit or the last close has not freed it), and no other
\* thread runs that one.
THEOREM ClientsSeeOneRunner ==
  ASSUME Joined, ~GuessIds
  PROVE  Spec => []Promise!OneRunner
<1>1. Promise!Init => Promise!OneRunner
  BY DEF Promise!Init, Promise!OneRunner
<1>2. Promise!OneRunner /\ [Promise!Next]_(Promise!vars) => Promise!OneRunner'
  BY PromiseKeepsOneRunner
<1> QED
  BY <1>1, <1>2, ModuleImplementsFiberSpec, PTL DEF ImplementsFiberSpec, Promise!Spec

=============================================================================
