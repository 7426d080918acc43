--------------------------- MODULE LibraryProofs ----------------------------
(***************************************************************************)
(* Proofs about Library, for any number of programs, commands and major    *)
(* numbers: the module stays while a descriptor is open, a program that    *)
(* read the whole message can rely on its numbers, one that did not runs   *)
(* no wrong command, and nothing is left of a module that was unloaded.    *)
(***************************************************************************)
EXTENDS Library, FiniteSetTheorems, SequenceTheorems, TLAPS

\* The whole message.
Message == [k \in 1..Commands |-> Line(k)]

\* The types that the argument needs.
Types ==
  /\ refs \in Nat
  /\ lines \in 0..Commands
  /\ device \in BOOLEAN
  /\ fd \in [Program -> BOOLEAN]
  /\ early \in [Program -> BOOLEAN]
  /\ ready \in [Program -> BOOLEAN]
  /\ pc \in [Program -> {"start", "read", "parse", "run"}]
  /\ off \in [Program -> Nat]
  /\ DOMAIN buf = Program
  /\ DOMAIN numbers = Program

\* The device is there from its creation to the end of unloading, and after
\* the publication so is the message.
DeviceOK ==
  /\ device => module \in {"publish", "probes", "live", "going", "unregister"}
  /\ device /\ module # "publish" => lines = Commands

\* A program with a descriptor is past the opening; if it was not early, it
\* has read nothing or everything, and parsed everything.
ProgramOK(p) ==
  /\ fd[p] => pc[p] # "start" /\ device
  /\ ~fd[p] => pc[p] \in {"start", "run"} /\ ~ready[p]
  /\ pc[p] \in {"read", "parse"} => ~ready[p]
  /\ pc[p] = "start" => buf[p] = << >> /\ off[p] = 0
  /\ fd[p] /\ ~early[p] =>
       /\ lines = Commands
       /\ pc[p] = "read" => \/ buf[p] = << >> /\ off[p] = 0
                            \/ buf[p] = Message /\ off[p] = Commands
       /\ pc[p] = "parse" => buf[p] = Message
       /\ pc[p] = "run" /\ ready[p] =>
            numbers[p] = [c \in Command |-> <<major, c>>]

LibraryInv ==
  /\ Types /\ DeviceOK /\ RefsCountOpen /\ OpenKeepsModule
  /\ \A p \in Program : ProgramOK(p)

-----------------------------------------------------------------------------

\* Opening or closing a descriptor changes the number of open ones by one.
LEMMA OpenedChanges ==
  ASSUME NEW p \in Program, fd \in [Program -> BOOLEAN]
  PROVE  /\ IsFiniteSet(Opened)
         /\ fd' = [fd EXCEPT ![p] = TRUE] /\ ~fd[p] =>
              Cardinality(Opened') = Cardinality(Opened) + 1
         /\ fd' = [fd EXCEPT ![p] = FALSE] /\ fd[p] =>
              Cardinality(Opened') = Cardinality(Opened) - 1
         /\ fd' = [fd EXCEPT ![p] = FALSE] /\ ~fd[p] => Opened' = Opened
<1>1. IsFiniteSet(Opened)
  BY LibraryAssumption, FS_Subset DEF Opened
<1>2. CASE fd' = [fd EXCEPT ![p] = TRUE] /\ ~fd[p]
  <2>1. Opened' = Opened \cup {p} /\ p \notin Opened
    BY <1>2 DEF Opened
  <2> QED BY <1>1, <1>2, <2>1, FS_AddElement
<1>3. CASE fd' = [fd EXCEPT ![p] = FALSE] /\ fd[p]
  <2>1. Opened' = Opened \ {p} /\ p \in Opened
    BY <1>3 DEF Opened
  <2> QED BY <1>1, <1>3, <2>1, FS_RemoveElement
<1>4. CASE fd' = [fd EXCEPT ![p] = FALSE] /\ ~fd[p]
  BY <1>1, <1>4 DEF Opened
<1> QED BY <1>1, <1>2, <1>3, <1>4

\* The module's own steps move nothing that a program relies on, as long as
\* they are not taken under an open descriptor.
LEMMA KernelStepInv ==
  ASSUME LibraryInv, UNCHANGED <<refs, program>>, (Types /\ DeviceOK)',
         \/ Opened = {}
         \/ /\ UNCHANGED <<major, device>>
            /\ module' \in {"publish", "probes", "live"}
            /\ lines = Commands => lines' = lines
  PROVE  LibraryInv'
<1>1. RefsCountOpen'
  BY DEF LibraryInv, RefsCountOpen, Opened, program
<1>2. OpenKeepsModule'
  BY DEF LibraryInv, OpenKeepsModule, Opened, program
<1>3. ASSUME NEW p \in Program PROVE ProgramOK(p)'
  <2>1. ProgramOK(p) /\ UNCHANGED <<pc, fd, off, buf, numbers, ready, early>>
    BY DEF LibraryInv, program
  <2>2. CASE ~fd[p]
    BY <2>1, <2>2 DEF ProgramOK
  <2>3. CASE fd[p]
    <3>1. UNCHANGED <<major, device>> /\ (lines = Commands => lines' = lines)
      BY <2>3 DEF Opened
    <3>2. Message' = Message
      BY <3>1 DEF Message, Line
    <3> QED BY <2>1, <2>3, <3>1, <3>2 DEF ProgramOK
  <2> QED BY <2>2, <2>3, <2>1 DEF ProgramOK
<1> QED BY <1>1, <1>2, <1>3 DEF LibraryInv

-----------------------------------------------------------------------------

\* The invariant is inductive: one step per action.
LEMMA LibraryInvariant == Spec => []LibraryInv
<1>0. Commands \in Nat /\ Buffer \in Nat /\ Buffer >= 2 * Commands
  BY LibraryAssumption
<1>1. Init => LibraryInv
  <2> SUFFICES ASSUME Init PROVE LibraryInv
    OBVIOUS
  <2>1. Types /\ DeviceOK
    <3>1. /\ device \in BOOLEAN /\ fd \in [Program -> BOOLEAN]
          /\ early \in [Program -> BOOLEAN] /\ ready \in [Program -> BOOLEAN]
      BY Zenon DEF Init
    <3>2. DeviceOK /\ refs \in Nat /\ lines \in 0..Commands
      BY <1>0 DEF Init, DeviceOK
    <3>3. /\ pc \in [Program -> {"start", "read", "parse", "run"}]
          /\ off \in [Program -> Nat]
          /\ DOMAIN buf = Program /\ DOMAIN numbers = Program
      BY DEF Init
    <3> QED BY <3>1, <3>2, <3>3 DEF Types
  <2>2. Opened = {}
    BY DEF Init, Opened
  <2>3. RefsCountOpen
    BY <2>2, FS_EmptySet DEF Init, RefsCountOpen
  <2>4. OpenKeepsModule /\ \A p \in Program : ProgramOK(p)
    BY DEF Init, OpenKeepsModule, ProgramOK
  <2> QED BY <2>1, <2>3, <2>4 DEF LibraryInv
<1>2. LibraryInv /\ [Next]_vars => LibraryInv'
  <2> SUFFICES ASSUME LibraryInv, [Next]_vars PROVE LibraryInv'
    OBVIOUS
  <2>0. module \notin {"publish", "probes", "live"} => Opened = {}
    BY DEF LibraryInv, OpenKeepsModule, Opened
  <2>1. CASE RegisterChrdev
    <3>1. (Types /\ DeviceOK)'
      BY <1>0, <2>1 DEF RegisterChrdev, Insmod, program, LibraryInv, Types, DeviceOK
    <3> QED BY <2>0, <2>1, <3>1, KernelStepInv DEF RegisterChrdev, Insmod
  <2>2. CASE ClassCreate
    <3>1. (Types /\ DeviceOK)'
      BY <2>2 DEF ClassCreate, Insmod, program, LibraryInv, Types, DeviceOK
    <3> QED BY <2>0, <2>2, <3>1, KernelStepInv DEF ClassCreate, Insmod
  <2>3. CASE DeviceCreate
    <3>1. (Types /\ DeviceOK)'
      <4>1. UNCHANGED <<refs, lines, fd, early, ready, pc, off, buf, numbers>>
        BY <2>3 DEF DeviceCreate, program
      <4>2. CASE device' = TRUE /\ module' = "publish"
        <5>1. device' \in BOOLEAN
          BY <4>2, Zenon
        <5>2. Types'
          BY <4>1, <5>1 DEF LibraryInv, Types
        <5>3. DeviceOK'
          BY <4>2 DEF DeviceOK
        <5> QED BY <5>2, <5>3
      <4>3. CASE module = "device" /\ module' = "err" /\ UNCHANGED device
        BY <4>1, <4>3 DEF LibraryInv, Types, DeviceOK
      <4> QED BY <2>3, <4>2, <4>3 DEF DeviceCreate, Insmod
    <3> QED BY <2>0, <2>3, <3>1, KernelStepInv DEF DeviceCreate, Insmod
  <2>4. CASE Publish
    <3>1. (Types /\ DeviceOK)'
      BY <1>0, <2>4 DEF Publish, MoreLines, Insmod, program, LibraryInv, Types, DeviceOK
    <3>2. UNCHANGED <<refs, program, major, device>>
      BY <2>4 DEF Publish
    <3>3. module' \in {"publish", "probes"} /\ (lines = Commands => lines' = lines)
      BY <1>0, <2>4 DEF Publish, MoreLines, Insmod
    <3> QED BY <3>1, <3>2, <3>3, KernelStepInv
  <2>5. CASE UndoClass
    <3>1. (Types /\ DeviceOK)'
      BY <2>5 DEF UndoClass, Insmod, program, LibraryInv, Types, DeviceOK
    <3> QED BY <2>0, <2>5, <3>1, KernelStepInv DEF UndoClass, Insmod
  <2>6. CASE UndoChrdev
    <3>1. (Types /\ DeviceOK)'
      BY <2>6 DEF UndoChrdev, Insmod, program, LibraryInv, Types, DeviceOK
    <3> QED BY <2>0, <2>6, <3>1, KernelStepInv DEF UndoChrdev, Insmod
  <2>7. CASE RegisterFailed
    <3>1. (Types /\ DeviceOK)'
      BY <2>7 DEF RegisterFailed, Insmod, program, LibraryInv, Types, DeviceOK
    <3> QED BY <2>0, <2>7, <3>1, KernelStepInv DEF RegisterFailed, Insmod
  <2>8. CASE RegisterProbes
    <3>1. (Types /\ DeviceOK)'
      BY <2>8 DEF RegisterProbes, Insmod, program, LibraryInv, Types, DeviceOK
    <3> QED BY <2>8, <3>1, KernelStepInv DEF RegisterProbes, Insmod
  <2>9. CASE Rmmod
    <3>1. (Types /\ DeviceOK)'
      BY <2>9 DEF Rmmod, Insmod, program, LibraryInv, Types, DeviceOK
    <3>2. Opened = {}
      <4>1. Cardinality(Opened) = 0
        BY <2>9 DEF Rmmod, MayUnload, LibraryInv, RefsCountOpen
      <4>2. IsFiniteSet(Opened)
        BY LibraryAssumption, FS_Subset DEF Opened
      <4> QED BY <4>1, <4>2, FS_EmptySet
    <3> QED BY <2>9, <3>1, <3>2, KernelStepInv DEF Rmmod
  <2>10. CASE UnregisterProbes
    <3>1. (Types /\ DeviceOK)'
      BY <2>10 DEF UnregisterProbes, Insmod, program, LibraryInv, Types, DeviceOK
    <3> QED BY <2>0, <2>10, <3>1, KernelStepInv DEF UnregisterProbes, Insmod
  <2>11. CASE UnregisterDevice
    <3>1. (Types /\ DeviceOK)'
      BY <2>11 DEF UnregisterDevice, Insmod, program, LibraryInv, Types, DeviceOK
    <3> QED BY <2>0, <2>11, <3>1, KernelStepInv DEF UnregisterDevice, Insmod
  <2>12. ASSUME NEW p \in Program, Open(p) PROVE LibraryInv'
    <3>0. ~fd[p]
      BY <2>12 DEF Open, LibraryInv, ProgramOK
    <3>1. (Types /\ DeviceOK)'
      <4>1. DeviceOK' /\ UNCHANGED <<lines, device, off, buf, numbers, ready>>
        BY <2>12 DEF Open, LibraryInv, DeviceOK
      <4>2. refs' \in Nat /\ pc' \in [Program -> {"start", "read", "parse", "run"}]
        BY <2>12 DEF Open, LibraryInv, Types
      <4>3. fd' \in [Program -> BOOLEAN] /\ early' \in [Program -> BOOLEAN]
        <5>1. fd \in [Program -> BOOLEAN] /\ early \in [Program -> BOOLEAN]
          BY DEF LibraryInv, Types
        <5>2. \/ UNCHANGED <<fd, early>>
              \/ /\ fd' = [fd EXCEPT ![p] = TRUE]
                 /\ early' = [early EXCEPT ![p] = (lines < Commands)]
          BY <2>12 DEF Open
        <5>3. (lines < Commands) \in BOOLEAN
          OBVIOUS
        <5>4. CASE UNCHANGED <<fd, early>>
          BY <5>1, <5>4
        <5>5. CASE /\ fd' = [fd EXCEPT ![p] = TRUE]
                   /\ early' = [early EXCEPT ![p] = (lines < Commands)]
          BY <5>1, <5>3, <5>5, Zenon
        <5> QED BY <5>2, <5>4, <5>5
      <4> QED BY <4>1, <4>2, <4>3 DEF LibraryInv, Types
    <3>2. RefsCountOpen'
      <4>1. CASE device /\ TryModuleGet
        BY <2>12, <3>0, <4>1, OpenedChanges
          DEF Open, LibraryInv, Types, RefsCountOpen
      <4>2. CASE ~(device /\ TryModuleGet)
        BY <2>12, <4>2 DEF Open, LibraryInv, RefsCountOpen, Opened
      <4> QED BY <4>1, <4>2
    <3>3. OpenKeepsModule'
      BY <2>12 DEF Open, TryModuleGet, LibraryInv, Types, DeviceOK, OpenKeepsModule
    <3>4. Message' = Message
      BY <2>12 DEF Open, Message, Line
    <3>5. ASSUME NEW q \in Program PROVE ProgramOK(q)'
      <4>1. CASE q # p
        BY <2>12, <3>4, <4>1 DEF Open, LibraryInv, Types, ProgramOK
      <4>2. CASE q = p
        <5>1. /\ UNCHANGED <<lines, device, off, buf, ready>>
              /\ ~ready[p] /\ pc[p] = "start"
          BY <2>12, <3>0 DEF Open, LibraryInv, ProgramOK
        <5>2. CASE device /\ TryModuleGet
          <6>1. /\ fd'[p] = TRUE /\ pc'[p] = "read"
                /\ early'[p] = (lines < Commands)
            BY <2>12, <5>2 DEF Open, LibraryInv, Types
          <6>2. ~early'[p] => lines = Commands
            <7>1. ~early'[p] => ~(lines < Commands)
              BY <6>1, Zenon
            <7>2. ~(lines < Commands) => lines = Commands
              BY <1>0 DEF LibraryInv, Types
            <7> QED BY <7>1, <7>2
          <6>3. buf[p] = << >> /\ off[p] = 0
            BY <5>1 DEF LibraryInv, ProgramOK
          <6> QED BY <4>2, <5>1, <5>2, <6>1, <6>2, <6>3 DEF ProgramOK
        <5>3. CASE ~(device /\ TryModuleGet)
          <6>1. fd' = fd /\ pc'[p] = "run"
            BY <2>12, <5>3 DEF Open, LibraryInv, Types
          <6> QED BY <3>0, <4>2, <5>1, <6>1 DEF ProgramOK
        <5> QED BY <5>2, <5>3
      <4> QED BY <4>1, <4>2
    <3> QED BY <3>1, <3>2, <3>3, <3>5 DEF LibraryInv
  <2>13. ASSUME NEW p \in Program, Read(p) PROVE LibraryInv'
    <3> DEFINE room == Buffer - Len(buf[p])
               i    == IF room < lines THEN room ELSE lines
               new  == [k \in 1..i |-> MessageAt(off[p] + k)]
    <3>1. /\ pc[p] = "read"
          /\ UNCHANGED <<kernel, fd, numbers, ready, early>>
          /\ \/ /\ off[p] >= lines \/ i = 0
                /\ pc' = [pc EXCEPT ![p] = "parse"]
                /\ UNCHANGED <<off, buf>>
             \/ /\ off[p] < lines /\ i > 0
                /\ buf' = [buf EXCEPT ![p] = buf[p] \o new]
                /\ off' = [off EXCEPT ![p] = off[p] + i]
                /\ UNCHANGED pc
      BY <2>13 DEF Read
    <3> HIDE DEF i, new
    <3>2. Message' = Message /\ DeviceOK' /\ OpenKeepsModule' /\ RefsCountOpen'
      BY <3>1 DEF LibraryInv, kernel, Message, Line, DeviceOK, OpenKeepsModule,
                  RefsCountOpen, Opened
    <3>3. ASSUME NEW q \in Program, q # p PROVE ProgramOK(q)'
      BY <3>1, <3>2, <3>3 DEF LibraryInv, kernel, Types, ProgramOK
    <3>4. fd[p]
      BY <3>1 DEF LibraryInv, ProgramOK, Types
    <3>5. /\ ProgramOK(p) /\ off[p] \in Nat /\ lines \in Nat
          /\ UNCHANGED <<fd, device, lines, major, early, ready, numbers>>
      BY <1>0, <3>1 DEF LibraryInv, Types, kernel
    \* What a program that was not early has read.
    <3>6. ASSUME ~early[p] PROVE ProgramOK(p)'
      <4>1. /\ lines = Commands
            /\ \/ buf[p] = << >> /\ off[p] = 0
               \/ buf[p] = Message /\ off[p] = Commands
        BY <3>1, <3>4, <3>5, <3>6 DEF ProgramOK
      <4>2. Commands = 0 => Message = << >>
        BY DEF Message
      <4>3. buf[p] = << >> => i = Commands
        BY <1>0, <4>1 DEF i
      <4>4. buf[p] = << >> /\ off[p] = 0 => new = Message
        <5> SUFFICES ASSUME buf[p] = << >>, off[p] = 0 PROVE new = Message
          OBVIOUS
        <5>1. \A k \in 1..Commands : MessageAt(off[p] + k) = Line(k)
          BY <1>0, <4>1 DEF MessageAt
        <5> QED BY <4>3, <5>1 DEF new, Message
      <4>5. Message \in Seq({<<major, k>> : k \in 1..Commands})
        BY <1>0 DEF Message, Line
      <4>6. << >> \o Message = Message
        BY <4>5
      <4>7. Len(Message) = Commands
        BY <1>0 DEF Message
      <4>8. buf[p] = Message => i = Commands
        BY <1>0, <4>1, <4>7 DEF i
      <4>9. CASE off[p] >= lines \/ i = 0
        <5>1. buf[p] = Message
          BY <1>0, <4>1, <4>2, <4>3, <4>9
        <5>2. buf' = buf /\ pc'[p] = "parse"
          BY <3>1, <4>9, <3>5 DEF LibraryInv, Types
        <5> QED BY <3>1, <3>2, <3>4, <3>5, <4>1, <5>1, <5>2 DEF ProgramOK
      <4>10. CASE off[p] < lines /\ i > 0
        <5>1. buf[p] = << >> /\ off[p] = 0
          BY <1>0, <4>1, <4>10
        <5>2. /\ buf' = [buf EXCEPT ![p] = buf[p] \o new]
              /\ off' = [off EXCEPT ![p] = off[p] + i] /\ UNCHANGED pc
          BY <3>1, <3>5, <4>10
        <5>3. buf'[p] = Message /\ off'[p] = Commands
          BY <1>0, <4>3, <4>4, <4>6, <5>1, <5>2 DEF LibraryInv, Types
        <5> QED BY <3>1, <3>2, <3>5, <4>1, <5>2, <5>3 DEF ProgramOK
      <4>11. i \in Int
        BY <4>1, <4>3, <4>8, <1>0
      <4>12. i >= 0
        BY <1>0, <4>1, <4>3, <4>8
      <4> QED BY <1>0, <3>5, <4>9, <4>10, <4>11, <4>12
    <3>7. ASSUME early[p] PROVE ProgramOK(p)'
      <4>1. pc'[p] \in {"read", "parse"}
        BY <3>1 DEF LibraryInv, Types
      <4> QED BY <3>1, <3>4, <3>5, <3>7, <4>1 DEF ProgramOK
    <3>8. Types'
      <4>1. i > 0 /\ off[p] < lines => off[p] + i \in Nat
        BY <1>0, <3>5 DEF i
      <4>2. /\ UNCHANGED <<refs, lines, device, fd, early, ready, numbers>>
            /\ DOMAIN buf' = Program
            /\ pc' \in [Program -> {"start", "read", "parse", "run"}]
        BY <3>1 DEF LibraryInv, Types, kernel
      <4>3. off' \in [Program -> Nat]
        BY <3>1, <4>1 DEF LibraryInv, Types
      <4> QED BY <4>2, <4>3 DEF LibraryInv, Types
    <3>9. ProgramOK(p)'
      BY <3>6, <3>7
    <3> QED BY <3>2, <3>3, <3>8, <3>9 DEF LibraryInv
  <2>14. ASSUME NEW p \in Program, Parse(p) PROVE LibraryInv'
    <3>1. PICK rest \in {NoNumber, Junk} :
            numbers' = [numbers EXCEPT ![p] = [c \in Command |-> Token(p, c, rest)]]
      BY <2>14 DEF Parse
    <3>2. Message' = Message /\ DeviceOK' /\ OpenKeepsModule' /\ RefsCountOpen'
      BY <2>14 DEF Parse, LibraryInv, kernel, Message, Line, DeviceOK,
                   OpenKeepsModule, RefsCountOpen, Opened
    <3>3. Types'
      BY <2>14 DEF Parse, LibraryInv, kernel, Types
    <3>4. buf[p] = Message => \A c \in Command : Token(p, c, rest) = <<major, c>>
      <4> SUFFICES ASSUME buf[p] = Message, NEW c \in Command
                   PROVE  Token(p, c, rest) = <<major, c>>
        OBVIOUS
      <4>1. Len(buf[p]) = Commands /\ c \in 1..Commands
        BY <1>0 DEF Message, Command
      <4>2. \A j \in 1..Commands : buf[p][j] = <<major, j>>
        BY DEF Message, Line
      <4>3. ASSUME NEW j \in 1..c PROVE buf[p][j] # Nul
        <5>1. j \in 1..Commands
          BY <1>0, <4>1, <4>3
        <5>2. buf[p][j] = <<major, j>> /\ j # 0
          BY <4>2, <5>1
        <5> QED BY <5>2 DEF Nul
      <4>4. ~(c > Len(buf[p])) /\ buf[p][c] = <<major, c>>
        BY <1>0, <4>1, <4>2
      <4> QED BY <4>3, <4>4 DEF Token
    <3>5. ASSUME NEW q \in Program PROVE ProgramOK(q)'
      <4>1. CASE q # p
        BY <2>14, <3>1, <3>2, <4>1 DEF Parse, LibraryInv, kernel, Types, ProgramOK
      <4>2. CASE q = p
        <5>1. fd[p] /\ device /\ UNCHANGED <<fd, device, lines, major, early>>
          BY <2>14 DEF Parse, LibraryInv, ProgramOK, Types, kernel
        <5>2. /\ pc'[p] = "run"
              /\ numbers'[p] = [c \in Command |-> Token(p, c, rest)]
          BY <2>14, <3>1 DEF Parse, LibraryInv, Types
        <5>3. ~early[p] => lines = Commands /\ buf[p] = Message
          BY <2>14, <5>1 DEF Parse, LibraryInv, ProgramOK
        <5>4. ~early[p] => numbers'[p] = [c \in Command |-> <<major, c>>]
          BY <3>4, <5>2, <5>3
        <5> QED BY <4>2, <5>1, <5>2, <5>3, <5>4 DEF ProgramOK
      <4> QED BY <4>1, <4>2
    <3> QED BY <3>2, <3>3, <3>5 DEF LibraryInv
  <2>15. ASSUME NEW p \in Program, Exit(p) PROVE LibraryInv'
    <3>1. Types'
      <4>1. refs' \in Nat
        <5>1. refs \in Nat /\ IsFiniteSet(Opened) /\ refs = Cardinality(Opened)
          BY OpenedChanges DEF LibraryInv, Types, RefsCountOpen
        <5>2. fd[p] => refs # 0
          BY <5>1, FS_EmptySet DEF Opened
        <5> QED BY <2>15, <5>1, <5>2 DEF Exit, ModulePut
      <4> QED BY <2>15, <4>1 DEF Exit, LibraryInv, Types
    <3>2. Message' = Message /\ DeviceOK' /\ OpenKeepsModule'
      BY <2>15 DEF Exit, LibraryInv, Types, Message, Line, DeviceOK, OpenKeepsModule
    <3>3. RefsCountOpen'
      <4>1. CASE fd[p]
        BY <2>15, <4>1, OpenedChanges DEF Exit, ModulePut, LibraryInv, Types, RefsCountOpen
      <4>2. CASE ~fd[p]
        BY <2>15, <4>2, OpenedChanges DEF Exit, LibraryInv, Types, RefsCountOpen
      <4> QED BY <4>1, <4>2
    <3>4. ASSUME NEW q \in Program PROVE ProgramOK(q)'
      <4>1. CASE q # p
        BY <2>15, <3>2, <4>1 DEF Exit, LibraryInv, Types, ProgramOK
      <4>2. CASE q = p
        BY <2>15, <4>2 DEF Exit, LibraryInv, Types, ProgramOK
      <4> QED BY <4>1, <4>2
    <3> QED BY <3>1, <3>2, <3>3, <3>4 DEF LibraryInv
  <2>16. ASSUME NEW p \in Program, NEW c \in Command, Call(p, c)
         PROVE  LibraryInv'
    BY <2>16 DEF Call, kernel, LibraryInv, Types, DeviceOK, RefsCountOpen, Opened,
                 OpenKeepsModule, ProgramOK, Message, Line
  <2>17. CASE UNCHANGED vars
    BY <2>17 DEF vars, kernel, program, LibraryInv, Types, DeviceOK, RefsCountOpen,
                 Opened, OpenKeepsModule, ProgramOK, Message, Line
  <2> QED
    BY <2>1, <2>2, <2>3, <2>4, <2>5, <2>6, <2>7, <2>8, <2>9, <2>10, <2>11,
       <2>12, <2>13, <2>14, <2>15, <2>16, <2>17 DEF Next
<1> QED BY <1>1, <1>2, PTL DEF Spec

-----------------------------------------------------------------------------

\* The module's reference count is the number of open descriptors: fiber_open
\* and fiber_close take and give back one each.
THEOREM RefsCounted == Spec => []RefsCountOpen
<1>1. LibraryInv => RefsCountOpen
  BY DEF LibraryInv
<1> QED BY <1>1, LibraryInvariant, PTL

\* Hence rmmod never takes the module away from under an open descriptor,
\* also one opened while fiber_cleanup is at work.
THEOREM ModuleStays == Spec => []OpenKeepsModule
<1>1. LibraryInv => OpenKeepsModule
  BY DEF LibraryInv
<1> QED BY <1>1, LibraryInvariant, PTL

\* A program whose fiberlib_init found the message complete calls with the
\* numbers of the module that serves it, however often the module was loaded
\* before with another major number.
THEOREM NumbersCurrent == Spec => []CommandsCurrent
<1>1. LibraryInv => CommandsCurrent
  <2> SUFFICES ASSUME LibraryInv, NEW p \in Program, fd[p], ready[p], ~early[p]
               PROVE  numbers[p] = [c \in Command |-> <<major, c>>]
    BY DEF CommandsCurrent
  <2>1. pc[p] = "run"
    BY DEF LibraryInv, Types, ProgramOK
  <2> QED BY <2>1 DEF LibraryInv, ProgramOK
<1> QED BY <1>1, LibraryInvariant, PTL

-----------------------------------------------------------------------------
(***************************************************************************)
(* Loading and unloading                                                   *)
(***************************************************************************)

KernelTypes ==
  /\ module \in {"out", "class", "device", "publish", "err", "err2", "failed",
                 "probes", "live", "going", "unregister"}
  /\ major \in Major \cup {NoMajor}
  /\ class \in {"none", "made", "destroyed"}
  /\ probes \subseteq Probes
  /\ failed \in BOOLEAN
  /\ wild \in BOOLEAN

\* The device, its class and its number have all been made, or none is there.
Registered == device /\ class = "made" /\ major # NoMajor
Unregistered == ~device /\ class # "made" /\ major = NoMajor

\* What there is of the device at every point of fiber_init and fiber_cleanup.
LoadOK ==
  /\ module \in {"out", "failed"} => Unregistered
  /\ module = "class" => ~device /\ class # "made" /\ major # NoMajor
  /\ module \in {"device", "err"} => ~device /\ class = "made" /\ major # NoMajor
  /\ module = "err2" => ~device /\ class # "made"
  /\ module = "publish" => Registered
  /\ module \in {"probes", "live", "going", "unregister"}
       => IF failed THEN Unregistered ELSE Registered
  /\ failed => module \in {"out", "probes", "live", "going", "unregister"}
  /\ module \notin {"live", "going"} => probes = {}
  /\ wild => failed

LoadInv == KernelTypes /\ LoadOK

\* LoadInv is inductive: one step per action of the module; a program changes
\* none of it.
LEMMA LoadInvariant == Spec => []LoadInv
<1>1. Init => LoadInv
  <2> SUFFICES ASSUME Init PROVE LoadInv
    OBVIOUS
  <2>1. failed \in BOOLEAN /\ wild \in BOOLEAN
    BY Zenon DEF Init
  <2> QED BY <2>1 DEF Init, LoadInv, KernelTypes, LoadOK, Unregistered, NoMajor, Probes
<1>2. LoadInv /\ [Next]_vars => LoadInv'
  <2> SUFFICES ASSUME LoadInv, [Next]_vars PROVE LoadInv'
    OBVIOUS
  <2> USE DEF LoadInv, KernelTypes, LoadOK, Registered, Unregistered
  <2>1. CASE RegisterChrdev
    <3>1. failed' \in BOOLEAN /\ wild' \in BOOLEAN
      BY <2>1, Zenon DEF RegisterChrdev
    <3> QED BY <2>1, <3>1, LibraryAssumption DEF RegisterChrdev, Insmod, NoMajor
  <2>2. CASE ClassCreate
    BY <2>2 DEF ClassCreate, Insmod
  <2>3. CASE DeviceCreate
    BY <2>3 DEF DeviceCreate, Insmod
  <2>4. CASE Publish
    BY <2>4 DEF Publish, MoreLines, Insmod
  <2>5. CASE UndoClass
    BY <2>5 DEF UndoClass, DestroyClass, Insmod
  <2>6. CASE UndoChrdev
    BY <2>6 DEF UndoChrdev, Insmod
  <2>7. CASE RegisterFailed
    <3>1. failed' \in BOOLEAN
      BY <2>7, Zenon DEF RegisterFailed
    <3> QED BY <2>7, <3>1 DEF RegisterFailed, Insmod
  <2>8. CASE RegisterProbes
    BY <2>8 DEF RegisterProbes, Insmod
  <2>9. CASE Rmmod
    BY <2>9 DEF Rmmod, Insmod
  <2>10. CASE UnregisterProbes
    BY <2>10 DEF UnregisterProbes, UnregisterAll, Insmod
  <2>11. CASE UnregisterDevice
    <3>1. wild' \in BOOLEAN
      <4>1. (class # "made" \/ major = NoMajor) \in BOOLEAN
        OBVIOUS
      <4> QED BY <2>11, <4>1, Zenon DEF UnregisterDevice
    <3>2. ~failed => ~wild'
      BY <2>11 DEF UnregisterDevice, Insmod
    <3> QED BY <2>11, <3>1, <3>2 DEF UnregisterDevice, Insmod
  <2>12. CASE UNCHANGED <<module, major, class, device, probes, failed, wild>>
    BY <2>12
  <2>13. ASSUME NEW p \in Program,
                \/ Open(p) \/ Read(p) \/ Parse(p) \/ Exit(p)
                \/ \E c \in Command : Call(p, c)
         PROVE  UNCHANGED <<module, major, class, device, probes, failed, wild>>
    BY <2>13 DEF Open, Read, Parse, Exit, Call, kernel
  <2>14. CASE UNCHANGED vars
    BY <2>12, <2>14 DEF vars, kernel
  <2> QED
    BY <2>1, <2>2, <2>3, <2>4, <2>5, <2>6, <2>7, <2>8, <2>9, <2>10, <2>11, <2>12,
       <2>13, <2>14 DEF Next
<1> QED BY <1>1, <1>2, PTL DEF Spec

\* Whatever step of fiber_init fails, and whenever the module is unloaded, no
\* device, number, class or probe is left behind.
THEOREM LeavesNothing == Spec => []NothingLeft
<1>1. LoadInv => NothingLeft
  BY DEF LoadInv, LoadOK, Unregistered, NothingLeft
<1> QED BY <1>1, LoadInvariant, PTL

-----------------------------------------------------------------------------
(***************************************************************************)
(* Calls                                                                   *)
(***************************************************************************)

CallTypes ==
  /\ buf \in [Program -> Seq(Nat \X Nat)]
  /\ numbers \in [Program -> [Command -> Nat \X Nat]]
  /\ called \in [Program -> (0..Commands) \X Nat]

\* What a program has read and parsed, complete or not: every line that is
\* there is in its place, and what is not there is no command's number.
NumbersOK(p) ==
  /\ pc[p] = "read" => off[p] = Len(buf[p])
  /\ pc[p] \in {"read", "parse"} =>
       \A k \in 1..Len(buf[p]) : buf[p][k] \in {<<major, k>>, Nul}
  /\ \A c \in Command : numbers[p][c] \in {NoNumber, Junk, <<major, c>>}

CallInv ==
  /\ CallTypes /\ RunsWhatIsCalled
  /\ \A p \in Program : /\ fd[p] => NumbersOK(p)
                        /\ ~fd[p] => \A c \in Command : numbers[p][c] = NoNumber

\* A number in its place stands for the command of that place or for none.
LEMMA DispatchRight ==
  ASSUME NEW c \in Command, NEW n \in {NoNumber, Junk, <<major, c>>}, major # NoMajor
  PROVE  Dispatch(n) \in {0, c}
<1>1. CASE n = <<major, c>>
  BY <1>1 DEF Dispatch
<1>2. CASE n \in {NoNumber, Junk}
  <2>1. n[1] = 0
    BY <1>2 DEF NoNumber, Junk
  <2>2. \A d \in Command : n # <<major, d>>
    BY <2>1 DEF NoMajor
  <2> QED BY <2>2 DEF Dispatch
<1> QED BY <1>1, <1>2

\* A token of the buffer is the line of its place, or no command's number.
LEMMA TokenRight ==
  ASSUME LoadInv, CallInv, NEW p \in Program, NEW c \in Command,
         NEW rest \in {NoNumber, Junk}, fd[p], pc[p] = "parse"
  PROVE  Token(p, c, rest) \in {NoNumber, Junk, <<major, c>>}
<1>1. /\ buf[p] \in Seq(Nat \X Nat) /\ c \in Nat /\ c >= 1
      /\ \A k \in 1..Len(buf[p]) : buf[p][k] \in {<<major, k>>, Nul}
  <2>1. buf[p] \in Seq(Nat \X Nat)
    BY DEF CallInv, CallTypes
  <2>2. c \in Nat /\ c >= 1
    BY LibraryAssumption DEF Command
  <2>3. NumbersOK(p)
    BY DEF CallInv
  <2>4. \A k \in 1..Len(buf[p]) : buf[p][k] \in {<<major, k>>, Nul}
    BY <2>3 DEF NumbersOK
  <2> QED BY <2>1, <2>2, <2>4
<1>2. CASE c > Len(buf[p])
  BY <1>2 DEF Token
<1>3. CASE ~(c > Len(buf[p]))
  <2>1. c \in 1..Len(buf[p]) /\ c \in 1..c
    BY <1>1, <1>3
  <2>2. CASE \E j \in 1..c : buf[p][j] = Nul
    BY <1>3, <2>2 DEF Token
  <2>3. CASE ~\E j \in 1..c : buf[p][j] = Nul
    <3>1. buf[p][c] = <<major, c>>
      BY <1>1, <2>1, <2>3
    <3> QED BY <1>3, <2>3, <3>1 DEF Token
  <2> QED BY <2>2, <2>3
<1> QED BY <1>2, <1>3

\* What a read appends continues the message where the last read stopped.
LEMMA ReadRight ==
  ASSUME Types, LoadInv, CallInv, NEW p \in Program, Read(p), fd[p]
  PROVE  /\ buf' \in [Program -> Seq(Nat \X Nat)]
         /\ NumbersOK(p)'
         /\ \A q \in Program : q # p => UNCHANGED <<buf[q], off[q], pc[q]>>
<1> DEFINE room == Buffer - Len(buf[p])
           i    == IF room < lines THEN room ELSE lines
           new  == [k \in 1..i |-> MessageAt(off[p] + k)]
<1>1. /\ pc[p] = "read"
      /\ UNCHANGED <<kernel, numbers>>
      /\ \/ /\ pc' = [pc EXCEPT ![p] = "parse"]
            /\ UNCHANGED <<off, buf>>
         \/ /\ i > 0
            /\ buf' = [buf EXCEPT ![p] = buf[p] \o new]
            /\ off' = [off EXCEPT ![p] = off[p] + i]
            /\ UNCHANGED pc
  BY DEF Read
<1>2. /\ buf[p] \in Seq(Nat \X Nat) /\ off[p] = Len(buf[p]) /\ off[p] \in Nat
      /\ \A k \in 1..Len(buf[p]) : buf[p][k] \in {<<major, k>>, Nul}
      /\ \A c \in Command : numbers[p][c] \in {NoNumber, Junk, <<major, c>>}
  BY <1>1 DEF CallInv, CallTypes, NumbersOK, Types
<1>3. i \in Int /\ lines \in Nat /\ major' = major
  BY <1>1, <1>2, LibraryAssumption DEF Types, kernel
<1> HIDE DEF i
<1>4. CASE pc' = [pc EXCEPT ![p] = "parse"] /\ UNCHANGED <<off, buf>>
  BY <1>1, <1>2, <1>3, <1>4 DEF CallInv, CallTypes, NumbersOK, Types
<1>5. CASE /\ i > 0
           /\ buf' = [buf EXCEPT ![p] = buf[p] \o new]
           /\ off' = [off EXCEPT ![p] = off[p] + i]
           /\ UNCHANGED pc
  <2>1. \A k \in Nat : MessageAt(k) \in {<<major, k>>, Nul}
    BY DEF MessageAt, Line
  <2>2. major \in Nat
    BY LibraryAssumption DEF LoadInv, KernelTypes, NoMajor
  <2>3. \A k \in Nat : MessageAt(k) \in Nat \X Nat
    BY <2>1, <2>2 DEF Nul
  <2>4. /\ new \in Seq(Nat \X Nat) /\ Len(new) = i
        /\ \A k \in 1..i : new[k] = MessageAt(off[p] + k)
    <3>1. i \in Nat /\ \A k \in 1..i : off[p] + k \in Nat
      BY <1>2, <1>3, <1>5
    <3>2. new \in [1..i -> Nat \X Nat]
      BY <2>3, <3>1
    <3>3. \A k \in 1..i : new[k] = MessageAt(off[p] + k)
      OBVIOUS
    <3> HIDE DEF new
    <3> QED BY <3>1, <3>2, <3>3
  <2> HIDE DEF new
  <2>5. /\ buf[p] \o new \in Seq(Nat \X Nat)
        /\ Len(buf[p] \o new) = Len(buf[p]) + i
        /\ \A k \in 1..(Len(buf[p]) + i) :
             (buf[p] \o new)[k] = IF k <= Len(buf[p]) THEN buf[p][k]
                                                      ELSE new[k - Len(buf[p])]
    <3>1. new \in Seq(Nat \X Nat) /\ buf[p] \in Seq(Nat \X Nat) /\ Len(new) = i
      BY <1>2, <2>4
    <3> DEFINE s == buf[p]
    <3>2. s \in Seq(Nat \X Nat)
      BY <3>1
    <3> HIDE DEF s
    <3>3. /\ s \o new \in Seq(Nat \X Nat)
          /\ Len(s \o new) = Len(s) + Len(new)
          /\ \A k \in 1..(Len(s) + Len(new)) :
               (s \o new)[k] = IF k <= Len(s) THEN s[k] ELSE new[k - Len(s)]
      BY <3>1, <3>2, ConcatProperties, Zenon
    <3> QED BY <3>1, <3>3, Zenon DEF s
  <2>6. ASSUME NEW k \in 1..(Len(buf[p]) + i)
        PROVE  (buf[p] \o new)[k] \in {<<major, k>>, Nul}
    <3>0. Len(buf[p]) \in Nat /\ k \in Nat /\ k >= 1
      BY <1>2, <1>3, <2>6
    <3>1. CASE k <= Len(buf[p])
      <4>1. k \in 1..Len(buf[p])
        BY <3>0, <3>1
      <4> QED BY <1>2, <2>5, <3>1, <4>1
    <3>2. CASE ~(k <= Len(buf[p]))
      <4>1. k - Len(buf[p]) \in 1..i /\ off[p] + (k - Len(buf[p])) = k
        BY <1>2, <1>3, <3>0, <3>2
      <4>2. new[k - Len(buf[p])] = MessageAt(k)
        BY <2>4, <4>1
      <4> QED BY <2>1, <2>5, <3>0, <3>2, <4>2
    <3> QED BY <3>1, <3>2
  <2>7. /\ buf'[p] = buf[p] \o new /\ off'[p] = off[p] + i
        /\ buf' \in [Program -> Seq(Nat \X Nat)]
        /\ \A q \in Program : q # p => UNCHANGED <<buf[q], off[q], pc[q]>>
    BY <1>5, <2>5 DEF CallInv, CallTypes, Types
  <2>8. NumbersOK(p)'
    BY <1>1, <1>2, <1>3, <1>5, <2>5, <2>6, <2>7 DEF NumbersOK
  <2> QED BY <2>7, <2>8
<1> QED BY <1>1, <1>4, <1>5

\* Every step keeps CallInv.
LEMMA CallStep ==
  ASSUME LibraryInv, LoadInv, CallInv, [Next]_vars
  PROVE  CallInv'
<1>0. Types /\ (\A p \in Program : fd[p] => device)
  BY DEF LibraryInv, ProgramOK
<1>1. ASSUME UNCHANGED program, Opened = {} \/ UNCHANGED major
      PROVE  CallInv'
  BY <1>1 DEF program, CallInv, CallTypes, RunsWhatIsCalled, NumbersOK, Opened
<1>2. module \notin {"publish", "probes", "live"} => Opened = {}
  BY DEF LibraryInv, OpenKeepsModule, Opened
<1>3. ASSUME \/ RegisterChrdev \/ ClassCreate \/ DeviceCreate \/ Publish
             \/ UndoClass \/ UndoChrdev \/ RegisterFailed \/ RegisterProbes
             \/ Rmmod \/ UnregisterProbes \/ UnregisterDevice
      PROVE  CallInv'
  <2>1. UNCHANGED program
    BY <1>3 DEF RegisterChrdev, ClassCreate, DeviceCreate, Publish, UndoClass,
                UndoChrdev, RegisterFailed, RegisterProbes, Rmmod, UnregisterProbes,
                UnregisterDevice
  <2>2. Opened = {} \/ UNCHANGED major
    BY <1>2, <1>3 DEF RegisterChrdev, ClassCreate, DeviceCreate, Publish, UndoClass,
                UndoChrdev, RegisterFailed, RegisterProbes, Rmmod, UnregisterProbes,
                UnregisterDevice, Insmod
  <2> QED BY <1>1, <2>1, <2>2
<1>4. ASSUME NEW p \in Program, Open(p) PROVE CallInv'
  <2>1. buf[p] = << >> /\ off[p] = 0 /\ ~fd[p]
    BY <1>4 DEF Open, LibraryInv, ProgramOK
  <2>2. UNCHANGED <<major, off, buf, numbers, called>>
    BY <1>4 DEF Open
  <2>3. \A q \in Program : q # p => UNCHANGED <<fd[q], pc[q]>>
    BY <1>0, <1>4 DEF Open, Types
  <2>4. fd'[p] => pc'[p] = "read"
    BY <1>0, <1>4, <2>1 DEF Open, Types
  <2>5. \A c \in Command : numbers[p][c] = NoNumber
    BY <2>1 DEF CallInv
  <2>6. CallTypes' /\ RunsWhatIsCalled'
    BY <2>2 DEF CallInv, CallTypes, RunsWhatIsCalled
  <2>7. ASSUME NEW q \in Program, fd'[q] PROVE NumbersOK(q)'
    <3>1. CASE q = p
      BY <2>1, <2>2, <2>4, <2>5, <2>7, <3>1 DEF NumbersOK
    <3>2. CASE q # p
      BY <2>2, <2>3, <2>7, <3>2 DEF CallInv, NumbersOK
    <3> QED BY <3>1, <3>2
  <2>8. \A q \in Program : ~fd'[q] => \A c \in Command : numbers'[q][c] = NoNumber
    BY <2>2, <2>3, <2>5 DEF CallInv
  <2> QED BY <2>6, <2>7, <2>8 DEF CallInv
<1>5. ASSUME NEW p \in Program, Read(p) PROVE CallInv'
  <2>1. fd[p] /\ UNCHANGED <<major, fd, numbers, called>>
    BY <1>5 DEF Read, LibraryInv, ProgramOK, Types, kernel
  <2>2. /\ buf' \in [Program -> Seq(Nat \X Nat)]
        /\ NumbersOK(p)'
        /\ \A q \in Program : q # p => UNCHANGED <<buf[q], off[q], pc[q]>>
    BY <1>0, <1>5, <2>1, ReadRight
  <2>3. ASSUME NEW q \in Program, fd[q] PROVE NumbersOK(q)'
    BY <2>1, <2>2, <2>3 DEF CallInv, NumbersOK
  <2> QED BY <2>1, <2>2, <2>3 DEF CallInv, CallTypes, RunsWhatIsCalled
<1>6. ASSUME NEW p \in Program, Parse(p) PROVE CallInv'
  <2>1. /\ fd[p] /\ pc[p] = "parse" /\ pc'[p] = "run"
        /\ UNCHANGED <<major, fd, off, called>>
    BY <1>6 DEF Parse, LibraryInv, ProgramOK, Types, kernel
  <2>2. PICK rest \in {NoNumber, Junk} :
          numbers' = [numbers EXCEPT ![p] = [c \in Command |-> Token(p, c, rest)]]
    BY <1>6 DEF Parse
  <2>3. \A c \in Command : Token(p, c, rest) \in {NoNumber, Junk, <<major, c>>}
    BY <2>1, TokenRight
  <2>4. \A c \in Command : Token(p, c, rest) \in Nat \X Nat
    <3>1. major \in Nat /\ Command \subseteq Nat
      BY LibraryAssumption DEF LoadInv, KernelTypes, NoMajor, Command
    <3> QED BY <2>3, <3>1 DEF NoNumber, Junk
  <2>5. numbers' \in [Program -> [Command -> Nat \X Nat]]
    BY <2>2, <2>4 DEF CallInv, CallTypes
  <2>6. /\ buf' \in [Program -> Seq(Nat \X Nat)]
        /\ \A q \in Program : q # p => UNCHANGED <<buf[q], pc[q], numbers[q]>>
    BY <1>6, <2>2 DEF Parse, CallInv, CallTypes, LibraryInv, Types
  <2>7. \A c \in Command : numbers'[p][c] \in {NoNumber, Junk, <<major, c>>}
    BY <2>2, <2>3 DEF CallInv, CallTypes
  <2>8. ASSUME NEW q \in Program, fd[q] PROVE NumbersOK(q)'
    <3>1. CASE q = p
      BY <2>1, <2>7, <3>1 DEF NumbersOK
    <3>2. CASE q # p
      BY <2>1, <2>6, <2>8, <3>2 DEF CallInv, NumbersOK
    <3> QED BY <3>1, <3>2
  <2>9. ASSUME NEW q \in Program, ~fd[q], NEW c \in Command
        PROVE  numbers'[q][c] = NoNumber
    <3>1. q # p
      BY <2>1, <2>9
    <3> QED BY <2>6, <2>9, <3>1 DEF CallInv
  <2> QED BY <2>1, <2>5, <2>6, <2>8, <2>9 DEF CallInv, CallTypes, RunsWhatIsCalled
<1>7. ASSUME NEW p \in Program, Exit(p) PROVE CallInv'
  <2>1. /\ fd' = [fd EXCEPT ![p] = FALSE] /\ off' = [off EXCEPT ![p] = 0]
        /\ buf' = [buf EXCEPT ![p] = << >>] /\ pc' = [pc EXCEPT ![p] = "start"]
        /\ numbers' = [numbers EXCEPT ![p] = [c \in Command |-> NoNumber]]
        /\ called' = [called EXCEPT ![p] = <<0, 0>>]
        /\ major' = major
    BY <1>7 DEF Exit
  <2>2. CallTypes'
    <3>1. NoNumber \in Nat \X Nat /\ <<0, 0>> \in (0..Commands) \X Nat
      BY LibraryAssumption DEF NoNumber
    <3> QED BY <2>1, <3>1 DEF CallInv, CallTypes
  <2>3. RunsWhatIsCalled'
    BY <2>1 DEF CallInv, CallTypes, RunsWhatIsCalled
  <2>4. ASSUME NEW q \in Program, q # p
        PROVE  UNCHANGED <<fd[q], off[q], buf[q], pc[q], numbers[q]>>
    BY <2>1, <2>4, <1>0 DEF Types
  <2>5. ~fd'[p] /\ \A c \in Command : numbers'[p][c] = NoNumber
    BY <1>0, <2>1 DEF Types
  <2>6. ASSUME NEW q \in Program, fd'[q] PROVE NumbersOK(q)'
    BY <2>1, <2>4, <2>5, <2>6 DEF CallInv, NumbersOK
  <2>7. \A q \in Program : ~fd'[q] => \A c \in Command : numbers'[q][c] = NoNumber
    BY <2>4, <2>5 DEF CallInv
  <2> QED BY <2>2, <2>3, <2>6, <2>7 DEF CallInv
<1>8. ASSUME NEW p \in Program, NEW c \in Command, Call(p, c) PROVE CallInv'
  <2>1. UNCHANGED <<major, fd, pc, off, buf, numbers>>
    BY <1>8 DEF Call, kernel
  <2>2. PICK ran \in {0, IF fd[p] THEN Dispatch(numbers[p][c]) ELSE 0} :
          called' = [called EXCEPT ![p] = <<c, ran>>]
    BY <1>8 DEF Call
  <2>3. ran \in {0, c}
    <3>1. CASE fd[p]
      <4>1. major # NoMajor
        <5>1. device /\ module \in {"publish", "probes", "live", "going", "unregister"}
          BY <1>0, <3>1 DEF LibraryInv, DeviceOK
        <5> QED BY <5>1 DEF LoadInv, LoadOK, Registered, Unregistered
      <4>2. numbers[p][c] \in {NoNumber, Junk, <<major, c>>}
        BY <3>1 DEF CallInv, NumbersOK
      <4>3. Dispatch(numbers[p][c]) \in {0, c}
        BY <4>1, <4>2, DispatchRight
      <4> QED BY <2>2, <3>1, <4>3
    <3>2. CASE ~fd[p]
      BY <2>2, <3>2
    <3> QED BY <3>1, <3>2
  <2>4. <<c, ran>> \in (0..Commands) \X Nat
    BY <2>3, LibraryAssumption DEF Command
  <2>5. CallTypes'
    BY <2>1, <2>2, <2>4 DEF CallInv, CallTypes
  <2>6. ASSUME NEW q \in Program PROVE called'[q][2] \in {0, called'[q][1]}
    <3>1. CASE q = p
      BY <2>2, <2>3, <3>1 DEF CallInv, CallTypes
    <3>2. CASE q # p
      BY <2>2, <3>2 DEF CallInv, CallTypes, RunsWhatIsCalled
    <3> QED BY <3>1, <3>2
  <2> QED BY <2>1, <2>5, <2>6 DEF CallInv, RunsWhatIsCalled, NumbersOK
<1>9. CASE UNCHANGED vars
  BY <1>1, <1>9 DEF vars, kernel
<1> QED
  BY <1>3, <1>4, <1>5, <1>6, <1>7, <1>8, <1>9 DEF Next

\* CallInv holds of every state.
LEMMA CallInvariant == Spec => []CallInv
<1>1. Init => CallInv
  <2> SUFFICES ASSUME Init PROVE CallInv
    OBVIOUS
  <2>1. CallTypes
    <3>1. NoNumber \in Nat \X Nat /\ <<0, 0>> \in (0..Commands) \X Nat
      BY LibraryAssumption DEF NoNumber
    <3> QED BY <3>1 DEF Init, CallTypes
  <2> QED BY <2>1 DEF Init, CallInv, RunsWhatIsCalled
<1>2. LibraryInv /\ LoadInv /\ CallInv /\ [Next]_vars => CallInv'
  BY CallStep
<1> QED BY <1>1, <1>2, LibraryInvariant, LoadInvariant, PTL DEF Spec

\* No call ever runs another command than its own, even for a program that
\* read the message while it was being written and goes on with numbers it
\* does not have.
THEOREM CallsRunTheirCommand == Spec => []RunsWhatIsCalled
<1>1. CallInv => RunsWhatIsCalled
  BY DEF CallInv
<1> QED BY <1>1, CallInvariant, PTL

\* Every variable keeps its type; the reference count never goes below zero and
\* the message never grows beyond its lines.
THEOREM TypesKept == Spec => []TypeOK
<1>1. LibraryInv /\ LoadInv /\ CallInv => TypeOK
  BY DEF LibraryInv, Types, LoadInv, KernelTypes, CallInv, CallTypes, TypeOK
<1> QED BY <1>1, LibraryInvariant, LoadInvariant, CallInvariant, PTL

=============================================================================
