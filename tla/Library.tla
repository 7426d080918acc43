------------------------------ MODULE Library -------------------------------
(***************************************************************************)
(* How a program gets to the module: loading and unloading the module      *)
(* (module/module.c), the device /dev/fibers and the message with the      *)
(* command numbers (module/device.c, ioctl.c), and the user library that   *)
(* reads the message when a program starts and makes every call with the   *)
(* numbers it has found (fiberlib/fiberlib.c).                             *)
(*                                                                         *)
(* The message is a sequence of lines; its length in bytes, and the read's *)
(* buffer, are counted in lines.  A command number is the major number the *)
(* device got and the place of the command.  What the calls do is left to  *)
(* Fibers and Fls.                                                         *)
(***************************************************************************)
EXTENDS Naturals, Sequences, FiniteSets

CONSTANTS
  Program,   \* processes linked with the library
  Major,     \* the major numbers that register_chrdev may give
  Commands,  \* the number of commands (7 in the code)
  Buffer     \* the library's buffer, in lines

ASSUME LibraryAssumption ==
  /\ IsFiniteSet(Program)
  /\ Major \subseteq Nat \ {0}
  /\ Commands \in Nat /\ Buffer \in Nat /\ Buffer >= 2 * Commands

Command == 1..Commands
NoMajor == 0
NoNumber == <<0, 0>>  \* an unset element of ioctl_numbers
Junk == <<0, 1>>      \* what the uninitialized buffer held
Nul == <<1, 0>>       \* the zeros behind the message in string_message

Probes == {"do_exit", "finish_task_switch", "readdir", "lookup"}

VARIABLES
  module,    \* "out", or where insmod or rmmod is, or "live"
  refs,      \* the module's reference count
  major,     \* the device's number while it is registered
  class,     \* class_fibers: "none", "made" or "destroyed"
  device,    \* /dev/fibers exists
  lines,     \* the lines of string_message that have been written
  probes,    \* the probes that are registered
  failed,    \* register_fiber_device has returned an error
  wild,      \* something was destroyed that did not exist
  \* each program
  pc,        \* where it is
  fd,        \* the descriptor is open
  off,       \* its file offset
  buf,       \* what fiberlib_init has read
  numbers,   \* ioctl_numbers
  ready,     \* fiberlib_initialized
  early,     \* it opened the device before the message was complete
  called     \* the command a call made last, and the one that ran

kernel  == <<module, refs, major, class, device, lines, probes, failed, wild>>
program == <<pc, fd, off, buf, numbers, ready, early, called>>
vars    == <<kernel, program>>

Init ==
  /\ module = "out" /\ refs = 0 /\ major = NoMajor
  /\ class = "none" /\ device = FALSE /\ lines = 0 /\ probes = {}
  /\ failed = FALSE /\ wild = FALSE
  /\ pc = [p \in Program |-> "start"]
  /\ fd = [p \in Program |-> FALSE]
  /\ off = [p \in Program |-> 0]
  /\ buf = [p \in Program |-> << >>]
  /\ numbers = [p \in Program |-> [c \in Command |-> NoNumber]]
  /\ ready = [p \in Program |-> FALSE]
  /\ early = [p \in Program |-> FALSE]
  /\ called = [p \in Program |-> <<0, 0>>]

-----------------------------------------------------------------------------
(***************************************************************************)
(* insmod: fiber_init and register_fiber_device                            *)
(***************************************************************************)

Insmod(from, to) == module = from /\ module' = to

\* register_chrdev, with the dynamic major number of this load
RegisterChrdev ==
  /\ lines' = 0    \* the new module's string_message is empty
  /\ failed' = FALSE
  /\ class' = "none"
  /\ wild' = FALSE
  /\ \/ Insmod("out", "class") /\ major' \in Major
     \/ Insmod("out", "failed") /\ UNCHANGED major
  /\ UNCHANGED <<refs, device, probes, program>>

ClassCreate ==
  /\ \/ Insmod("class", "device") /\ class' = "made"
     \/ Insmod("class", "err2") /\ UNCHANGED class
  /\ UNCHANGED <<refs, major, device, lines, probes, failed, wild, program>>

\* The device can be opened from here on; the message is not there yet.
DeviceCreate ==
  /\ \/ Insmod("device", "publish") /\ device' = TRUE
     \/ Insmod("device", "err") /\ UNCHANGED device
  /\ UNCHANGED <<refs, major, class, lines, probes, failed, wild, program>>

\* publish_ioctl_message: the lines appear one after the other.
MoreLinesThanCommands == lines <= Commands
MoreLines == lines < Commands

Publish ==
  /\ \/ MoreLines /\ Insmod("publish", "publish") /\ lines' = lines + 1
     \/ ~MoreLines /\ Insmod("publish", "probes") /\ UNCHANGED lines
  /\ UNCHANGED <<refs, major, class, device, probes, failed, wild, program>>

\* The labels err and err2 of register_fiber_device, and its return value
\* for an error, which fiber_init drops.
DestroyClassForgotten == UNCHANGED class
DestroyClass == class' = "destroyed"

UndoClass ==
  /\ Insmod("err", "err2")
  /\ DestroyClass
  /\ UNCHANGED <<refs, major, device, lines, probes, failed, wild, program>>

UndoChrdev ==
  /\ Insmod("err2", "failed")
  /\ major' = NoMajor
  /\ UNCHANGED <<refs, class, device, lines, probes, failed, wild, program>>

RegisterFailed ==
  /\ Insmod("failed", "probes")
  /\ failed' = TRUE
  /\ UNCHANGED <<refs, major, class, device, lines, probes, wild, program>>

\* The kprobes; fiber_init returns 0 and the module is live.
RegisterProbes ==
  /\ Insmod("probes", "live")
  /\ probes' = Probes
  /\ UNCHANGED <<refs, major, class, device, lines, failed, wild, program>>

-----------------------------------------------------------------------------
(***************************************************************************)
(* rmmod: fiber_cleanup and unregister_fiber_device                        *)
(***************************************************************************)

\* The kernel refuses to unload a module that is in use.
MayUnload == refs = 0

Rmmod ==
  /\ Insmod("live", "going")
  /\ MayUnload
  /\ UNCHANGED <<refs, major, class, device, lines, probes, failed, wild, program>>

UnregisterAll == {}

UnregisterProbes ==
  /\ Insmod("going", "unregister")
  /\ probes' = UnregisterAll
  /\ UNCHANGED <<refs, major, class, device, lines, failed, wild, program>>

\* device_destroy, class_destroy, unregister_chrdev, whatever came of the
\* registration; the module's memory is gone.
UnregisterDevice ==
  /\ Insmod("unregister", "out")
  /\ device' = FALSE
  /\ class' = "destroyed"
  /\ major' = NoMajor
  /\ wild' = (class # "made" \/ major = NoMajor)
  /\ UNCHANGED <<refs, lines, probes, failed, program>>

-----------------------------------------------------------------------------
(***************************************************************************)
(* The device's operations                                                 *)
(***************************************************************************)

\* try_module_get in fiber_open: it fails while the module is unloaded.
TryModuleGetAlways == TRUE
TryModuleGet == module \notin {"going", "unregister"}

\* fiberlib_init opens the device.
Open(p) ==
  /\ pc[p] = "start"
  /\ \/ /\ device /\ TryModuleGet
        /\ refs' = refs + 1
        /\ fd' = [fd EXCEPT ![p] = TRUE]
        /\ pc' = [pc EXCEPT ![p] = "read"]
        /\ early' = [early EXCEPT ![p] = lines < Commands]
     \/ /\ ~(device /\ TryModuleGet)
        /\ pc' = [pc EXCEPT ![p] = "run"]   \* read(-1) fails: init gives up
        /\ UNCHANGED <<refs, fd, early>>
  /\ UNCHANGED <<module, major, class, device, lines, probes, failed, wild,
                 off, buf, numbers, ready, called>>

\* publish_ioctl_message: the number of each command, by its line
LineSwapped(i) == <<major, IF i = 1 THEN Commands ELSE IF i = Commands THEN 1 ELSE i>>
Line(i) == <<major, i>>

\* string_message + i
MessageAt(i) == IF i <= lines THEN Line(i) ELSE Nul

\* fibers_read: as much as the whole message has, from the offset on.
Read(p) ==
  LET room == Buffer - Len(buf[p])
      i    == IF room < lines THEN room ELSE lines
  IN
  /\ pc[p] = "read"
  /\ \/ /\ off[p] >= lines \/ i = 0
        /\ pc' = [pc EXCEPT ![p] = "parse"]
        /\ UNCHANGED <<off, buf>>
     \/ /\ off[p] < lines /\ i > 0
        /\ buf' = [buf EXCEPT ![p] = @ \o [k \in 1..i |-> MessageAt(off[p] + k)]]
        /\ off' = [off EXCEPT ![p] = @ + i]
        /\ UNCHANGED pc
  /\ UNCHANGED <<kernel, fd, numbers, ready, early, called>>

\* The k-th token of the buffer, which the message does not terminate: what
\* is behind it is uninitialized, and ends at once or is something else, as
\* is a line of which only a part was read.
Token(p, k, rest) ==
  IF k > Len(buf[p]) THEN rest
  ELSE IF \E j \in 1..k : buf[p][j] = Nul THEN NoNumber ELSE buf[p][k]

\* strtok and strtol, for at most MAX_IOCTL_CMDS tokens
Parse(p) ==
  /\ pc[p] = "parse"
  /\ \E rest \in {NoNumber, Junk} :
       numbers' = [numbers EXCEPT ![p] = [c \in Command |-> Token(p, c, rest)]]
  /\ ready' = [ready EXCEPT ![p] = TRUE]
  /\ buf' = [buf EXCEPT ![p] = << >>]
  /\ pc' = [pc EXCEPT ![p] = "run"]
  /\ UNCHANGED <<kernel, fd, off, early, called>>

-----------------------------------------------------------------------------
(***************************************************************************)
(* The library's calls                                                     *)
(***************************************************************************)

\* fibers_ioctl: the command that a number stands for, 0 for none
Dispatch(n) == IF \E c \in Command : n = <<major, c>> THEN n[2] ELSE 0

\* ConvertThreadToFiber and the others: ioctl on the descriptor.  It fails
\* without one, and a call may fail before its command runs: no memory for the
\* stack of a fiber, arguments that cannot be copied.
Call(p, c) ==
  /\ pc[p] = "run"
  /\ \E ran \in {0, IF fd[p] THEN Dispatch(numbers[p][c]) ELSE 0} :
       called' = [called EXCEPT ![p] = <<c, ran>>]
  /\ UNCHANGED <<kernel, pc, fd, off, buf, numbers, ready, early>>

\* close_fiberlib, or the kernel when the program dies: fiber_close, whose
\* process_cleanup is in Fibers.
ModulePutForgotten == UNCHANGED refs
ModulePut == refs' = refs - 1

Exit(p) ==
  /\ pc[p] \in {"read", "parse", "run"}
  /\ \/ fd[p] /\ ModulePut
     \/ ~fd[p] /\ UNCHANGED refs
  /\ pc' = [pc EXCEPT ![p] = "start"]    \* another program may start
  /\ fd' = [fd EXCEPT ![p] = FALSE]
  /\ off' = [off EXCEPT ![p] = 0]
  /\ buf' = [buf EXCEPT ![p] = << >>]
  /\ numbers' = [numbers EXCEPT ![p] = [c \in Command |-> NoNumber]]
  /\ ready' = [ready EXCEPT ![p] = FALSE]
  /\ early' = [early EXCEPT ![p] = FALSE]
  /\ called' = [called EXCEPT ![p] = <<0, 0>>]
  /\ UNCHANGED <<module, major, class, device, lines, probes, failed, wild>>

-----------------------------------------------------------------------------

Next ==
  \/ RegisterChrdev \/ ClassCreate \/ DeviceCreate \/ Publish
  \/ UndoClass \/ UndoChrdev \/ RegisterFailed \/ RegisterProbes
  \/ Rmmod \/ UnregisterProbes \/ UnregisterDevice
  \/ \E p \in Program : \/ Open(p) \/ Read(p) \/ Parse(p) \/ Exit(p)
                        \/ \E c \in Command : Call(p, c)

Spec == Init /\ [][Next]_vars

-----------------------------------------------------------------------------

TypeOK ==
  /\ module \in {"out", "class", "device", "publish", "err", "err2", "failed",
                 "probes", "live", "going", "unregister"}
  /\ refs \in Nat
  /\ major \in Major \cup {NoMajor}
  /\ class \in {"none", "made", "destroyed"}
  /\ device \in BOOLEAN /\ failed \in BOOLEAN /\ wild \in BOOLEAN
  /\ lines \in 0..Commands
  /\ probes \subseteq Probes
  /\ pc \in [Program -> {"start", "read", "parse", "run"}]
  /\ fd \in [Program -> BOOLEAN]
  /\ off \in [Program -> Nat]
  /\ buf \in [Program -> Seq(Nat \X Nat)]
  /\ numbers \in [Program -> [Command -> Nat \X Nat]]
  /\ ready \in [Program -> BOOLEAN]
  /\ early \in [Program -> BOOLEAN]
  /\ called \in [Program -> (0..Commands) \X Nat]

Opened == {p \in Program : fd[p]}

\* try_module_get and module_put keep the count of the open descriptors, so
\* that the module can be unloaded exactly when nobody uses it.
RefsCountOpen == refs = Cardinality(Opened)

\* The module is not unloaded under an open descriptor, also when it is opened
\* while rmmod is at work.
OpenKeepsModule ==
  \A p \in Program : fd[p] => module \in {"publish", "probes", "live"}

\* A program that found the whole message has the numbers of the module that
\* serves it, through any unloading and loading with another major number.
CommandsCurrent == \A p \in Program : (fd[p] /\ ready[p] /\ ~early[p]) =>
  numbers[p] = [c \in Command |-> <<major, c>>]

\* No call runs another command than its own, whatever the program has read.
RunsWhatIsCalled == \A p \in Program : called[p][2] \in {0, called[p][1]}

\* A registration that failed, and unloading, leave nothing behind; unloading
\* destroys what is not there only after a failed registration, of which
\* fiber_init has not told anybody.
NothingLeft ==
  /\ module = "out" \/ failed => ~device /\ major = NoMajor /\ class # "made"
  /\ module = "out" => probes = {}
  /\ wild => failed

=============================================================================
