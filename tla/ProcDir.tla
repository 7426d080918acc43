------------------------------ MODULE ProcDir -------------------------------
(***************************************************************************)
(* The directory /proc/<pid>/fibers of a process that has fibers.  The     *)
(* kernel lists /proc/<pid> from a static array whose size the module does *)
(* not know; the kretprobes of module/kprobes.c call the kernel's own      *)
(* functions a second time with an array that has the entry "fibers" right *)
(* behind that size, which the first listing anyone makes has told them.   *)
(*                                                                         *)
(* A reader lists the directory with getdents calls.  Each returns what    *)
(* fits in the reader's buffer, and the one that returns nothing ends the  *)
(* listing.  Positions 0 and 1 are "." and "..".  Whichever call is the    *)
(* first of all stores the position that it has reached, also one whose    *)
(* buffer was full before the end of the kernel's array.                   *)
(***************************************************************************)
EXTENDS Naturals, Sequences

CONSTANTS
  Reader,         \* open directory streams on /proc/<pid>
  TgidBaseStuff,  \* the size of the kernel's array tgid_base_stuff
  Room            \* the numbers of entries that a reader's buffer may hold

ASSUME ProcDirAssumption == TgidBaseStuff \in Nat /\ Room \subseteq Nat \ {0}

Fibers  == "fibers"   \* the only entry of the array additional
Unknown == "unknown"  \* whatever the memory before that array holds

\* An entry of tgid_base_stuff, or one of the dots, is its position.
Base == 0..(TgidBaseStuff + 1)

VARIABLES
  nents,      \* the module's global of that name
  fiberized,  \* find_process_by_tgid finds the process
  pos,        \* ctx->pos of each reader
  size,       \* what the buffer of the current getdents call holds
  room,       \* what is left of it
  listed,     \* the entries that the reader has got in this listing
  was,        \* the values fiberized has had during this listing
  pc,         \* "user", or where the reader's getdents call is
  cut,        \* history: nents was stored by a call whose buffer was full
              \* before the end of the kernel's array
  ended,      \* history: a getdents call has returned
  missed      \* history: later a lookup did not find an existing directory

lookups == <<ended, missed>>
vars == <<nents, fiberized, pos, size, room, listed, was, pc, cut, lookups>>

Init ==
  /\ nents = 0
  /\ fiberized = FALSE
  /\ pos = [r \in Reader |-> 0]
  /\ size = [r \in Reader |-> 0]
  /\ room = [r \in Reader |-> 0]
  /\ listed = [r \in Reader |-> << >>]
  /\ was = [r \in Reader |-> {FALSE}]
  /\ pc = [r \in Reader |-> "user"]
  /\ cut = FALSE
  /\ ended = FALSE
  /\ missed = FALSE

\* The process gets its first fiber, or loses the last.
Change ==
  /\ fiberized' = ~fiberized
  /\ was' = [r \in Reader |-> was[r] \cup {~fiberized}]
  /\ UNCHANGED <<nents, pos, size, room, listed, pc, cut, lookups>>

-----------------------------------------------------------------------------

\* proc_pident_readdir on an array of n entries, the entry at position p
\* being ents[p]: it emits from ctx->pos to the end, or until the buffer of
\* which free entries are left is full.
Emit(r, ents(_), n, free) ==
  LET left == IF pos[r] >= n + 2 THEN 0 ELSE n + 2 - pos[r]
      k    == IF left < free THEN left ELSE free
  IN  /\ pos' = [pos EXCEPT ![r] = @ + k]
      /\ room' = [room EXCEPT ![r] = free - k]
      /\ listed' = [listed EXCEPT ![r] =
                      @ \o [i \in 1..k |-> ents(pos[r] + i - 1)]]

\* getdents: proc_tgid_base_readdir, up to the return that is probed.
Getdents(r) ==
  /\ pc[r] = "user"
  /\ \E free \in Room :
       /\ size' = [size EXCEPT ![r] = free]
       /\ Emit(r, LAMBDA p : p, TgidBaseStuff, free)
  /\ pc' = [pc EXCEPT ![r] = "check"]
  /\ UNCHANGED <<nents, fiberized, was, cut, lookups>>

\* proc_insert_dir: nents == 0, outside the lock.
CheckNents(r) ==
  /\ pc[r] = "check"
  /\ pc' = [pc EXCEPT ![r] = IF nents = 0 THEN "lock" ELSE "insert"]
  /\ UNCHANGED <<nents, fiberized, pos, size, room, listed, was, cut, lookups>>

\* nents == 0 again, under check_nents: the kernel's array is taken to end at
\* the position that the listing has reached.
StoreNentsTwice(r) == nents' = pos[r]
StoreNents(r) == nents' = IF nents = 0 THEN pos[r] ELSE nents

SetNents(r) ==
  /\ pc[r] = "lock"
  /\ StoreNents(r)
  /\ cut' = (cut \/ (nents = 0 /\ pos[r] < TgidBaseStuff + 2))
  /\ pc' = [pc EXCEPT ![r] = "insert"]
  /\ UNCHANGED <<fiberized, pos, size, room, listed, was, lookups>>

\* The array additional - (pos - 2), of pos - 1 entries, where pos = nents.
AdditionalFromStart(p) == IF p = 2 THEN Fibers ELSE Unknown
Additional(p) == IF p = nents THEN Fibers ELSE Unknown

InsertDir(r) ==
  /\ pc[r] = "insert"
  /\ \/ fiberized /\ Emit(r, Additional, nents - 1, room[r])
     \/ ~fiberized /\ UNCHANGED <<pos, room, listed>>
  /\ pc' = [pc EXCEPT ![r] = "return"]
  /\ UNCHANGED <<nents, fiberized, size, was, cut, lookups>>

\* The call returns; the reader goes on with the listing, or starts another.
Return(r) ==
  /\ pc[r] = "return"
  /\ pc' = [pc EXCEPT ![r] = "user"]
  /\ size' = [size EXCEPT ![r] = 0]
  /\ room' = [room EXCEPT ![r] = 0]
  /\ ended' = TRUE
  /\ UNCHANGED <<nents, fiberized, pos, listed, was, cut, missed>>

Rewind(r) ==
  /\ pc[r] = "user"
  /\ pos' = [pos EXCEPT ![r] = 0]
  /\ listed' = [listed EXCEPT ![r] = << >>]
  /\ was' = [was EXCEPT ![r] = {fiberized}]
  /\ UNCHANGED <<nents, fiberized, size, room, pc, cut, lookups>>

\* The positions that the kernel's lookup searches in that array.
SearchedBeforeLast == 2..(nents - 1)
Searched == 2..nents

\* proc_lookup_dir, on a lookup of "fibers" that the kernel's own array has
\* not answered
Finds == nents # 0 /\ \E p \in Searched : Additional(p) = Fibers

LookupDir(r) ==
  /\ pc[r] = "user"
  /\ fiberized
  /\ missed' = (missed \/ (ended /\ ~Finds))
  /\ UNCHANGED <<nents, fiberized, pos, size, room, listed, was, pc, cut, ended>>

Next ==
  \/ Change
  \/ \E r \in Reader : \/ Getdents(r) \/ CheckNents(r) \/ SetNents(r)
                       \/ InsertDir(r) \/ Return(r) \/ Rewind(r)
                       \/ LookupDir(r)

Spec == Init /\ [][Next]_vars

-----------------------------------------------------------------------------

\* The size that later listings and lookups rely on is right: "nents!=0 then
\* readdir was called before us and has setted nents to the size of
\* tgid_base_stuff" (proc_lookup_dir), which counts the dots here.
NentsIsSize == nents # 0 => nents = TgidBaseStuff + 2

\* What is left of that claim: only the call that stores nents can make it
\* wrong, by having been cut short.  No other reader, cut short or not, and at
\* whatever point of a listing with "fibers" in it, stores another size.
OnlyCutMisleads == ~cut => NentsIsSize

BaseListing == [i \in 1..(TgidBaseStuff + 2) |-> i - 1]

\* The last call of a listing has returned nothing.
Ended(r) == pc[r] = "return" /\ room[r] = size[r]

\* Unless the first call of all was cut short, the second call to the kernel's
\* function disturbs no listing, with whatever buffers it is read: each has
\* every entry of /proc/<pid> once, "fibers" behind them if the process had
\* fibers all along, and nothing behind them if it had none.
WholeListing == ~cut => \A r \in Reader : Ended(r) =>
  /\ listed[r] \in {BaseListing, Append(BaseListing, Fibers)}
  /\ was[r] = {TRUE} => listed[r] = Append(BaseListing, Fibers)
  /\ was[r] = {FALSE} => listed[r] = BaseListing

\* "readdir has to be called first, otherwise we cannot know the size": once
\* any listing call has returned, whoever made it and wherever its buffer was
\* full behind the dots, every lookup of the directory finds it.
LookupFinds == ~missed

=============================================================================
