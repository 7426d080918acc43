----------------------------- MODULE FiberTable -----------------------------
(***************************************************************************)
(* The hash table of a process's fibers below the level of Fibers: its     *)
(* bucket lists, to which init_fiber adds without a lock (module/init.h),  *)
(* and the readers of /proc/<pid>/fibers that walk them at the same time   *)
(* (module/proc.c).                                                        *)
(*                                                                         *)
(* Fibers are only added: they are freed all together with the process     *)
(* (see Fibers).  A name is abstracted to whether it has been written, and *)
(* the text of a fiber's file to its length: that of the fixed words, one  *)
(* more for "yes" than for "no", and the digits that its counters and its  *)
(* time have got since the fiber was created.                              *)
(***************************************************************************)
EXTENDS Naturals, Sequences, FiniteSets

CONSTANTS
  Thread,     \* the threads that create fibers
  Reader,     \* the processes that read /proc/<pid>/fibers
  MaxFibers,  \* bound: fiber ids go from 1 to MaxFibers
  Buckets,    \* the buckets of the table (1024 in the code)
  MinText,    \* the length of the text of a new fiber
  MaxDigits,  \* bound: by how many digits the statistics can grow
  Room        \* the buffers with which a file is read

FiberId == 1..MaxFibers
NoFiber == 0

\* Of the texts, the fixed words alone have more than 160 characters; two
\* counters and a number of seconds, of 64 bits, have less than 60 digits.  The
\* longest text is shorter than PROC_STAT_LEN.
MaxText == MinText + MaxDigits + 1

ASSUME FiberTableAssumption ==
  /\ MaxFibers \in Nat /\ Buckets \in Nat \ {0}
  /\ MaxDigits \in Nat /\ MinText \in Nat \ {0} /\ MinText >= MaxDigits
  /\ Room \subseteq Nat \ {0}

VARIABLES
  lastId,    \* process->last_fiber_id
  first,     \* hlist_head->first of each bucket
  next,      \* fiber->node.next
  named,     \* the fibers whose name and statistics have been written
  ongoing,   \* fiber->attached_thread != NULL
  digits,    \* what activation_counter, failed_activation_counter and
             \* total_time / 10^9 have got in digits
  pc, cur,   \* where each thread is in init_fiber, and its fiber
  returned,  \* the fibers whose ids a call has returned
  raced,     \* fibers added while another was added to the same bucket
  \* the readers
  rpc,       \* "idle", "walk" or "done" (with the array), "file" or "eof"
  nents,     \* the local of that name
  bucket,    \* hash_for_each_rcu: the next bucket
  node,      \* and the fiber the walk has come to
  ents,      \* the array: the fibers met, and whether they had a name
  file,      \* the fiber whose file is open
  off,       \* its file offset
  got,       \* the lengths of what each read copied
  clipped,   \* the readers that had a buffer shorter than the text
  before,    \* returned when the walk began
  quiet      \* no fiber was under construction since then

table   == <<lastId, first, next, named>>
creator == <<pc, cur, returned, raced>>
walk    == <<nents, bucket, node, ents, before>>
reads   == <<file, off, got, clipped>>
stats   == <<ongoing, digits>>
vars    == <<table, stats, creator, rpc, walk, reads, quiet>>

\* hash_min of an id
Bucket(f) == f % Buckets

TypeOK ==
  /\ lastId \in 0..MaxFibers
  /\ first \in [0..(Buckets - 1) -> 0..MaxFibers]
  /\ next \in [FiberId -> 0..MaxFibers]
  /\ named \subseteq FiberId /\ ongoing \subseteq FiberId
  /\ digits \in [FiberId -> 0..MaxDigits]
  /\ pc \in [Thread -> {"user", "add", "link", "fill"}]
  /\ cur \in [Thread -> 0..MaxFibers]
  /\ returned \subseteq FiberId /\ raced \subseteq FiberId
  /\ rpc \in [Reader -> {"idle", "walk", "done", "file", "eof"}]
  /\ nents \in [Reader -> 0..MaxFibers]
  /\ bucket \in [Reader -> 0..Buckets]
  /\ node \in [Reader -> 0..MaxFibers]
  /\ ents \in [Reader -> Seq([fiber : FiberId, named : BOOLEAN])]
  /\ file \in [Reader -> 0..MaxFibers]
  /\ off \in [Reader -> Nat]
  /\ got \in [Reader -> Seq(Nat)] /\ clipped \subseteq Reader
  /\ before \in [Reader -> SUBSET FiberId]
  /\ quiet \in [Reader -> BOOLEAN]

Init ==
  /\ lastId = 0
  /\ first = [b \in 0..(Buckets - 1) |-> NoFiber]
  /\ next = [f \in FiberId |-> NoFiber]
  /\ named = {} /\ ongoing = {}
  /\ digits = [f \in FiberId |-> 0]
  /\ pc = [t \in Thread |-> "user"]
  /\ cur = [t \in Thread |-> NoFiber]
  /\ returned = {} /\ raced = {}
  /\ rpc = [r \in Reader |-> "idle"]
  /\ nents = [r \in Reader |-> 0]
  /\ bucket = [r \in Reader |-> 0]
  /\ node = [r \in Reader |-> NoFiber]
  /\ ents = [r \in Reader |-> << >>]
  /\ file = [r \in Reader |-> NoFiber]
  /\ off = [r \in Reader |-> 0]
  /\ got = [r \in Reader |-> << >>] /\ clipped = {}
  /\ before = [r \in Reader |-> {}]
  /\ quiet = [r \in Reader |-> FALSE]

-----------------------------------------------------------------------------
(***************************************************************************)
(* init_fiber                                                              *)
(***************************************************************************)

\* atomic64_inc_return(&last_fiber_id)
Reserve(t) ==
  /\ pc[t] = "user"
  /\ lastId < MaxFibers
  /\ lastId' = lastId + 1
  /\ cur' = [cur EXCEPT ![t] = lastId + 1]
  /\ pc' = [pc EXCEPT ![t] = "add"]
  /\ quiet' = [r \in Reader |-> FALSE]
  /\ UNCHANGED <<first, next, named, stats, returned, raced, rpc, walk, reads>>

\* The threads that are adding to the bucket of f.
Adding(f) == {u \in Thread : pc[u] = "link" /\ Bucket(cur[u]) = Bucket(f)}

\* hash_add_rcu, first half: n->next = h->first
SetNextForgotten(f) == UNCHANGED next
SetNext(f) == next' = [next EXCEPT ![f] = first[Bucket(f)]]

HashAdd(t) ==
  /\ pc[t] = "add"
  /\ SetNext(cur[t])
  /\ pc' = [pc EXCEPT ![t] = "link"]
  /\ raced' = IF Adding(cur[t]) = {} THEN raced
              ELSE raced \cup {cur[t]} \cup {cur[u] : u \in Adding(cur[t])}
  /\ UNCHANGED <<lastId, first, named, stats, cur, returned, rpc, walk, reads,
                 quiet>>

\* Second half: h->first = n
HashLink(t) ==
  /\ pc[t] = "link"
  /\ first' = [first EXCEPT ![Bucket(cur[t])] = cur[t]]
  /\ pc' = [pc EXCEPT ![t] = "fill"]
  /\ UNCHANGED <<lastId, next, named, stats, cur, returned, raced, rpc, walk,
                 reads, quiet>>

\* The statistics and the name, written to a fiber that can be found; the
\* call returns its id.
Fill(t) ==
  /\ pc[t] = "fill"
  /\ named' = named \cup {cur[t]}
  /\ returned' = returned \cup {cur[t]}
  /\ pc' = [pc EXCEPT ![t] = "user"]
  /\ cur' = [cur EXCEPT ![t] = NoFiber]
  /\ UNCHANGED <<lastId, first, next, stats, raced, rpc, walk, reads, quiet>>

\* Counters and times only grow.
Grow(f) == \E d \in digits[f]..MaxDigits : digits' = [digits EXCEPT ![f] = d]

\* A thread switches to a fiber, which counts an activation, or leaves it and
\* charges it with the time (see Fibers and Timer).
Switch(f) ==
  /\ f \in returned
  /\ ongoing' = IF f \in ongoing THEN ongoing \ {f} ELSE ongoing \cup {f}
  /\ Grow(f)
  /\ UNCHANGED <<table, creator, rpc, walk, reads, quiet>>

\* A switch to the fiber fails and is counted, or the CPU leaves the thread that
\* runs it and the fiber is charged with the time.
Count(f) ==
  /\ f \in returned
  /\ Grow(f)
  /\ UNCHANGED <<ongoing, table, creator, rpc, walk, reads, quiet>>

-----------------------------------------------------------------------------
(***************************************************************************)
(* proc_fiber_base_readdir and proc_fiber_base_lookup: both build an array *)
(* of the fibers and give it to the kernel                                 *)
(***************************************************************************)

\* nents, the size of the array, from last_fiber_id
ArraySizeShort == IF lastId = 0 THEN 0 ELSE lastId - 1
ArraySizeLong == lastId + 1
ArraySize == lastId

CountFibers(r) ==
  /\ rpc[r] = "idle"
  /\ rpc' = [rpc EXCEPT ![r] = "walk"]
  /\ nents' = [nents EXCEPT ![r] = ArraySize]
  /\ before' = [before EXCEPT ![r] = returned]
  /\ quiet' = [quiet EXCEPT ![r] = \A t \in Thread : pc[t] = "user"]
  /\ UNCHANGED <<table, stats, creator, bucket, node, ents, reads>>

\* hash_for_each_rcu: the fiber it has come to is stored, name and length.
WalkFiber(r) ==
  /\ rpc[r] = "walk"
  /\ node[r] # NoFiber
  /\ ents' = [ents EXCEPT ![r] =
                Append(@, [fiber |-> node[r], named |-> node[r] \in named])]
  /\ node' = [node EXCEPT ![r] = next[node[r]]]
  /\ UNCHANGED <<table, stats, creator, rpc, nents, bucket, before, reads, quiet>>

WalkBucket(r) ==
  /\ rpc[r] = "walk"
  /\ node[r] = NoFiber
  /\ bucket[r] < Buckets
  /\ node' = [node EXCEPT ![r] = first[bucket[r]]]
  /\ bucket' = [bucket EXCEPT ![r] = @ + 1]
  /\ UNCHANGED <<table, stats, creator, rpc, nents, ents, before, reads, quiet>>

WalkEnds(r) ==
  /\ rpc[r] = "walk"
  /\ node[r] = NoFiber /\ bucket[r] = Buckets
  /\ rpc' = [rpc EXCEPT ![r] = "done"]
  /\ UNCHANGED <<table, stats, creator, walk, reads, quiet>>

\* What the kernel's readdir shows of the array, and its lookup searches: the
\* first nents entries, of which the ones behind the last fiber are zeroed.
Shown(r) == {i \in 1..Len(ents[r]) : i <= nents[r]}
Zeroed(r) == {i \in 1..nents[r] : i > Len(ents[r])}

\* The array is freed, and the local variables die.
WalkReturns(r) ==
  /\ rpc[r] = "done"
  /\ rpc' = [rpc EXCEPT ![r] = "idle"]
  /\ nents' = [nents EXCEPT ![r] = 0]
  /\ bucket' = [bucket EXCEPT ![r] = 0]
  /\ ents' = [ents EXCEPT ![r] = << >>]
  /\ before' = [before EXCEPT ![r] = {}]
  /\ quiet' = [quiet EXCEPT ![r] = FALSE]
  /\ UNCHANGED <<table, stats, creator, node, reads>>

-----------------------------------------------------------------------------
(***************************************************************************)
(* proc_fiber_read                                                         *)
(***************************************************************************)

\* What following the links from n leads to: the fibers that every set that
\* has n and is closed under the links has.
Closed(links, S) == \A g \in S : links[g] \in S \cup {NoFiber}
Reach(links, n) ==
  {f \in FiberId : \A S \in SUBSET FiberId :
                     Closed(links, S) /\ n \in S \cup {NoFiber} => f \in S}

\* find_fiber_by_id: the fibers in f's bucket, from its head.
InBucket(b) == Reach(next, first[b])

Found(f) == f \in InBucket(Bucket(f))

OpenFile(r, f) ==
  /\ rpc[r] = "idle"
  /\ f \in returned
  /\ rpc' = [rpc EXCEPT ![r] = "file"]
  /\ file' = [file EXCEPT ![r] = f]
  /\ UNCHANGED <<table, stats, creator, walk, off, got, clipped, quiet>>

\* The text is written anew for every read.
TextLen(f) == MinText + digits[f] + (IF f \in ongoing THEN 1 ELSE 0)

\* *off += i
AdvanceForgotten(r, i) == UNCHANGED off
Advance(r, i) == off' = [off EXCEPT ![r] = @ + i]

\* A read copies the text from its start, whatever the offset is, or gives
\* nothing.  (One that faults in copy_to_user changes nothing.)
FiberRead(r) ==
  LET text == TextLen(file[r]) IN
  /\ rpc[r] = "file"
  /\ \/ /\ ~Found(file[r]) \/ off[r] >= text
        /\ rpc' = [rpc EXCEPT ![r] = "eof"]
        /\ UNCHANGED <<off, got, clipped>>
     \/ /\ Found(file[r]) /\ off[r] < text
        /\ \E len \in Room :
             LET i == IF len < text THEN len ELSE text IN
             /\ Advance(r, i)
             /\ got' = [got EXCEPT ![r] = Append(@, i)]
             /\ clipped' = IF len < text THEN clipped \cup {r} ELSE clipped
        /\ UNCHANGED rpc
  /\ UNCHANGED <<table, stats, creator, walk, file, quiet>>

CloseFile(r) ==
  /\ rpc[r] = "eof"
  /\ rpc' = [rpc EXCEPT ![r] = "idle"]
  /\ file' = [file EXCEPT ![r] = NoFiber]
  /\ off' = [off EXCEPT ![r] = 0]
  /\ got' = [got EXCEPT ![r] = << >>]
  /\ clipped' = clipped \ {r}
  /\ UNCHANGED <<table, stats, creator, walk, quiet>>

-----------------------------------------------------------------------------

Next ==
  \/ \E t \in Thread : Reserve(t) \/ HashAdd(t) \/ HashLink(t) \/ Fill(t)
  \/ \E f \in FiberId : Switch(f) \/ Count(f)
  \/ \E r \in Reader :
       \/ CountFibers(r) \/ WalkFiber(r) \/ WalkBucket(r)
       \/ WalkEnds(r) \/ WalkReturns(r)
       \/ \E f \in FiberId : OpenFile(r, f)
       \/ FiberRead(r) \/ CloseFile(r)

Spec == Init /\ [][Next]_vars

-----------------------------------------------------------------------------

\* A table that is updated without a lock keeps every fiber, "all fibers
\* created by whatever thread" (the report), unless two were added to one
\* bucket at the same time: then one of them is lost.
OnlyRacesLose == returned \ raced \subseteq {f \in FiberId : Found(f)}

\* A walk during which fibers are added meets every fiber that was there when
\* it began, with its name, and none twice.
WalkComplete == \A r \in Reader : rpc[r] = "done" =>
  /\ \A f \in before[r] \ raced :
       \E i \in 1..Len(ents[r]) : ents[r][i] = [fiber |-> f, named |-> TRUE]
  /\ \A i, j \in 1..Len(ents[r]) : ents[r][i].fiber = ents[r][j].fiber => i = j

\* "the array containing all the fibers that are in the selected node": when
\* no fiber is created meanwhile the size read from last_fiber_id is right, so
\* the kernel shows each fiber once, and no entry that was left zeroed.
QuietListing == \A r \in Reader : (rpc[r] = "done" /\ quiet[r] /\ raced = {}) =>
  /\ {ents[r][i] : i \in Shown(r)} =
       {[fiber |-> f, named |-> TRUE] : f \in 1..lastId}
  /\ Zeroed(r) = {} /\ Len(ents[r]) = nents[r]

\* A reader whose buffers hold the text gets a whole text, and another one only
\* if the text has grown after the first: never a third, though the text that
\* is compared with the offset is not the text that moved it.  A reader with
\* short buffers gets the start of the text again and again, but not for ever:
\* it is at the end after as many reads as the text has characters.
TextOnceOrTwice == \A r \in Reader :
  /\ r \notin clipped => /\ Len(got[r]) <= 2
                         /\ Len(got[r]) = 2 => got[r][1] < got[r][2]
  /\ Len(got[r]) <= MaxText

=============================================================================
