-------------------------- MODULE FiberTableProofs --------------------------
(***************************************************************************)
(* Proofs about FiberTable, for any number of threads, readers, fibers and *)
(* buckets: only fibers added at the same time can be lost, a walk meets   *)
(* every fiber that was there, the array has the right size when nobody    *)
(* creates a fiber, and a file gives at most two texts.                    *)
(***************************************************************************)
EXTENDS FiberTable, Integers, FiniteSetTheorems, SequenceTheorems, TLAPS

\* The fibers that have been at the head of their bucket.
Linked == {f \in 1..lastId : \A t \in Thread :
             cur[t] = f => pc[t] = "fill"}

\* What makes two threads different: each builds a fiber of its own, that no
\* call has returned, and every id is returned or still being built.
CreatorInv ==
  /\ returned \subseteq 1..lastId
  /\ named = returned
  /\ \A f \in 1..lastId : f \in returned \/ \E t \in Thread : cur[t] = f
  /\ \A t \in Thread :
       IF pc[t] = "user" THEN cur[t] = NoFiber
       ELSE cur[t] \in (1..lastId) \ returned
  /\ \A t, u \in Thread : cur[t] # NoFiber /\ cur[t] = cur[u] => t = u

\* The lists: a head and a link stay among the linked fibers of one bucket,
\* and no list has a loop.
ListInv ==
  /\ \A b \in 0..(Buckets - 1) : first[b] # NoFiber =>
       first[b] \in Linked /\ Bucket(first[b]) = b
  /\ \A f \in FiberId : next[f] # NoFiber =>
       next[f] \in Linked /\ Bucket(next[f]) = Bucket(f)
  /\ \A f \in FiberId : f \notin Reach(next, next[f])

\* Nothing is lost but by a race: the head of a bucket leads to every fiber
\* that was added alone, and so does the link of a thread between the two
\* halves of hash_add_rcu, unless it is one of two.
RaceInv ==
  /\ \A f \in Linked \ raced : f \in Reach(next, first[Bucket(f)])
  /\ \A t \in Thread : pc[t] = "link" =>
       \A f \in Linked \ raced :
         Bucket(f) = Bucket(cur[t]) => f \in Reach(next, next[cur[t]])
  /\ \A t, u \in Thread :
       (t # u /\ pc[t] = "link" /\ pc[u] = "link" /\ Bucket(cur[t]) = Bucket(cur[u]))
         => cur[t] \in raced

\* A walk: what it has stored lies in the buckets it has been to and behind
\* it, and what was there when it began is stored, ahead in the list, or in a
\* bucket to come.
WalkOK(r) ==
  /\ node[r] # NoFiber =>
       rpc[r] = "walk" /\ node[r] \in Linked /\ Bucket(node[r]) + 1 = bucket[r]
  /\ rpc[r] \in {"idle", "file", "eof"} => ents[r] = << >> /\ bucket[r] = 0
  /\ rpc[r] = "done" => bucket[r] = Buckets
  /\ before[r] \subseteq returned
  /\ \A i \in 1..Len(ents[r]) :
       /\ ents[r][i].fiber \in Linked
       /\ Bucket(ents[r][i].fiber) < bucket[r]
       /\ ents[r][i].fiber \notin Reach(next, node[r])
  /\ \A i, j \in 1..Len(ents[r]) : ents[r][i].fiber = ents[r][j].fiber => i = j
  /\ rpc[r] \in {"walk", "done"} => \A f \in before[r] \ raced :
       \/ \E i \in 1..Len(ents[r]) : ents[r][i] = [fiber |-> f, named |-> TRUE]
       \/ Bucket(f) >= bucket[r]
       \/ f \in Reach(next, node[r])

\* While no fiber is under construction the ids are the fibers of the table.
QuietOK(r) == (quiet[r] /\ rpc[r] \in {"walk", "done"}) =>
  /\ \A t \in Thread : pc[t] = "user"
  /\ before[r] = 1..lastId
  /\ nents[r] = lastId
  /\ \A i \in 1..Len(ents[r]) : ents[r][i].named

\* Every read has moved the offset.  Without a short buffer it has been at the
\* end of a text after the first read, and is behind all texts after a second.
ReadOK(r) ==
  /\ Len(got[r]) <= off[r] /\ Len(got[r]) <= MaxText
  /\ r \notin clipped => /\ Len(got[r]) = 0 => off[r] = 0
                         /\ Len(got[r]) = 1 => /\ off[r] = got[r][1]
                                               /\ off[r] >= MinText
                         /\ Len(got[r]) = 2 => /\ got[r][1] < got[r][2]
                                               /\ off[r] >= MaxText
                         /\ Len(got[r]) <= 2

TableInv ==
  /\ TypeOK /\ CreatorInv /\ ListInv /\ RaceInv
  /\ \A r \in Reader : WalkOK(r) /\ QuietOK(r) /\ ReadOK(r)

-----------------------------------------------------------------------------
(***************************************************************************)
(* Following links                                                         *)
(***************************************************************************)

Links == [FiberId -> 0..MaxFibers]

LEMMA BucketRange ==
  ASSUME NEW f \in Nat
  PROVE  Bucket(f) \in 0..(Buckets - 1)
BY FiberTableAssumption DEF Bucket

LEMMA BucketNat ==
  ASSUME NEW f \in FiberId
  PROVE  Bucket(f) \in Nat
<1>1. f \in Nat
  BY FiberTableAssumption DEF FiberId
<1>2. Bucket(f) \in 0..(Buckets - 1)
  BY <1>1, BucketRange
<1> QED BY <1>2, FiberTableAssumption

\* Nothing follows the end of a list.
LEMMA ReachNothing ==
  ASSUME NEW links
  PROVE  Reach(links, NoFiber) = {}
<1>1. Closed(links, {}) /\ {} \in SUBSET FiberId
  BY DEF Closed
<1> QED BY <1>1 DEF Reach

LEMMA ReachTyped ==
  ASSUME NEW links, NEW n
  PROVE  Reach(links, n) \subseteq FiberId
BY DEF Reach

\* A node leads to itself and to what its link leads to, and to no more.
LEMMA ReachStep ==
  ASSUME NEW links \in Links, NEW n \in FiberId
  PROVE  Reach(links, n) = {n} \cup Reach(links, links[n])
<1>0. NoFiber \notin FiberId
  BY FiberTableAssumption DEF NoFiber, FiberId
<1>1. n \in Reach(links, n)
  BY <1>0 DEF Reach
<1>2. ASSUME NEW f \in Reach(links, links[n])
      PROVE  f \in Reach(links, n)
  <2>1. f \in FiberId
    BY DEF Reach
  <2>2. ASSUME NEW S \in SUBSET FiberId, Closed(links, S), n \in S \cup {NoFiber}
        PROVE  f \in S
    <3>1. links[n] \in S \cup {NoFiber}
      BY <1>0, <2>2 DEF Closed
    <3> QED BY <2>2, <3>1 DEF Reach
  <2> QED BY <2>1, <2>2 DEF Reach
<1>3. ASSUME NEW f \in Reach(links, n), f # n
      PROVE  f \in Reach(links, links[n])
  <2>1. f \in FiberId
    BY DEF Reach
  <2>2. ASSUME NEW S \in SUBSET FiberId, Closed(links, S),
               links[n] \in S \cup {NoFiber}
        PROVE  f \in S
    <3>1. S \cup {n} \in SUBSET FiberId
      OBVIOUS
    <3>2. Closed(links, S \cup {n})
      BY <2>2 DEF Closed
    <3>3. f \in S \cup {n}
      BY <3>1, <3>2 DEF Reach
    <3> QED BY <1>3, <3>3
  <2> QED BY <2>1, <2>2 DEF Reach
<1> QED BY <1>1, <1>2, <1>3

\* The links do not lead out of a closed set.
LEMMA ReachClosed ==
  ASSUME NEW links, NEW S \in SUBSET FiberId, Closed(links, S),
         NEW n \in S \cup {NoFiber}
  PROVE  Reach(links, n) \subseteq S
BY DEF Reach

\* What is reached depends only on the links of a closed set.
LEMMA ReachWithin ==
  ASSUME NEW links, NEW other, NEW C \in SUBSET FiberId, Closed(links, C),
         \A g \in C : other[g] = links[g],
         NEW n \in C \cup {NoFiber}
  PROVE  Reach(links, n) \subseteq Reach(other, n)
<1> SUFFICES ASSUME NEW f \in Reach(links, n)
             PROVE  f \in Reach(other, n)
  OBVIOUS
<1>1. f \in FiberId
  BY DEF Reach
<1>2. ASSUME NEW S \in SUBSET FiberId, Closed(other, S), n \in S \cup {NoFiber}
      PROVE  f \in S
  <2>1. S \cap C \in SUBSET FiberId
    OBVIOUS
  <2>2. Closed(links, S \cap C)
    BY <1>2 DEF Closed
  <2>3. n \in (S \cap C) \cup {NoFiber}
    BY <1>2
  <2>4. f \in S \cap C
    BY <2>1, <2>2, <2>3 DEF Reach
  <2> QED BY <2>4
<1> QED BY <1>1, <1>2 DEF Reach

LEMMA ReachSame ==
  ASSUME NEW links, NEW other, NEW C \in SUBSET FiberId, Closed(links, C),
         \A g \in C : other[g] = links[g],
         NEW n \in C \cup {NoFiber}
  PROVE  Reach(other, n) = Reach(links, n)
<1>1. Closed(other, C)
  BY DEF Closed
<1>2. Reach(links, n) \subseteq Reach(other, n)
  BY ReachWithin
<1>3. Reach(other, n) \subseteq Reach(links, n)
  BY <1>1, ReachWithin
<1> QED BY <1>2, <1>3

-----------------------------------------------------------------------------
(***************************************************************************)
(* Where the lists lead                                                    *)
(***************************************************************************)

\* An id is a number, and no fiber.
LEMMA Ids ==
  /\ NoFiber = 0 /\ NoFiber \notin FiberId /\ FiberId \subseteq Nat
  /\ \A f \in 0..MaxFibers : f # NoFiber => f \in FiberId
BY FiberTableAssumption DEF NoFiber, FiberId

LEMMA LinkedTyped ==
  ASSUME TypeOK
  PROVE  Linked \subseteq FiberId /\ Linked \subseteq 1..lastId
BY FiberTableAssumption DEF TypeOK, Linked, FiberId

LEMMA ReturnedLinked ==
  ASSUME TypeOK, CreatorInv
  PROVE  returned \subseteq Linked
BY Ids DEF TypeOK, CreatorInv, Linked

\* From a linked fiber the links lead to linked fibers of its bucket.
LEMMA ReachInBucket ==
  ASSUME TypeOK, ListInv, NEW n \in 0..MaxFibers, NEW b,
         n # NoFiber => n \in Linked /\ Bucket(n) = b
  PROVE  \A f \in Reach(next, n) : f \in Linked /\ Bucket(f) = b
<1> DEFINE S == {f \in Linked : Bucket(f) = b}
<1>1. S \in SUBSET FiberId
  BY LinkedTyped
<1>2. Closed(next, S)
  BY LinkedTyped DEF ListInv, Closed
<1>3. n \in S \cup {NoFiber}
  OBVIOUS
<1> HIDE DEF S
<1>4. Reach(next, n) \subseteq S
  BY <1>1, <1>2, <1>3, ReachClosed
<1> QED BY <1>4 DEF S

\* The links of linked fibers stay closed when another link changes.
LEMMA LinkedClosed ==
  ASSUME TypeOK, ListInv
  PROVE  Linked \in SUBSET FiberId /\ Closed(next, Linked)
BY LinkedTyped DEF ListInv, Closed

-----------------------------------------------------------------------------
(***************************************************************************)
(* What the steps do to the linked fibers                                  *)
(***************************************************************************)

\* A new fiber is linked by the second half of hash_add_rcu.
LEMMA LinkedSteps ==
  ASSUME TypeOK, CreatorInv, NEW t \in Thread
  PROVE  /\ Reserve(t) \/ HashAdd(t) \/ Fill(t) => Linked' = Linked
         /\ HashLink(t) => Linked' = Linked \cup {cur[t]}
         /\ pc[t] \in {"add", "link"} => cur[t] \in FiberId \ Linked
<1> USE Ids, FiberTableAssumption
<1>1. ASSUME Reserve(t)
      PROVE  Linked' = Linked
  <2>1. lastId' = lastId + 1 /\ lastId \in Nat
    BY <1>1 DEF Reserve, TypeOK
  <2>2. pc[t] = "user" /\ cur[t] = NoFiber
    BY <1>1 DEF Reserve, CreatorInv
  <2>3. \A u \in Thread : u # t => cur'[u] = cur[u] /\ pc'[u] = pc[u]
    BY <1>1 DEF Reserve, TypeOK
  <2>4. cur'[t] = lastId + 1 /\ pc'[t] = "add"
    BY <1>1 DEF Reserve, TypeOK
  <2>5. 1..lastId' = (1..lastId) \cup {lastId + 1} /\ lastId + 1 \notin 1..lastId
    BY <2>1
  <2>6. lastId + 1 \notin Linked'
    BY <2>4 DEF Linked
  <2>7. ASSUME NEW f \in 1..lastId
        PROVE  f \in Linked' <=> f \in Linked
    BY <2>1, <2>2, <2>3, <2>4, <2>5 DEF Linked
  <2> QED BY <2>5, <2>6, <2>7 DEF Linked
<1>2. ASSUME HashAdd(t)
      PROVE  Linked' = Linked
  BY <1>2 DEF HashAdd, TypeOK, Linked
<1>3. ASSUME Fill(t)
      PROVE  Linked' = Linked
  <2>1. \A u \in Thread : u # t => cur'[u] = cur[u] /\ pc'[u] = pc[u]
    BY <1>3 DEF Fill, TypeOK
  <2>2. pc[t] = "fill" /\ cur'[t] = NoFiber /\ lastId' = lastId
    BY <1>3 DEF Fill, TypeOK
  <2> QED BY <2>1, <2>2 DEF Linked
<1>4. ASSUME pc[t] \in {"add", "link"}
      PROVE  cur[t] \in FiberId \ Linked
  BY <1>4 DEF CreatorInv, TypeOK, Linked, FiberId
<1>5. ASSUME HashLink(t)
      PROVE  Linked' = Linked \cup {cur[t]}
  <2>1. \A u \in Thread : u # t => pc'[u] = pc[u]
    BY <1>5 DEF HashLink, TypeOK
  <2>2. pc[t] = "link" /\ pc'[t] = "fill" /\ lastId' = lastId /\ cur' = cur
    BY <1>5 DEF HashLink, TypeOK
  <2>3. cur[t] \in 1..lastId /\ cur[t] # NoFiber
    BY <2>2 DEF CreatorInv
  <2>4. cur[t] \in Linked'
    BY <2>1, <2>2, <2>3 DEF Linked, CreatorInv
  <2>5. ASSUME NEW f \in 1..lastId, f # cur[t]
        PROVE  f \in Linked' <=> f \in Linked
    BY <2>1, <2>2, <2>5 DEF Linked
  <2>6. Linked \subseteq 1..lastId /\ Linked' \subseteq 1..lastId
    BY <2>2 DEF Linked
  <2> QED BY <2>3, <2>4, <2>5, <2>6
<1> QED BY <1>1, <1>2, <1>3, <1>4, <1>5

\* A step of a reader leaves all of it alone.
LEMMA ReaderStep ==
  ASSUME UNCHANGED <<table, creator>>, CreatorInv, ListInv, RaceInv
  PROVE  CreatorInv' /\ ListInv' /\ RaceInv' /\ Linked' = Linked
<1>1. UNCHANGED <<lastId, first, next, named, pc, cur, returned, raced>>
  BY DEF table, creator
<1>2. Linked' = Linked
  BY <1>1 DEF Linked
<1> QED BY <1>1, <1>2 DEF CreatorInv, ListInv, RaceInv

LEMMA CreatorKept ==
  ASSUME TypeOK, CreatorInv, NEW t \in Thread,
         Reserve(t) \/ HashAdd(t) \/ HashLink(t) \/ Fill(t)
  PROVE  CreatorInv'
<1> USE Ids, FiberTableAssumption
<1>1. CASE Reserve(t)
  <2>1. lastId' = lastId + 1 /\ lastId \in Nat /\ UNCHANGED <<returned, named>>
    BY <1>1 DEF Reserve, TypeOK
  <2>2. pc[t] = "user" /\ cur[t] = NoFiber
    BY <1>1 DEF Reserve, CreatorInv
  <2>3. \A u \in Thread : u # t => cur'[u] = cur[u] /\ pc'[u] = pc[u]
    BY <1>1 DEF Reserve, TypeOK
  <2>4. cur'[t] = lastId + 1 /\ pc'[t] = "add"
    BY <1>1 DEF Reserve, TypeOK
  <2>5. 1..lastId' = (1..lastId) \cup {lastId + 1} /\ lastId + 1 \notin 1..lastId
    BY <2>1
  <2>6. lastId + 1 # NoFiber /\ NoFiber \notin 1..lastId
    BY <2>1
  <2>7. \A f \in 1..lastId' : f \in returned \/ \E u \in Thread : cur'[u] = f
    BY <2>2, <2>3, <2>4, <2>5, <2>6 DEF CreatorInv
  <2>8. ASSUME NEW u \in Thread
        PROVE  IF pc'[u] = "user" THEN cur'[u] = NoFiber
               ELSE cur'[u] \in (1..lastId') \ returned
    <3>1. CASE u = t
      BY <3>1, <2>4, <2>5 DEF CreatorInv
    <3>2. CASE u # t
      BY <3>2, <2>3, <2>5 DEF CreatorInv
    <3> QED BY <3>1, <3>2
  <2>9. ASSUME NEW u \in Thread, NEW v \in Thread,
               cur'[u] # NoFiber, cur'[u] = cur'[v]
        PROVE  u = v
    <3>1. \A w \in Thread : w # t => cur'[w] \in (1..lastId) \cup {NoFiber}
      BY <2>3 DEF CreatorInv
    <3> QED BY <2>9, <2>3, <2>4, <2>5, <2>6, <3>1 DEF CreatorInv
  <2> QED BY <2>1, <2>5, <2>7, <2>8, <2>9 DEF CreatorInv
<1>2. CASE HashAdd(t) \/ HashLink(t)
  <2>1. UNCHANGED <<lastId, named, cur, returned>>
    BY <1>2 DEF HashAdd, HashLink
  <2>2. \A u \in Thread : pc'[u] = "user" <=> pc[u] = "user"
    BY <1>2 DEF HashAdd, HashLink, TypeOK
  <2> QED BY <2>1, <2>2 DEF CreatorInv
<1>3. CASE Fill(t)
  <2>1. \A u \in Thread : u # t => cur'[u] = cur[u] /\ pc'[u] = pc[u]
    BY <1>3 DEF Fill, TypeOK
  <2>2. /\ pc[t] = "fill" /\ cur'[t] = NoFiber /\ pc'[t] = "user"
        /\ lastId' = lastId
        /\ named' = named \cup {cur[t]} /\ returned' = returned \cup {cur[t]}
    BY <1>3 DEF Fill, TypeOK
  <2>3. cur[t] \in 1..lastId /\ cur[t] # NoFiber
    BY <2>2 DEF CreatorInv
  <2>4. \A f \in 1..lastId : f \in returned' \/ \E u \in Thread : cur'[u] = f
    BY <2>1, <2>2, <2>3 DEF CreatorInv
  <2>5. ASSUME NEW u \in Thread
        PROVE  IF pc'[u] = "user" THEN cur'[u] = NoFiber
               ELSE cur'[u] \in (1..lastId') \ returned'
    BY <2>1, <2>2, <2>3 DEF CreatorInv
  <2>6. ASSUME NEW u \in Thread, NEW v \in Thread,
               cur'[u] # NoFiber, cur'[u] = cur'[v]
        PROVE  u = v
    BY <2>6, <2>1, <2>2 DEF CreatorInv
  <2> QED BY <2>2, <2>3, <2>4, <2>5, <2>6 DEF CreatorInv
<1> QED BY <1>1, <1>2, <1>3

\* A creator changes only the link of its own fiber, which no list leads to:
\* the lists from the linked fibers stay as they are.
LEMMA ReachKept ==
  ASSUME TypeOK, CreatorInv, ListInv, NEW t \in Thread,
         Reserve(t) \/ HashAdd(t) \/ HashLink(t) \/ Fill(t),
         NEW n \in Linked \cup {NoFiber}
  PROVE  Reach(next', n) = Reach(next, n)
<1>1. CASE Reserve(t) \/ HashLink(t) \/ Fill(t)
  BY <1>1 DEF Reserve, HashLink, Fill
<1>2. CASE HashAdd(t)
  <2>1. cur[t] \notin Linked
    BY <1>2, LinkedSteps DEF HashAdd
  <2>2. \A g \in FiberId : g # cur[t] => next'[g] = next[g]
    BY <1>2 DEF HashAdd, SetNext, TypeOK
  <2>3. Linked \in SUBSET FiberId /\ Closed(next, Linked)
    BY LinkedClosed
  <2>4. \A g \in Linked : next'[g] = next[g]
    BY <2>1, <2>2, <2>3
  <2> QED BY <2>3, <2>4, ReachSame
<1> QED BY <1>1, <1>2

\* The head of a bucket.
LEMMA HeadIs ==
  ASSUME TypeOK, ListInv, NEW f \in FiberId
  PROVE  /\ Bucket(f) \in 0..(Buckets - 1)
         /\ first[Bucket(f)] \in 0..MaxFibers
         /\ first[Bucket(f)] \in Linked \cup {NoFiber}
         /\ first[Bucket(f)] # NoFiber => Bucket(first[Bucket(f)]) = Bucket(f)
<1>1. Bucket(f) \in 0..(Buckets - 1)
  BY BucketRange, Ids
<1> QED BY <1>1 DEF TypeOK, ListInv

LEMMA ListKept ==
  ASSUME TypeOK, CreatorInv, ListInv, NEW t \in Thread,
         Reserve(t) \/ HashAdd(t) \/ HashLink(t) \/ Fill(t)
  PROVE  ListInv'
<1>1. CASE Reserve(t) \/ Fill(t)
  <2>1. UNCHANGED <<first, next>>
    BY <1>1 DEF Reserve, Fill
  <2>2. Linked' = Linked
    BY <1>1, LinkedSteps
  <2> QED BY <2>1, <2>2 DEF ListInv
<1>2. CASE HashAdd(t)
  <2> PICK f \in FiberId : f = cur[t]
    BY <1>2, LinkedSteps DEF HashAdd
  <2>1. f \notin Linked /\ Linked' = Linked
    BY <1>2, LinkedSteps DEF HashAdd
  <2>2. /\ first' = first
        /\ next' = [next EXCEPT ![f] = first[Bucket(f)]]
    BY <1>2 DEF HashAdd, SetNext
  <2>3. /\ next'[f] = first[Bucket(f)]
        /\ \A g \in FiberId : g # f => next'[g] = next[g]
    BY <2>2 DEF TypeOK
  <2>4. \A n \in Linked \cup {NoFiber} : Reach(next', n) = Reach(next, n)
    BY <1>2, ReachKept
  <2>5. \A g \in FiberId : next[g] \in Linked \cup {NoFiber}
    BY DEF ListInv
  <2>6. \A g \in FiberId : next'[g] # NoFiber =>
          next'[g] \in Linked /\ Bucket(next'[g]) = Bucket(g)
    BY <2>3, HeadIs DEF ListInv
  <2>7. ASSUME NEW g \in FiberId
        PROVE  g \notin Reach(next', next'[g])
    <3>1. CASE g = f
      <4>1. Reach(next', next'[g]) = Reach(next, first[Bucket(f)])
        BY <3>1, <2>3, <2>4, HeadIs
      <4>2. \A h \in Reach(next, first[Bucket(f)]) : h \in Linked
        BY HeadIs, ReachInBucket
      <4> QED BY <3>1, <4>1, <4>2, <2>1
    <3>2. CASE g # f
      <4>1. next'[g] = next[g] /\ next[g] \in Linked \cup {NoFiber}
        BY <3>2, <2>3, <2>5
      <4>2. Reach(next', next'[g]) = Reach(next, next[g])
        BY <4>1, <2>4
      <4>3. g \notin Reach(next, next[g])
        BY DEF ListInv
      <4> QED BY <4>2, <4>3
    <3> QED BY <3>1, <3>2
  <2>8. \A b \in 0..(Buckets - 1) : first'[b] # NoFiber =>
          first'[b] \in Linked' /\ Bucket(first'[b]) = b
    BY <2>1, <2>2 DEF ListInv
  <2> QED BY <2>1, <2>6, <2>7, <2>8 DEF ListInv
<1>3. CASE HashLink(t)
  <2> PICK f \in FiberId : f = cur[t]
    BY <1>3, LinkedSteps DEF HashLink
  <2>1. Linked' = Linked \cup {f}
    BY <1>3, LinkedSteps
  <2>2. /\ next' = next
        /\ first' = [first EXCEPT ![Bucket(f)] = f]
    BY <1>3 DEF HashLink
  <2>3. \A b \in 0..(Buckets - 1) :
          first'[b] = IF b = Bucket(f) THEN f ELSE first[b]
    BY <2>2 DEF TypeOK
  <2>4. \A b \in 0..(Buckets - 1) : first'[b] # NoFiber =>
          first'[b] \in Linked' /\ Bucket(first'[b]) = b
    BY <2>1, <2>3 DEF ListInv
  <2> QED BY <2>1, <2>2, <2>4 DEF ListInv
<1> QED BY <1>1, <1>2, <1>3

LEMMA RaceKept ==
  ASSUME TypeOK, CreatorInv, ListInv, RaceInv, NEW t \in Thread,
         Reserve(t) \/ HashAdd(t) \/ HashLink(t) \/ Fill(t)
  PROVE  RaceInv'
<1>1. CASE Reserve(t) \/ Fill(t)
  <2>1. UNCHANGED <<first, next, raced>>
    BY <1>1 DEF Reserve, Fill
  <2>2. Linked' = Linked
    BY <1>1, LinkedSteps
  <2>3. \A u \in Thread : pc'[u] = "link" => pc[u] = "link" /\ cur'[u] = cur[u]
    BY <1>1 DEF Reserve, Fill, TypeOK
  <2> QED BY <2>1, <2>2, <2>3 DEF RaceInv
<1>2. CASE HashAdd(t)
  <2> PICK f \in FiberId : f = cur[t]
    BY <1>2, LinkedSteps DEF HashAdd
  <2>1. f \notin Linked /\ Linked' = Linked
    BY <1>2, LinkedSteps DEF HashAdd
  <2>2. /\ first' = first /\ cur' = cur
        /\ next' = [next EXCEPT ![f] = first[Bucket(f)]]
        /\ raced \subseteq raced'
    BY <1>2 DEF HashAdd, SetNext
  <2>3. /\ next'[f] = first[Bucket(f)]
        /\ \A g \in FiberId : g # f => next'[g] = next[g]
    BY <2>2 DEF TypeOK
  <2>4. \A n \in Linked \cup {NoFiber} : Reach(next', n) = Reach(next, n)
    BY <1>2, ReachKept
  <2>5. \A u \in Thread : u # t => pc'[u] = pc[u]
    BY <1>2 DEF HashAdd, TypeOK
  <2>6. \A u \in Thread : u # t /\ pc[u] = "link" => cur[u] \in FiberId /\ cur[u] # f
    BY LinkedSteps, Ids DEF CreatorInv
  <2>7. \A g \in FiberId : next[g] \in Linked \cup {NoFiber}
    BY DEF ListInv
  <2>8. Linked \subseteq FiberId
    BY LinkedTyped
  <2>9. \A g \in Linked \ raced' : g \in Reach(next', first'[Bucket(g)])
    BY <2>2, <2>4, <2>8, HeadIs DEF RaceInv
  <2>10. ASSUME NEW u \in Thread, pc'[u] = "link", NEW g \in Linked \ raced',
                Bucket(g) = Bucket(cur[u])
         PROVE  g \in Reach(next', next'[cur[u]])
    <3>1. CASE u = t
      BY <3>1, <2>10, <2>2, <2>3, <2>9
    <3>2. CASE u # t
      <4>1. g \in Reach(next, next[cur[u]])
        BY <3>2, <2>10, <2>2, <2>5 DEF RaceInv
      <4> QED BY <4>1, <3>2, <2>3, <2>4, <2>5, <2>6, <2>7, <2>10
    <3> QED BY <3>1, <3>2
  <2>11. ASSUME NEW u \in Thread, NEW v \in Thread, u # v,
                pc'[u] = "link", pc'[v] = "link", Bucket(cur[u]) = Bucket(cur[v])
         PROVE  cur[u] \in raced'
    <3>1. CASE u # t /\ v # t
      BY <3>1, <2>11, <2>2, <2>5 DEF RaceInv
    <3>2. CASE u = t
      <4>1. v \in Adding(cur[t])
        BY <3>2, <2>11, <2>5 DEF Adding
      <4> QED BY <4>1, <3>2, <1>2 DEF HashAdd
    <3>3. CASE v = t
      <4>1. u \in Adding(cur[t])
        BY <3>3, <2>11, <2>5 DEF Adding
      <4> QED BY <4>1, <1>2 DEF HashAdd
    <3> QED BY <3>1, <3>2, <3>3
  <2> QED BY <2>1, <2>2, <2>9, <2>10, <2>11 DEF RaceInv
<1>3. CASE HashLink(t)
  <2> PICK f \in FiberId : f = cur[t]
    BY <1>3, LinkedSteps DEF HashLink
  <2>1. Linked' = Linked \cup {f}
    BY <1>3, LinkedSteps
  <2>2. /\ next' = next /\ cur' = cur /\ raced' = raced /\ pc[t] = "link"
        /\ first' = [first EXCEPT ![Bucket(f)] = f]
    BY <1>3 DEF HashLink
  <2>3. \A b \in 0..(Buckets - 1) :
          first'[b] = IF b = Bucket(f) THEN f ELSE first[b]
    BY <2>2 DEF TypeOK
  <2>4. /\ \A u \in Thread : pc'[u] = "link" => pc[u] = "link" /\ u # t
    BY <1>3 DEF HashLink, TypeOK
  <2>5. next \in Links
    BY DEF TypeOK, Links
  <2>6. Reach(next, f) = {f} \cup Reach(next, next[f])
    BY <2>5, ReachStep
  <2>7. ASSUME NEW g \in Linked' \ raced
        PROVE  g \in Reach(next, first'[Bucket(g)])
    <3>0. g \in FiberId /\ Bucket(g) \in 0..(Buckets - 1)
      BY <2>1, LinkedTyped, HeadIs
    <3>1. CASE g = f
      BY <3>0, <3>1, <2>3, <2>6
    <3>2. CASE g # f /\ Bucket(g) = Bucket(f)
      <4>1. g \in Reach(next, next[f])
        BY <3>2, <2>1, <2>2 DEF RaceInv
      <4> QED BY <4>1, <3>0, <3>2, <2>3, <2>6
    <3>3. CASE g # f /\ Bucket(g) # Bucket(f)
      BY <3>0, <3>3, <2>1, <2>3 DEF RaceInv
    <3> QED BY <3>1, <3>2, <3>3
  <2>8. ASSUME NEW u \in Thread, pc'[u] = "link", NEW g \in Linked' \ raced,
               Bucket(g) = Bucket(cur[u])
        PROVE  g \in Reach(next, next[cur[u]])
    <3>1. CASE g = f
      BY <3>1, <2>8, <2>2, <2>4 DEF RaceInv
    <3>2. CASE g # f
      BY <3>2, <2>8, <2>1, <2>4 DEF RaceInv
    <3> QED BY <3>1, <3>2
  <2>9. ASSUME NEW u \in Thread, NEW v \in Thread, u # v,
               pc'[u] = "link", pc'[v] = "link", Bucket(cur[u]) = Bucket(cur[v])
        PROVE  cur[u] \in raced
    BY <2>9, <2>4 DEF RaceInv
  <2> QED BY <2>2, <2>7, <2>8, <2>9 DEF RaceInv
<1> QED BY <1>1, <1>2, <1>3

-----------------------------------------------------------------------------
(***************************************************************************)
(* The readers                                                             *)
(***************************************************************************)

\* The text of a fiber that is found has its bounds.
LEMMA FoundText ==
  ASSUME TypeOK, NEW f, Found(f)
  PROVE  TextLen(f) \in MinText..MaxText /\ TextLen(f) \in Nat \ {0}
<1>1. f \in FiberId
  BY DEF Found, InBucket, Reach
<1>2. digits[f] \in 0..MaxDigits
  BY <1>1 DEF TypeOK
<1> QED BY <1>2, FiberTableAssumption DEF TextLen, MaxText

\* A read ends the file, or copies the start of a text and moves the offset by
\* as much.
LEMMA ReadSteps ==
  ASSUME TypeOK, NEW r \in Reader, FiberRead(r)
  PROVE  \/ UNCHANGED <<off, got, clipped>> /\ rpc' = [rpc EXCEPT ![r] = "eof"]
         \/ \E text \in MinText..MaxText, i \in Nat \ {0} :
              /\ off[r] < text /\ rpc' = rpc
              /\ off' = [off EXCEPT ![r] = off[r] + i]
              /\ got' = [got EXCEPT ![r] = Append(got[r], i)]
              /\ \/ clipped' = clipped \cup {r}
                 \/ clipped' = clipped /\ i = text
<1> USE FiberTableAssumption
<1> DEFINE text == TextLen(file[r])
<1>1. CASE ~Found(file[r]) \/ off[r] >= text
  <2>1. off[r] \in Nat
    BY DEF TypeOK
  <2>2. CASE ~Found(file[r])
    BY <2>2 DEF FiberRead
  <2>3. CASE Found(file[r]) /\ off[r] >= text
    <3>1. text \in Nat
      BY <2>3, FoundText
    <3>2. ~(off[r] < text)
      BY <2>1, <2>3, <3>1
    <3> QED BY <3>2 DEF FiberRead
  <2> QED BY <1>1, <2>2, <2>3
<1>2. CASE Found(file[r]) /\ off[r] < text
  <2>1. text \in MinText..MaxText /\ text \in Nat \ {0}
    BY <1>2, FoundText
  <2>2. off[r] \in Nat /\ ~(off[r] >= text)
    BY <1>2, <2>1 DEF TypeOK
  <2>3. PICK len \in Room :
          /\ rpc' = rpc
          /\ Advance(r, IF len < text THEN len ELSE text)
          /\ got' = [got EXCEPT ![r] =
                       Append(got[r], IF len < text THEN len ELSE text)]
          /\ clipped' = IF len < text THEN clipped \cup {r} ELSE clipped
    BY <1>2, <2>2, Zenon DEF FiberRead
  <2> HIDE DEF text
  <2>4. CASE len < text
    <3>1. len \in Nat \ {0}
      OBVIOUS
    <3> QED BY <1>2, <2>1, <2>3, <2>4, <3>1 DEF Advance
  <2>5. CASE ~(len < text)
    BY <1>2, <2>1, <2>3, <2>5 DEF Advance
  <2> QED BY <2>4, <2>5
<1> QED BY <1>1, <1>2 DEF FiberRead

LEMMA TypeKept ==
  ASSUME TypeOK, CreatorInv, [Next]_vars
  PROVE  TypeOK'
<1> USE FiberTableAssumption, Ids
<1>1. ASSUME NEW t \in Thread, Reserve(t)
      PROVE  TypeOK'
  <2>1. /\ lastId' \in 0..MaxFibers
        /\ cur' \in [Thread -> 0..MaxFibers]
    <3>1. lastId + 1 \in 0..MaxFibers
      BY <1>1 DEF TypeOK, Reserve
    <3> QED BY <3>1, <1>1 DEF TypeOK, Reserve
  <2>2. pc' \in [Thread -> {"user", "add", "link", "fill"}]
    BY <1>1 DEF TypeOK, Reserve
  <2>3. quiet' \in [Reader -> BOOLEAN]
    BY <1>1 DEF Reserve
  <2> QED BY <2>1, <2>2, <2>3, <1>1 DEF TypeOK, Reserve, walk, reads, stats
<1>2. ASSUME NEW t \in Thread, HashAdd(t)
      PROVE  TypeOK'
  <2>1. cur[t] \in FiberId
    BY <1>2, LinkedSteps DEF HashAdd
  <2>2. next' \in [FiberId -> 0..MaxFibers]
    <3>1. first[Bucket(cur[t])] \in 0..MaxFibers
      BY <2>1, BucketRange DEF TypeOK
    <3> QED BY <3>1, <1>2 DEF TypeOK, HashAdd, SetNext
  <2>3. raced' \subseteq FiberId
    <3>1. \A u \in Adding(cur[t]) : cur[u] \in FiberId
      BY LinkedSteps DEF Adding
    <3>2. raced' = raced \/
          raced' = raced \cup {cur[t]} \cup {cur[u] : u \in Adding(cur[t])}
      BY <1>2 DEF HashAdd
    <3>3. raced \subseteq FiberId
      BY DEF TypeOK
    <3>4. {cur[u] : u \in Adding(cur[t])} \subseteq FiberId
      BY <3>1
    <3> QED BY <2>1, <3>2, <3>3, <3>4
  <2> QED BY <2>2, <2>3, <1>2 DEF TypeOK, HashAdd, walk, reads, stats
<1>3. ASSUME NEW t \in Thread, HashLink(t)
      PROVE  TypeOK'
  <2>1. first' \in [0..(Buckets - 1) -> 0..MaxFibers]
    BY <1>3 DEF TypeOK, HashLink
  <2> QED BY <2>1, <1>3 DEF TypeOK, HashLink, walk, reads, stats
<1>4. ASSUME NEW t \in Thread, Fill(t)
      PROVE  TypeOK'
  <2>1. cur[t] \in FiberId
    BY <1>4 DEF Fill, CreatorInv, TypeOK, FiberId
  <2>2. /\ cur' \in [Thread -> 0..MaxFibers]
        /\ pc' \in [Thread -> {"user", "add", "link", "fill"}]
    BY <1>4 DEF TypeOK, Fill
  <2>3. named' \subseteq FiberId /\ returned' \subseteq FiberId
    BY <2>1, <1>4 DEF TypeOK, Fill
  <2> QED BY <2>2, <2>3, <1>4 DEF TypeOK, Fill, walk, reads, stats
<1>5. ASSUME NEW f \in FiberId, Switch(f) \/ Count(f)
      PROVE  TypeOK'
  <2>1. digits' \in [FiberId -> 0..MaxDigits]
    <3>1. PICK d \in digits[f]..MaxDigits : digits' = [digits EXCEPT ![f] = d]
      BY <1>5 DEF Switch, Count, Grow
    <3>2. d \in 0..MaxDigits
      BY DEF TypeOK
    <3> QED BY <3>1, <3>2 DEF TypeOK
  <2>2. ongoing' \subseteq FiberId
    BY <1>5 DEF TypeOK, Switch, Count
  <2>3. UNCHANGED <<table, creator, rpc, walk, reads, quiet>>
    BY <1>5 DEF Switch, Count
  <2> QED BY <2>1, <2>2, <2>3 DEF TypeOK, table, creator, walk, reads
<1>6. ASSUME NEW r \in Reader, CountFibers(r)
      PROVE  TypeOK'
  <2>1. quiet' \in [Reader -> BOOLEAN]
    BY <1>6, Zenon DEF TypeOK, CountFibers
  <2> QED BY <2>1, <1>6 DEF TypeOK, CountFibers, ArraySize, table, creator, reads, stats
<1>7. ASSUME NEW r \in Reader, WalkFiber(r)
      PROVE  TypeOK'
  <2>1. node[r] \in FiberId
    BY <1>7 DEF TypeOK, WalkFiber
  <2>2. (node[r] \in named) \in BOOLEAN
    OBVIOUS
  <2>3. [fiber |-> node[r], named |-> node[r] \in named]
          \in [fiber : FiberId, named : BOOLEAN]
    BY <2>1, <2>2
  <2>4. ents' \in [Reader -> Seq([fiber : FiberId, named : BOOLEAN])]
    <3> DEFINE x == [fiber |-> node[r], named |-> node[r] \in named]
    <3>1. x \in [fiber : FiberId, named : BOOLEAN]
      BY <2>3
    <3>2. ents' = [ents EXCEPT ![r] = Append(ents[r], x)]
      BY <1>7 DEF WalkFiber
    <3> DEFINE E == [fiber : FiberId, named : BOOLEAN]
    <3> HIDE DEF x, E
    <3>3. x \in E /\ ents \in [Reader -> Seq(E)]
      BY <3>1 DEF TypeOK, E
    <3>4. Append(ents[r], x) \in Seq(E)
      BY <3>3
    <3>5. ents' \in [Reader -> Seq(E)]
      BY <3>2, <3>3, <3>4
    <3> QED BY <3>5 DEF E
  <2> QED BY <2>1, <2>4, <1>7 DEF TypeOK, WalkFiber, table, creator, reads, stats
<1>8. ASSUME NEW r \in Reader, WalkBucket(r)
      PROVE  TypeOK'
  <2>1. first[bucket[r]] \in 0..MaxFibers /\ bucket[r] + 1 \in 0..Buckets
    <3>1. bucket[r] \in 0..Buckets /\ first \in [0..(Buckets - 1) -> 0..MaxFibers]
      BY DEF TypeOK
    <3>2. bucket[r] < Buckets
      BY <1>8 DEF WalkBucket
    <3>3. bucket[r] \in 0..(Buckets - 1) /\ bucket[r] + 1 \in 0..Buckets
      BY <3>1, <3>2
    <3> QED BY <3>1, <3>3
  <2> QED BY <2>1, <1>8 DEF TypeOK, WalkBucket, table, creator, reads, stats
<1>9. ASSUME NEW r \in Reader, WalkEnds(r) \/ WalkReturns(r)
      PROVE  TypeOK'
  <2>1. ents' \in [Reader -> Seq([fiber : FiberId, named : BOOLEAN])]
    <3> DEFINE E == [fiber : FiberId, named : BOOLEAN]
    <3>1. ents' = ents \/ ents' = [ents EXCEPT ![r] = << >>]
      BY <1>9 DEF WalkEnds, WalkReturns, walk
    <3>2. ents \in [Reader -> Seq(E)]
      BY DEF TypeOK
    <3> HIDE DEF E
    <3>3. << >> \in Seq(E)
      OBVIOUS
    <3>4. ents' \in [Reader -> Seq(E)]
      BY <3>1, <3>2, <3>3
    <3> QED BY <3>4 DEF E
  <2>2. quiet' \in [Reader -> BOOLEAN]
    BY <1>9 DEF TypeOK, WalkEnds, WalkReturns
  <2>3. /\ rpc' \in [Reader -> {"idle", "walk", "done", "file", "eof"}]
        /\ nents' \in [Reader -> 0..MaxFibers] /\ bucket' \in [Reader -> 0..Buckets]
    <3>1. 0 \in 0..MaxFibers /\ 0 \in 0..Buckets
      OBVIOUS
    <3>2. CASE WalkEnds(r)
      BY <3>2 DEF TypeOK, WalkEnds, walk
    <3>3. CASE WalkReturns(r)
      BY <3>1, <3>3 DEF TypeOK, WalkReturns
    <3> QED BY <1>9, <3>2, <3>3
  <2>4. /\ before' \in [Reader -> SUBSET FiberId]
        /\ UNCHANGED <<node, table, stats, creator, reads>>
    BY <1>9 DEF TypeOK, WalkEnds, WalkReturns, walk
  <2> QED BY <2>1, <2>2, <2>3, <2>4 DEF TypeOK, table, creator, reads, stats
<1>10. ASSUME NEW r \in Reader, NEW f \in FiberId, OpenFile(r, f)
       PROVE  TypeOK'
  <2>1. /\ rpc' \in [Reader -> {"idle", "walk", "done", "file", "eof"}]
        /\ file' \in [Reader -> 0..MaxFibers]
    <3>1. f \in 0..MaxFibers
      BY DEF FiberId
    <3> QED BY <3>1, <1>10 DEF TypeOK, OpenFile
  <2> QED BY <2>1, <1>10 DEF TypeOK, OpenFile, table, creator, walk, stats
<1>11. ASSUME NEW r \in Reader, FiberRead(r)
       PROVE  TypeOK'
  <2> DEFINE Typed == /\ off' \in [Reader -> Nat] /\ got' \in [Reader -> Seq(Nat)]
                      /\ clipped' \subseteq Reader
                      /\ rpc' \in [Reader -> {"idle", "walk", "done", "file", "eof"}]
  <2>1. Typed
    <3>1. CASE UNCHANGED <<off, got, clipped>> /\ rpc' = [rpc EXCEPT ![r] = "eof"]
      BY <3>1 DEF TypeOK
    <3>2. ASSUME NEW i \in Nat, rpc' = rpc, clipped' \subseteq clipped \cup {r},
                 off' = [off EXCEPT ![r] = off[r] + i],
                 got' = [got EXCEPT ![r] = Append(got[r], i)]
          PROVE  Typed
      <4>1. off' \in [Reader -> Nat]
        BY <3>2 DEF TypeOK
      <4>2. got \in [Reader -> Seq(Nat)] /\ Append(got[r], i) \in Seq(Nat)
        BY DEF TypeOK
      <4>3. got' \in [Reader -> Seq(Nat)]
        BY <3>2, <4>2
      <4> QED BY <3>2, <4>1, <4>3 DEF TypeOK
    <3> HIDE DEF Typed
    <3> QED BY <3>1, <3>2, <1>11, ReadSteps
  <2>2. UNCHANGED <<table, stats, creator, walk, file, quiet>>
    BY <1>11 DEF FiberRead
  <2> QED BY <2>1, <2>2 DEF TypeOK, table, stats, creator, walk
<1>12. ASSUME NEW r \in Reader, CloseFile(r)
       PROVE  TypeOK'
  <2>1. got' \in [Reader -> Seq(Nat)]
    <3>1. << >> \in Seq(Nat)
      OBVIOUS
    <3> QED BY <3>1, <1>12 DEF TypeOK, CloseFile
  <2>2. /\ rpc' \in [Reader -> {"idle", "walk", "done", "file", "eof"}]
        /\ file' \in [Reader -> 0..MaxFibers] /\ off' \in [Reader -> Nat]
    BY <1>12 DEF TypeOK, CloseFile
  <2> QED BY <2>1, <2>2, <1>12 DEF TypeOK, CloseFile, table, stats, creator, walk
<1>13. ASSUME UNCHANGED vars
       PROVE  TypeOK'
  BY <1>13 DEF TypeOK, vars, table, creator, walk, reads, stats
<1> QED BY <1>1, <1>2, <1>3, <1>4, <1>5, <1>6, <1>7, <1>8, <1>9, <1>10, <1>11,
           <1>12, <1>13 DEF Next

\* A walk goes on undisturbed when the table grows beside it.
LEMMA StillWalks ==
  ASSUME NEW r \in Reader, TypeOK, WalkOK(r),
         rpc'[r] = rpc[r], bucket'[r] = bucket[r], node'[r] = node[r],
         ents'[r] = ents[r], before'[r] = before[r],
         Linked \subseteq Linked', returned \subseteq returned',
         raced \subseteq raced',
         Reach(next', node[r]) = Reach(next, node[r])
  PROVE  WalkOK(r)'
BY DEF WalkOK

LEMMA WalkKeptByCreators ==
  ASSUME TypeOK, CreatorInv, ListInv, NEW r \in Reader, WalkOK(r),
         NEW t \in Thread, Reserve(t) \/ HashAdd(t) \/ HashLink(t) \/ Fill(t)
  PROVE  WalkOK(r)'
<1>1. UNCHANGED <<rpc, walk>>
  BY DEF Reserve, HashAdd, HashLink, Fill
<1>2. Linked \subseteq Linked'
  BY LinkedSteps
<1>3. returned \subseteq returned' /\ raced \subseteq raced'
  BY DEF Reserve, HashAdd, HashLink, Fill
<1>4. Reach(next', node[r]) = Reach(next, node[r])
  BY ReachKept DEF WalkOK
<1> QED BY <1>1, <1>2, <1>3, <1>4, StillWalks DEF walk

\* What one reader does leaves another reader's walk alone.
LEMMA OtherReader ==
  ASSUME TypeOK, NEW r \in Reader, NEW q \in Reader, q # r,
         \/ CountFibers(q) \/ WalkFiber(q) \/ WalkBucket(q)
         \/ WalkEnds(q) \/ WalkReturns(q)
         \/ \E f \in FiberId : OpenFile(q, f)
         \/ FiberRead(q) \/ CloseFile(q)
  PROVE  /\ rpc'[r] = rpc[r] /\ quiet'[r] = quiet[r]
         /\ nents'[r] = nents[r] /\ bucket'[r] = bucket[r] /\ node'[r] = node[r]
         /\ ents'[r] = ents[r] /\ before'[r] = before[r]
<1>1. CASE CountFibers(q)
  BY <1>1 DEF CountFibers, TypeOK
<1>2. CASE WalkFiber(q)
  BY <1>2 DEF WalkFiber, TypeOK
<1>3. CASE WalkBucket(q)
  BY <1>3 DEF WalkBucket, TypeOK
<1>4. CASE WalkEnds(q)
  BY <1>4 DEF WalkEnds, walk, TypeOK
<1>5. CASE WalkReturns(q)
  BY <1>5 DEF WalkReturns, TypeOK
<1>6. CASE \E f \in FiberId : OpenFile(q, f)
  BY <1>6 DEF OpenFile, walk, TypeOK
<1>7. CASE FiberRead(q)
  BY <1>7 DEF FiberRead, walk, TypeOK
<1>8. CASE CloseFile(q)
  BY <1>8 DEF CloseFile, walk, TypeOK
<1> QED
  BY <1>1, <1>2, <1>3, <1>4, <1>5, <1>6, <1>7, <1>8

LEMMA WalkKeptByReaders ==
  ASSUME TypeOK, CreatorInv, ListInv, RaceInv, NEW r \in Reader, WalkOK(r),
         NEW q \in Reader,
         \/ CountFibers(q) \/ WalkFiber(q) \/ WalkBucket(q)
         \/ WalkEnds(q) \/ WalkReturns(q)
         \/ \E f \in FiberId : OpenFile(q, f)
         \/ FiberRead(q) \/ CloseFile(q)
  PROVE  WalkOK(r)'
<1> USE FiberTableAssumption, Ids
<1>0. UNCHANGED <<table, creator>>
  BY DEF CountFibers, WalkFiber, WalkBucket, WalkEnds, WalkReturns, OpenFile,
         FiberRead, CloseFile
<1>00. UNCHANGED <<lastId, first, next, named, pc, cur, returned, raced>>
  BY <1>0 DEF table, creator
<1>000. Linked' = Linked
  BY <1>00 DEF Linked
<1>1. ASSUME q # r
      PROVE  WalkOK(r)'
  <2>1. /\ rpc'[r] = rpc[r] /\ bucket'[r] = bucket[r] /\ node'[r] = node[r]
        /\ ents'[r] = ents[r] /\ before'[r] = before[r]
    BY <1>1, OtherReader
  <2> QED BY <2>1, <1>00, <1>000, StillWalks
<1>2. ASSUME CountFibers(r)
      PROVE  WalkOK(r)'
  <2>1. /\ rpc[r] = "idle" /\ rpc'[r] = "walk" /\ before'[r] = returned
        /\ bucket' = bucket /\ node' = node /\ ents' = ents
    BY <1>2 DEF CountFibers, TypeOK
  <2>2. bucket[r] = 0 /\ ents[r] = << >> /\ node[r] = NoFiber
    BY <2>1 DEF WalkOK
  <2>3. \A f \in returned : Bucket(f) >= 0
    BY BucketRange DEF TypeOK
  <2> QED BY <2>1, <2>2, <2>3, <1>00, <1>000 DEF WalkOK
<1>3. ASSUME WalkFiber(r)
      PROVE  WalkOK(r)'
  <2> DEFINE n == node[r]
             s == ents[r]
             x == [fiber |-> node[r], named |-> node[r] \in named]
  <2>1. /\ rpc[r] = "walk" /\ rpc' = rpc /\ bucket' = bucket /\ before' = before
        /\ n # NoFiber /\ ents'[r] = Append(s, x) /\ node'[r] = next[n]
    BY <1>3 DEF WalkFiber, TypeOK
  <2>2. n \in Linked /\ Bucket(n) + 1 = bucket[r] /\ n \in FiberId
    BY <2>1, LinkedTyped DEF WalkOK
  <2>3. next \in Links
    BY DEF TypeOK, Links
  <2>4. Reach(next, n) = {n} \cup Reach(next, next[n])
    BY <2>2, <2>3, ReachStep
  <2>5. n \notin Reach(next, next[n])
    BY <2>2 DEF ListInv
  <2>6. s \in Seq([fiber : FiberId, named : BOOLEAN]) /\ x.fiber = n
    BY DEF TypeOK
  <2>7. node'[r] # NoFiber =>
          node'[r] \in Linked /\ Bucket(node'[r]) + 1 = bucket[r]
    BY <2>1, <2>2 DEF ListInv
  <2>8. \A i \in 1..Len(s) :
          /\ s[i].fiber \in Linked
          /\ Bucket(s[i].fiber) < bucket[r]
          /\ s[i].fiber \notin Reach(next, n)
    BY DEF WalkOK
  <2>9. \A i, j \in 1..Len(s) : s[i].fiber = s[j].fiber => i = j
    BY DEF WalkOK
  <2>10. Bucket(n) < bucket[r]
    <3>1. Bucket(n) \in Nat /\ Bucket(n) + 1 = bucket[r]
      BY <2>2, BucketNat
    <3> QED BY <3>1
  <2>11. ASSUME NEW f \in before[r] \ raced
         PROVE  \/ \E i \in 1..Len(s) : s[i] = [fiber |-> f, named |-> TRUE]
                \/ x = [fiber |-> f, named |-> TRUE]
                \/ Bucket(f) >= bucket[r]
                \/ f \in Reach(next, next[n])
    <3>1. CASE f = n
      <4>1. f \in named
        BY DEF WalkOK, CreatorInv
      <4> QED BY <3>1, <4>1
    <3>2. CASE f # n
      BY <3>2, <2>1, <2>4 DEF WalkOK
    <3> QED BY <3>1, <3>2
  <2> HIDE DEF n, s, x
  <2>12. /\ Len(Append(s, x)) = Len(s) + 1 /\ Len(s) \in Nat
         /\ Append(s, x)[Len(s) + 1] = x
         /\ \A i \in 1..Len(s) : Append(s, x)[i] = s[i]
    BY <2>6
  <2>13. \A i \in 1..(Len(s) + 1) : i \in 1..Len(s) \/ i = Len(s) + 1
    BY <2>12
  <2>14. \A i \in 1..Len(Append(s, x)) :
          /\ Append(s, x)[i].fiber \in Linked
          /\ Bucket(Append(s, x)[i].fiber) < bucket[r]
          /\ Append(s, x)[i].fiber \notin Reach(next, next[n])
    BY <2>2, <2>4, <2>5, <2>6, <2>8, <2>10, <2>12, <2>13
  <2>15. \A i, j \in 1..Len(Append(s, x)) :
           Append(s, x)[i].fiber = Append(s, x)[j].fiber => i = j
    <3>1. \A i \in 1..Len(s) : s[i].fiber # x.fiber
      BY <2>4, <2>6, <2>8
    <3> QED BY <3>1, <2>9, <2>12, <2>13
  <2>16. \A f \in before[r] \ raced :
           \/ \E i \in 1..Len(Append(s, x)) :
                Append(s, x)[i] = [fiber |-> f, named |-> TRUE]
           \/ Bucket(f) >= bucket[r]
           \/ f \in Reach(next, next[n])
    <3>1. 1..Len(s) \subseteq 1..Len(Append(s, x)) /\ Len(s) + 1 \in 1..Len(Append(s, x))
      BY <2>12
    <3> QED BY <3>1, <2>11, <2>12
  <2>17. before[r] \subseteq returned
    BY DEF WalkOK
  <2> QED BY <2>1, <2>7, <2>14, <2>15, <2>16, <2>17, <1>00, <1>000 DEF WalkOK
<1>4. ASSUME WalkBucket(r)
      PROVE  WalkOK(r)'
  <2> DEFINE b == bucket[r]
  <2>1. /\ rpc[r] = "walk" /\ rpc' = rpc /\ ents' = ents /\ before' = before
        /\ node[r] = NoFiber /\ node'[r] = first[b] /\ bucket'[r] = b + 1
        /\ b \in 0..(Buckets - 1)
    <3>1. /\ rpc[r] = "walk" /\ rpc' = rpc /\ ents' = ents /\ before' = before
          /\ node[r] = NoFiber /\ bucket[r] < Buckets
          /\ node' = [node EXCEPT ![r] = first[bucket[r]]]
          /\ bucket' = [bucket EXCEPT ![r] = bucket[r] + 1]
      BY <1>4 DEF WalkBucket
    <3>2. node \in [Reader -> 0..MaxFibers] /\ bucket \in [Reader -> 0..Buckets]
      BY DEF TypeOK
    <3>3. node'[r] = first[b] /\ bucket'[r] = b + 1
      BY <3>1, <3>2
    <3>4. b \in 0..(Buckets - 1)
      BY <3>1, <3>2
    <3> QED BY <3>1, <3>3, <3>4
  <2>2. /\ first[b] \in 0..MaxFibers
        /\ first[b] # NoFiber => first[b] \in Linked /\ Bucket(first[b]) = b
    BY <2>1 DEF ListInv, TypeOK
  <2>3. \A f \in Reach(next, first[b]) : f \in Linked /\ Bucket(f) = b
    BY <2>2, ReachInBucket
  <2>4. ASSUME NEW i \in 1..Len(ents[r])
        PROVE  /\ ents[r][i].fiber \in Linked
               /\ Bucket(ents[r][i].fiber) < b + 1
               /\ ents[r][i].fiber \notin Reach(next, first[b])
    <3>1. ents[r][i].fiber \in Linked /\ Bucket(ents[r][i].fiber) < b
      BY DEF WalkOK
    <3>2. Bucket(ents[r][i].fiber) \in Nat
      BY <3>1, LinkedTyped, BucketNat
    <3> QED BY <3>1, <3>2, <2>1, <2>3
  <2>5. ASSUME NEW f \in before[r] \ raced
        PROVE  \/ \E i \in 1..Len(ents[r]) : ents[r][i] = [fiber |-> f, named |-> TRUE]
               \/ Bucket(f) >= b + 1
               \/ f \in Reach(next, first[b])
    <3>1. f \in Linked /\ f \in FiberId
      BY ReturnedLinked, LinkedTyped DEF WalkOK
    <3>2. Bucket(f) \in Nat
      BY <3>1, BucketNat
    <3>3. CASE Bucket(f) = b
      BY <3>1, <3>3 DEF RaceInv
    <3>4. CASE Bucket(f) # b
      <4>1. \/ \E i \in 1..Len(ents[r]) : ents[r][i] = [fiber |-> f, named |-> TRUE]
            \/ Bucket(f) >= b
        BY <2>1, ReachNothing DEF WalkOK
      <4>2. Bucket(f) >= b => Bucket(f) >= b + 1
        BY <3>2, <3>4, <2>1
      <4> QED BY <4>1, <4>2
    <3> QED BY <3>3, <3>4
  <2> QED BY <2>1, <2>2, <2>4, <2>5, <1>00, <1>000 DEF WalkOK
<1>5. ASSUME WalkEnds(r)
      PROVE  WalkOK(r)'
  <2>1. /\ rpc[r] = "walk" /\ rpc'[r] = "done" /\ UNCHANGED walk
        /\ node[r] = NoFiber /\ bucket[r] = Buckets
    BY <1>5 DEF WalkEnds, TypeOK
  <2> QED BY <2>1, <1>00, <1>000 DEF WalkOK, walk
<1>6. ASSUME WalkReturns(r)
      PROVE  WalkOK(r)'
  <2>1. /\ rpc[r] = "done" /\ rpc'[r] = "idle" /\ node' = node
        /\ bucket'[r] = 0 /\ ents'[r] = << >> /\ before'[r] = {}
    BY <1>6 DEF WalkReturns, TypeOK
  <2> QED BY <2>1, <1>00, <1>000 DEF WalkOK
<1>7. ASSUME (\E f \in FiberId : OpenFile(r, f)) \/ FiberRead(r) \/ CloseFile(r)
      PROVE  WalkOK(r)'
  <2>1. /\ rpc[r] \in {"idle", "file", "eof"} /\ rpc'[r] \in {"idle", "file", "eof"}
        /\ UNCHANGED walk
    BY <1>7 DEF OpenFile, FiberRead, CloseFile, TypeOK
  <2> QED BY <2>1, <1>00, <1>000 DEF WalkOK, walk
<1> QED BY <1>1, <1>2, <1>3, <1>4, <1>5, <1>6, <1>7

LEMMA QuietKept ==
  ASSUME TypeOK, CreatorInv, NEW r \in Reader, WalkOK(r), QuietOK(r), Next
  PROVE  QuietOK(r)'
<1> USE Ids, FiberTableAssumption
<1>1. ASSUME NEW t \in Thread, Reserve(t)
      PROVE  QuietOK(r)'
  BY <1>1 DEF QuietOK, Reserve
<1>2. ASSUME NEW t \in Thread, HashAdd(t) \/ HashLink(t) \/ Fill(t)
      PROVE  QuietOK(r)'
  <2>1. pc[t] # "user" /\ rpc' = rpc /\ quiet' = quiet
    BY <1>2 DEF HashAdd, HashLink, Fill
  <2> QED BY <2>1 DEF QuietOK
<1>3. ASSUME NEW f \in FiberId, Switch(f) \/ Count(f)
      PROVE  QuietOK(r)'
  BY <1>3 DEF QuietOK, Switch, Count, table, creator, walk
<1>4. ASSUME NEW q \in Reader, q # r,
             \/ CountFibers(q) \/ WalkFiber(q) \/ WalkBucket(q)
             \/ WalkEnds(q) \/ WalkReturns(q)
             \/ \E f \in FiberId : OpenFile(q, f)
             \/ FiberRead(q) \/ CloseFile(q)
      PROVE  QuietOK(r)'
  <2>1. /\ rpc'[r] = rpc[r] /\ nents'[r] = nents[r] /\ ents'[r] = ents[r]
        /\ before'[r] = before[r] /\ quiet'[r] = quiet[r]
    BY <1>4, OtherReader
  <2>2. lastId' = lastId /\ pc' = pc
    BY <1>4 DEF CountFibers, WalkFiber, WalkBucket, WalkEnds, WalkReturns,
                OpenFile, FiberRead, CloseFile, table, creator
  <2> QED BY <2>1, <2>2 DEF QuietOK
<1>5. ASSUME CountFibers(r)
      PROVE  QuietOK(r)'
  <2>1. /\ rpc[r] = "idle" /\ nents'[r] = lastId /\ before'[r] = returned
        /\ lastId' = lastId /\ pc' = pc /\ ents' = ents
    BY <1>5 DEF CountFibers, ArraySize, TypeOK, table, creator
  <2>2. quiet'[r] <=> \A t \in Thread : pc[t] = "user"
    BY <1>5, Zenon DEF CountFibers, TypeOK
  <2>3. ents[r] = << >>
    BY <2>1 DEF WalkOK
  <2>4. ASSUME \A t \in Thread : pc[t] = "user"
        PROVE  returned = 1..lastId
    <3>1. \A t \in Thread : cur[t] = NoFiber
      BY <2>4 DEF CreatorInv
    <3>2. NoFiber \notin 1..lastId
      BY DEF TypeOK
    <3> QED BY <3>1, <3>2 DEF CreatorInv
  <2> QED BY <2>1, <2>2, <2>3, <2>4 DEF QuietOK
<1>6. ASSUME WalkFiber(r)
      PROVE  QuietOK(r)'
  <2> DEFINE s == ents[r]
             x == [fiber |-> node[r], named |-> node[r] \in named]
  <2>1. /\ rpc[r] = "walk" /\ rpc' = rpc /\ nents' = nents /\ before' = before
        /\ quiet' = quiet /\ lastId' = lastId /\ pc' = pc
        /\ ents'[r] = Append(s, x) /\ node[r] # NoFiber
    BY <1>6 DEF WalkFiber, TypeOK, table, creator
  <2> SUFFICES ASSUME quiet[r]
               PROVE  QuietOK(r)'
    BY <2>1 DEF QuietOK
  <2>2. /\ \A t \in Thread : pc[t] = "user"
        /\ before[r] = 1..lastId /\ nents[r] = lastId
        /\ \A i \in 1..Len(s) : s[i].named
    BY <2>1 DEF QuietOK
  <2>3. node[r] \in named
    <3>1. node[r] \in 1..lastId
      BY <2>1 DEF WalkOK, Linked
    <3> QED BY <3>1, <2>2 DEF CreatorInv
  <2>4. x.named
    BY <2>3
  <2>5. s \in Seq([fiber : FiberId, named : BOOLEAN])
    BY DEF TypeOK
  <2> HIDE DEF s, x
  <2>6. /\ Len(Append(s, x)) = Len(s) + 1 /\ Len(s) \in Nat
        /\ Append(s, x)[Len(s) + 1] = x
        /\ \A i \in 1..Len(s) : Append(s, x)[i] = s[i]
    BY <2>5
  <2>7. \A i \in 1..Len(Append(s, x)) : i \in 1..Len(s) \/ i = Len(s) + 1
    BY <2>6
  <2>8. \A i \in 1..Len(Append(s, x)) : Append(s, x)[i].named
    BY <2>2, <2>4, <2>6, <2>7
  <2> QED BY <2>1, <2>2, <2>8 DEF QuietOK
<1>7. ASSUME WalkBucket(r) \/ WalkEnds(r)
      PROVE  QuietOK(r)'
  <2>1. /\ rpc[r] = "walk" /\ UNCHANGED <<lastId, pc, nents, ents, before, quiet>>
    BY <1>7 DEF WalkBucket, WalkEnds, table, creator, walk
  <2> QED BY <2>1 DEF QuietOK
<1>8. ASSUME WalkReturns(r) \/ (\E f \in FiberId : OpenFile(r, f)) \/ FiberRead(r)
               \/ CloseFile(r)
      PROVE  QuietOK(r)'
  <2>1. rpc'[r] \in {"idle", "file", "eof"}
    BY <1>8 DEF WalkReturns, OpenFile, FiberRead, CloseFile, TypeOK
  <2> QED BY <2>1 DEF QuietOK
<1> QED BY <1>1, <1>2, <1>3, <1>4, <1>5, <1>6, <1>7, <1>8 DEF Next

LEMMA ReadKept ==
  ASSUME TypeOK, NEW r \in Reader, ReadOK(r), Next
  PROVE  ReadOK(r)'
<1> USE FiberTableAssumption
<1>1. ASSUME off'[r] = off[r], got'[r] = got[r], r \in clipped' <=> r \in clipped
      PROVE  ReadOK(r)'
  BY <1>1 DEF ReadOK
<1>2. ASSUME NEW t \in Thread, Reserve(t) \/ HashAdd(t) \/ HashLink(t) \/ Fill(t)
      PROVE  ReadOK(r)'
  BY <1>1, <1>2 DEF Reserve, HashAdd, HashLink, Fill, reads
<1>3. ASSUME NEW f \in FiberId, Switch(f) \/ Count(f)
      PROVE  ReadOK(r)'
  BY <1>1, <1>3 DEF Switch, Count, reads
<1>4. ASSUME NEW q \in Reader,
             \/ CountFibers(q) \/ WalkFiber(q) \/ WalkBucket(q)
             \/ WalkEnds(q) \/ WalkReturns(q)
             \/ \E f \in FiberId : OpenFile(q, f)
      PROVE  ReadOK(r)'
  BY <1>1, <1>4 DEF CountFibers, WalkFiber, WalkBucket, WalkEnds, WalkReturns,
                    OpenFile, reads
<1>5. ASSUME NEW q \in Reader, FiberRead(q)
      PROVE  ReadOK(r)'
  <2>1. CASE UNCHANGED <<off, got, clipped>>
    BY <2>1, <1>1
  <2>2. ASSUME NEW text \in MinText..MaxText, NEW i \in Nat \ {0},
               off[q] < text,
               off' = [off EXCEPT ![q] = off[q] + i],
               got' = [got EXCEPT ![q] = Append(got[q], i)],
               clipped' = clipped \cup {q} \/ (clipped' = clipped /\ i = text)
        PROVE  ReadOK(r)'
    <3>1. CASE q # r
      <4>1. off'[r] = off[r] /\ got'[r] = got[r] /\ (r \in clipped' <=> r \in clipped)
        BY <2>2, <3>1 DEF TypeOK
      <4> QED BY <4>1, <1>1
    <3>2. CASE q = r
      <4>1. /\ got[r] \in Seq(Nat) /\ off[r] \in Nat
            /\ off'[r] = off[r] + i /\ got'[r] = Append(got[r], i)
        BY <2>2, <3>2 DEF TypeOK
      <4>2. /\ Len(got[r]) \in Nat /\ Len(got'[r]) = Len(got[r]) + 1
            /\ got'[r][Len(got[r]) + 1] = i
            /\ \A j \in 1..Len(got[r]) : got'[r][j] = got[r][j]
        BY <4>1
      <4>3. /\ Len(got'[r]) <= off'[r]
            /\ Len(got'[r]) <= MaxText
        BY <2>2, <3>2, <4>1, <4>2 DEF ReadOK, MaxText
      <4>4. CASE r \in clipped'
        BY <4>3, <4>4 DEF ReadOK
      <4>5. CASE r \notin clipped'
        <5>1. r \notin clipped /\ i = text
          BY <2>2, <3>2, <4>5
        <5>2. CASE Len(got[r]) = 0
          <6>1. off'[r] = got'[r][1] /\ off'[r] >= MinText
            BY <4>1, <4>2, <5>1, <5>2 DEF ReadOK
          <6> QED BY <4>2, <4>3, <5>2, <6>1 DEF ReadOK
        <5>3. CASE Len(got[r]) = 1
          <6>1. got[r][1] = off[r] /\ off[r] >= MinText /\ off[r] < i
            BY <2>2, <3>2, <5>1, <5>3 DEF ReadOK
          <6>2. got'[r][1] < got'[r][2]
            BY <4>2, <5>3, <6>1
          <6>3. off'[r] >= MaxText
            BY <4>1, <5>1, <6>1 DEF MaxText
          <6> QED BY <4>2, <4>3, <5>3, <6>2, <6>3 DEF ReadOK
        <5>4. CASE Len(got[r]) = 2
          BY <2>2, <3>2, <4>1, <5>1, <5>4 DEF ReadOK, MaxText
        <5>5. Len(got[r]) \in Nat /\ Len(got[r]) <= 2
          BY <4>2, <5>1 DEF ReadOK
        <5>6. Len(got[r]) = 0 \/ Len(got[r]) = 1 \/ Len(got[r]) = 2
          <6>1. \A n \in Nat : n <= 2 => n = 0 \/ n = 1 \/ n = 2
            OBVIOUS
          <6> QED BY <5>5, <6>1, Zenon
        <5> QED BY <5>2, <5>3, <5>4, <5>6
      <4> QED BY <4>4, <4>5
    <3> QED BY <3>1, <3>2
  <2> QED BY <1>5, <2>1, <2>2, ReadSteps
<1>6. ASSUME NEW q \in Reader, CloseFile(q)
      PROVE  ReadOK(r)'
  <2>1. CASE q = r
    <3>1. off'[r] = 0 /\ got'[r] = << >>
      BY <1>6, <2>1 DEF CloseFile, TypeOK
    <3> QED BY <3>1 DEF ReadOK, MaxText
  <2>2. CASE q # r
    <3>1. off'[r] = off[r] /\ got'[r] = got[r] /\ (r \in clipped' <=> r \in clipped)
      BY <1>6, <2>2 DEF CloseFile, TypeOK
    <3> QED BY <3>1, <1>1
  <2> QED BY <2>1, <2>2
<1> QED BY <1>2, <1>3, <1>4, <1>5, <1>6 DEF Next

-----------------------------------------------------------------------------
(***************************************************************************)
(* The theorems                                                            *)
(***************************************************************************)

LEMMA InitTable == Init => TableInv
<1> SUFFICES ASSUME Init
             PROVE  TableInv
  OBVIOUS
<1> USE FiberTableAssumption, Ids
<1>1. TypeOK
  <2>1. ents \in [Reader -> Seq([fiber : FiberId, named : BOOLEAN])]
    <3> DEFINE E == [fiber : FiberId, named : BOOLEAN]
    <3> HIDE DEF E
    <3>1. << >> \in Seq(E)
      OBVIOUS
    <3>2. ents \in [Reader -> Seq(E)]
      BY <3>1 DEF Init
    <3> QED BY <3>2 DEF E
  <2>2. got \in [Reader -> Seq(Nat)]
    BY DEF Init
  <2> QED BY <2>1, <2>2 DEF Init, TypeOK
<1>2. CreatorInv
  BY DEF Init, CreatorInv
<1>3. Linked = {}
  BY DEF Init, Linked
<1>4. ListInv
  <2>1. \A b \in 0..(Buckets - 1) : first[b] = NoFiber
    BY DEF Init
  <2>2. \A f \in FiberId : next[f] = NoFiber
    BY DEF Init
  <2> QED BY <2>1, <2>2, ReachNothing DEF ListInv
<1>5. RaceInv
  BY <1>3 DEF Init, RaceInv
<1>6. ASSUME NEW r \in Reader
      PROVE  WalkOK(r) /\ QuietOK(r) /\ ReadOK(r)
  <2>1. /\ node[r] = NoFiber /\ rpc[r] = "idle" /\ ents[r] = << >> /\ bucket[r] = 0
        /\ before[r] = {} /\ got[r] = << >> /\ off[r] = 0
    BY DEF Init
  <2> QED BY <2>1 DEF WalkOK, QuietOK, ReadOK, MaxText
<1> QED BY <1>1, <1>2, <1>4, <1>5, <1>6 DEF TableInv

LEMMA TableStep == TableInv /\ [Next]_vars => TableInv'
<1> SUFFICES ASSUME TableInv, [Next]_vars
             PROVE  TableInv'
  OBVIOUS
<1>1. TypeOK'
  BY TypeKept DEF TableInv
<1>2. CASE UNCHANGED vars
  <2>1. UNCHANGED <<lastId, first, next, named, pc, cur, returned, raced, rpc, nents,
                    bucket, node, ents, off, got, clipped, before, quiet>>
    BY <1>2 DEF vars, table, creator, walk, reads
  <2>2. Linked' = Linked
    BY <2>1 DEF Linked
  <2> QED BY <1>1, <2>1, <2>2 DEF TableInv, CreatorInv, ListInv, RaceInv,
                                  WalkOK, QuietOK, ReadOK
<1>3. ASSUME NEW t \in Thread, Reserve(t) \/ HashAdd(t) \/ HashLink(t) \/ Fill(t)
      PROVE  TableInv'
  <2>1. Next
    BY <1>3 DEF Next
  <2>2. CreatorInv' /\ ListInv' /\ RaceInv'
    BY <1>3, CreatorKept, ListKept, RaceKept DEF TableInv
  <2>3. \A r \in Reader : WalkOK(r)'
    BY <1>3, WalkKeptByCreators DEF TableInv
  <2>4. \A r \in Reader : QuietOK(r)' /\ ReadOK(r)'
    BY <2>1, QuietKept, ReadKept DEF TableInv
  <2> QED BY <1>1, <2>2, <2>3, <2>4 DEF TableInv
<1>4. ASSUME NEW f \in FiberId, Switch(f) \/ Count(f)
      PROVE  TableInv'
  <2>1. Next /\ UNCHANGED <<table, creator, rpc, walk>>
    BY <1>4 DEF Next, Switch, Count
  <2>2. CreatorInv' /\ ListInv' /\ RaceInv' /\ Linked' = Linked
    BY <2>1, ReaderStep DEF TableInv
  <2>3. \A r \in Reader : WalkOK(r)'
    BY <2>1, <2>2, StillWalks DEF TableInv, table, creator, walk
  <2>4. \A r \in Reader : QuietOK(r)' /\ ReadOK(r)'
    BY <2>1, QuietKept, ReadKept DEF TableInv
  <2> QED BY <1>1, <2>2, <2>3, <2>4 DEF TableInv
<1>5. ASSUME NEW q \in Reader,
             \/ CountFibers(q) \/ WalkFiber(q) \/ WalkBucket(q)
             \/ WalkEnds(q) \/ WalkReturns(q)
             \/ \E f \in FiberId : OpenFile(q, f)
             \/ FiberRead(q) \/ CloseFile(q)
      PROVE  TableInv'
  <2>1. Next
    BY <1>5 DEF Next
  <2>2. UNCHANGED <<table, creator>>
    BY <1>5 DEF CountFibers, WalkFiber, WalkBucket, WalkEnds, WalkReturns,
                OpenFile, FiberRead, CloseFile
  <2>3. CreatorInv' /\ ListInv' /\ RaceInv'
    BY <2>2, ReaderStep DEF TableInv
  <2>4. \A r \in Reader : WalkOK(r)'
    BY <1>5, WalkKeptByReaders DEF TableInv
  <2>5. \A r \in Reader : QuietOK(r)' /\ ReadOK(r)'
    BY <2>1, QuietKept, ReadKept DEF TableInv
  <2> QED BY <1>1, <2>3, <2>4, <2>5 DEF TableInv
<1> QED BY <1>2, <1>3, <1>4, <1>5 DEF Next

\* The lists of the table, the creators of fibers and the readers keep their
\* invariant whatever the interleaving.
THEOREM TableInvariant == Spec => []TableInv
<1> QED BY InitTable, TableStep, PTL DEF Spec

\* The types of the table, its creators and its readers.
THEOREM TypesKept == Spec => []TypeOK
<1>1. TableInv => TypeOK
  BY DEF TableInv
<1> QED BY <1>1, TableInvariant, PTL

\* init_fiber loses a fiber that a call has returned only to another one that
\* was added to the same bucket at the same time.
THEOREM OnlyRacesLoseFibers == Spec => []OnlyRacesLose
<1>1. TableInv => OnlyRacesLose
  <2> SUFFICES ASSUME TableInv, NEW f \in returned \ raced
               PROVE  f \in FiberId /\ Found(f)
    BY DEF OnlyRacesLose
  <2>1. f \in Linked /\ f \in FiberId
    BY ReturnedLinked, LinkedTyped DEF TableInv
  <2> QED BY <2>1 DEF TableInv, RaceInv, Found, InBucket
<1> QED BY <1>1, TableInvariant, PTL

\* A reader that walks the table while fibers are added meets each fiber that
\* was there before, with its name, and none twice.
THEOREM WalksAreComplete == Spec => []WalkComplete
<1>1. TableInv => WalkComplete
  <2> SUFFICES ASSUME TableInv, NEW r \in Reader, rpc[r] = "done"
               PROVE  /\ \A f \in before[r] \ raced :
                           \E i \in 1..Len(ents[r]) :
                             ents[r][i] = [fiber |-> f, named |-> TRUE]
                      /\ \A i, j \in 1..Len(ents[r]) :
                           ents[r][i].fiber = ents[r][j].fiber => i = j
    BY DEF WalkComplete
  <2>1. TypeOK /\ WalkOK(r)
    BY DEF TableInv
  <2>2. node[r] = NoFiber /\ bucket[r] = Buckets
    BY <2>1 DEF WalkOK
  <2>3. Reach(next, node[r]) = {}
    BY <2>2, ReachNothing
  <2>4. ASSUME NEW f \in before[r]
        PROVE  ~(Bucket(f) >= bucket[r])
    <3>1. f \in FiberId
      BY <2>1 DEF TypeOK
    <3>2. Bucket(f) \in 0..(Buckets - 1)
      BY <3>1, BucketRange, Ids
    <3> QED BY <3>2, <2>2, FiberTableAssumption
  <2> QED BY <2>1, <2>3, <2>4 DEF WalkOK
<1> QED BY <1>1, TableInvariant, PTL

\* A walk during which nobody creates a fiber fills the array exactly: it has
\* one entry for each id, since the entries and the ids are as many.
THEOREM QuietListings == Spec => []QuietListing
<1>1. TableInv => QuietListing
  <2> SUFFICES ASSUME TableInv, NEW r \in Reader,
                      rpc[r] = "done", quiet[r], raced = {}
               PROVE  /\ {ents[r][i] : i \in Shown(r)} =
                           {[fiber |-> f, named |-> TRUE] : f \in 1..lastId}
                      /\ Zeroed(r) = {} /\ Len(ents[r]) = nents[r]
    BY DEF QuietListing
  <2> DEFINE s == ents[r]
  <2>1. TypeOK /\ WalkOK(r) /\ QuietOK(r)
    BY DEF TableInv
  <2>2. before[r] = 1..lastId /\ nents[r] = lastId /\ lastId \in Nat
    BY <2>1 DEF QuietOK, TypeOK
  <2>3. \A i \in 1..Len(s) : s[i].named
    BY <2>1 DEF QuietOK
  <2>4. /\ s \in Seq([fiber : FiberId, named : BOOLEAN])
        /\ Len(s) \in Nat
        /\ \A i \in 1..Len(s) : s[i] \in [fiber : FiberId, named : BOOLEAN]
    <3> DEFINE E == [fiber : FiberId, named : BOOLEAN]
    <3>1. s \in Seq(E)
      BY <2>1 DEF TypeOK
    <3> HIDE DEF s, E
    <3>2. Len(s) \in Nat /\ \A i \in 1..Len(s) : s[i] \in E
      BY <3>1
    <3> QED BY <3>1, <3>2 DEF E
  <2>5. \A i \in 1..Len(s) : s[i].fiber \in 1..lastId
    BY <2>1, LinkedTyped DEF WalkOK
  <2>6. \A i, j \in 1..Len(s) : s[i].fiber = s[j].fiber => i = j
    BY <2>1 DEF WalkOK
  <2>7. \A i \in 1..Len(s) : s[i] = [fiber |-> s[i].fiber, named |-> TRUE]
    BY <2>3, <2>4
  <2>8. \A f \in 1..lastId : \E i \in 1..Len(s) : s[i] = [fiber |-> f, named |-> TRUE]
    <3>1. Reach(next, node[r]) = {} /\ bucket[r] = Buckets
      BY <2>1, ReachNothing DEF WalkOK
    <3>2. ASSUME NEW f \in 1..lastId
          PROVE  ~(Bucket(f) >= Buckets)
      <4>1. Bucket(f) \in 0..(Buckets - 1)
        BY BucketRange
      <4> QED BY <4>1, FiberTableAssumption
    <3> QED BY <3>1, <3>2, <2>1, <2>2 DEF WalkOK
  <2>9. Len(s) = lastId
    <3> DEFINE F == [i \in 1..Len(s) |-> s[i].fiber]
    <3> HIDE DEF s
    <3>1. F \in [1..Len(s) -> 1..lastId]
      BY <2>5
    <3>2. \A i, j \in 1..Len(s) : F[i] = F[j] => i = j
      BY <2>6
    <3>3. ASSUME NEW f \in 1..lastId
          PROVE  \E i \in 1..Len(s) : F[i] = f
      <4>1. PICK i \in 1..Len(s) : s[i] = [fiber |-> f, named |-> TRUE]
        BY <2>8
      <4> QED BY <4>1
    <3>4. F \in Bijection(1..Len(s), 1..lastId)
      BY <3>1, <3>2, <3>3 DEF Bijection, Injection, Surjection, IsInjective
    <3>5. ExistsBijection(1..Len(s), 1..lastId)
      BY <3>4 DEF ExistsBijection
    <3>6. \A n \in Nat : IsFiniteSet(1..n) /\ Cardinality(1..n) = n
      BY FS_Interval
    <3>7. Cardinality(1..Len(s)) = Len(s) /\ Cardinality(1..lastId) = lastId
      BY <2>2, <2>4, <3>6
    <3> QED BY <2>4, <3>5, <3>6, <3>7, FS_Bijection
  <2>10. Shown(r) = 1..Len(s) /\ Zeroed(r) = {}
    BY <2>2, <2>4, <2>9 DEF Shown, Zeroed
  <2> HIDE DEF s
  <2>11. {s[i] : i \in 1..Len(s)} = {[fiber |-> f, named |-> TRUE] : f \in 1..lastId}
    <3>1. ASSUME NEW i \in 1..Len(s)
          PROVE  s[i] \in {[fiber |-> f, named |-> TRUE] : f \in 1..lastId}
      BY <2>5, <2>7
    <3>2. ASSUME NEW f \in 1..lastId
          PROVE  [fiber |-> f, named |-> TRUE] \in {s[i] : i \in 1..Len(s)}
      BY <2>8
    <3> QED BY <3>1, <3>2
  <2> QED BY <2>2, <2>9, <2>10, <2>11 DEF s
<1> QED BY <1>1, TableInvariant, PTL

\* Readers of a fiber's file get a whole text, and a second one only when the
\* text has grown after the first, if their buffers hold it; with any buffers
\* they come to the end of the file.
THEOREM TextsOnceOrTwice == Spec => []TextOnceOrTwice
<1>1. TableInv => TextOnceOrTwice
  BY DEF TableInv, ReadOK, TextOnceOrTwice
<1> QED BY <1>1, TableInvariant, PTL

=============================================================================
