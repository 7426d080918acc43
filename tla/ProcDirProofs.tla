--------------------------- MODULE ProcDirProofs ----------------------------
(***************************************************************************)
(* Proofs about ProcDir for any number of readers, any size of the         *)
(* kernel's array and any buffers.  What is said of the listings holds     *)
(* unless the call that stored nents was cut short (cut); what is said of  *)
(* the lookups holds also then.                                            *)
(***************************************************************************)
EXTENDS ProcDir, SequenceTheorems, TLAPS

\* The listing of a process that has fibers, up to its n-th entry.
Entry(i)  == IF i <= TgidBaseStuff + 2 THEN i - 1 ELSE Fibers
Prefix(n) == [i \in 1..n |-> Entry(i)]

TypeOK ==
  /\ nents \in {0, TgidBaseStuff + 2}
  /\ fiberized \in BOOLEAN
  /\ pos \in [Reader -> 0..(TgidBaseStuff + 3)]
  /\ size \in [Reader -> Nat]
  /\ room \in [Reader -> Nat]
  /\ listed \in [Reader -> Seq(Nat \cup {Fibers})]
  /\ was \in [Reader -> SUBSET BOOLEAN]
  /\ pc \in [Reader -> {"user", "check", "lock", "insert", "return"}]

\* What holds of one reader between any two steps: it has got the first
\* entries of the listing; a call that is under way has filled its buffer or
\* passed the end of the kernel's array; and its last step was taken with
\* nents set.
ReaderOK(r) ==
  /\ listed[r] = Prefix(pos[r])
  /\ fiberized \in was[r]
  /\ pos[r] = TgidBaseStuff + 3 => nents # 0 /\ TRUE \in was[r]
  /\ pc[r] # "user" =>
       /\ pos[r] >= TgidBaseStuff + 2 \/ room[r] = 0
       /\ size[r] > 0 /\ room[r] <= size[r]
  /\ pc[r] \in {"insert", "return"} => nents # 0
  /\ pc[r] = "return" /\ room[r] = size[r] /\ FALSE \notin was[r]
       => pos[r] = TgidBaseStuff + 3

Listings == TypeOK /\ \A r \in Reader : ReaderOK(r)
ListingInv == ~cut => Listings

-----------------------------------------------------------------------------

LEMMA PrefixType ==
  ASSUME NEW n \in Nat
  PROVE  Prefix(n) \in Seq(Nat \cup {Fibers})
<1> DEFINE S == Nat \cup {Fibers}
<1>1. ASSUME NEW i \in 1..n PROVE Entry(i) \in S
  BY DEF Entry
<1> HIDE DEF S
<1>2. Prefix(n) \in [1..n -> S]
  BY <1>1 DEF Prefix
<1> QED BY <1>2 DEF S

\* Emitting the next k entries of the listing extends the prefix by k.
LEMMA PrefixExtends ==
  ASSUME NEW n \in Nat, NEW k \in Nat, NEW s,
         s = [i \in 1..k |-> Entry(n + i)]
  PROVE  Prefix(n) \o s = Prefix(n + k)
<1> DEFINE S == Nat \cup {Fibers}
<1>1. Prefix(n) \in Seq(S) /\ Len(Prefix(n)) = n
  BY ProcDirAssumption DEF Prefix, Entry
<1>2. s \in Seq(S) /\ Len(s) = k
  BY ProcDirAssumption DEF Entry
<1>3. Prefix(n + k) \in Seq(S) /\ Len(Prefix(n + k)) = n + k
  BY ProcDirAssumption DEF Prefix, Entry
<1> HIDE DEF S
<1>0. /\ Prefix(n) \o s \in Seq(S)
      /\ Len(Prefix(n) \o s) = Len(Prefix(n)) + Len(s)
      /\ \A i \in 1..(Len(Prefix(n)) + Len(s)) : (Prefix(n) \o s)[i] =
           IF i <= Len(Prefix(n)) THEN Prefix(n)[i] ELSE s[i - Len(Prefix(n))]
  BY <1>1, <1>2, ConcatProperties, Zenon
<1>4. /\ Prefix(n) \o s \in Seq(S)
      /\ Len(Prefix(n) \o s) = n + k
      /\ \A i \in 1..(n + k) : (Prefix(n) \o s)[i] =
           IF i <= n THEN Prefix(n)[i] ELSE s[i - n]
  BY <1>0, <1>1, <1>2
<1>5. ASSUME NEW i \in 1..(n + k)
      PROVE  (Prefix(n) \o s)[i] = Prefix(n + k)[i]
  <2>1. CASE i <= n
    BY <1>4, <2>1 DEF Prefix
  <2>2. CASE ~(i <= n)
    <3>1. i - n \in 1..k /\ n + (i - n) = i
      BY <2>2
    <3>2. s[i - n] = Entry(i)
      BY <3>1
    <3> QED BY <1>4, <2>2, <3>2 DEF Prefix
  <2> QED BY <2>1, <2>2
<1> QED
  BY <1>3, <1>4, <1>5, SeqEqual

-----------------------------------------------------------------------------

\* A call of the kernel's function takes the reader to the end of the array or
\* of its buffer, and hands it the entries in between.
LEMMA GetdentsInv ==
  ASSUME Listings, NEW r \in Reader, Getdents(r)
  PROVE  Listings'
<1>0. TgidBaseStuff \in Nat /\ Room \subseteq Nat \ {0}
  BY ProcDirAssumption
<1>1. PICK free \in Room : /\ size' = [size EXCEPT ![r] = free]
                           /\ Emit(r, LAMBDA p : p, TgidBaseStuff, free)
  BY DEF Getdents
<1> DEFINE left == IF pos[r] >= TgidBaseStuff + 2
                     THEN 0 ELSE TgidBaseStuff + 2 - pos[r]
           k    == IF left < free THEN left ELSE free
           new  == [i \in 1..k |-> pos[r] + i - 1]
<1>2. pos[r] \in 0..(TgidBaseStuff + 3) /\ free \in Nat /\ free > 0
  BY <1>0, <1>1 DEF Listings, TypeOK
<1>3. /\ pos' = [pos EXCEPT ![r] = pos[r] + k]
      /\ room' = [room EXCEPT ![r] = free - k]
      /\ listed' = [listed EXCEPT ![r] = listed[r] \o new]
  BY <1>1, Zenon DEF Emit
<1>4. /\ left \in Nat
      /\ pos[r] + left \in 0..(TgidBaseStuff + 3)
      /\ pos[r] + left >= TgidBaseStuff + 2
      /\ left # 0 => pos[r] + left = TgidBaseStuff + 2
  BY <1>0, <1>2
<1> HIDE DEF left
<1>5. /\ k \in Nat /\ k <= free /\ k <= left
      /\ k = left \/ free - k = 0
  BY <1>2, <1>4
<1> HIDE DEF k
<1>6. /\ pos[r] + k \in 0..(TgidBaseStuff + 3)
      /\ pos[r] + k >= TgidBaseStuff + 2 \/ free - k = 0
      /\ pos[r] + k = TgidBaseStuff + 3 => pos[r] = TgidBaseStuff + 3
      /\ k # 0 => pos[r] + k <= TgidBaseStuff + 2
      /\ free - k \in Nat /\ free - k <= free
  BY <1>0, <1>2, <1>4, <1>5
<1>7. listed[r] \o new = Prefix(pos[r] + k)
  <2>1. new = [i \in 1..k |-> Entry(pos[r] + i)]
    <3>1. ASSUME NEW i \in 1..k PROVE pos[r] + i - 1 = Entry(pos[r] + i)
      BY <1>0, <1>2, <1>5, <1>6 DEF Entry
    <3> QED BY <3>1
  <2> HIDE DEF new
  <2>2. pos[r] \in Nat
    BY <1>0, <1>2
  <2>3. Prefix(pos[r]) \o new = Prefix(pos[r] + k)
    BY <1>5, <2>1, <2>2, PrefixExtends, Zenon
  <2> QED BY <2>3 DEF Listings, ReaderOK
<1>8. Prefix(pos[r] + k) \in Seq(Nat \cup {Fibers})
  <2>1. pos[r] + k \in Nat
    BY <1>0, <1>6
  <2> QED BY <2>1, PrefixType
<1> HIDE DEF new
<1>9. TypeOK'
  BY <1>0, <1>1, <1>2, <1>3, <1>6, <1>7, <1>8 DEF Listings, TypeOK, Getdents
<1>10. ASSUME NEW q \in Reader PROVE ReaderOK(q)'
  <2>1. CASE q = r
    <3>1. /\ pos'[r] = pos[r] + k /\ room'[r] = free - k /\ size'[r] = free
          /\ listed'[r] = Prefix(pos[r] + k) /\ pc'[r] = "check"
          /\ UNCHANGED <<nents, fiberized, was>>
      BY <1>1, <1>3, <1>7 DEF Listings, TypeOK, Getdents
    <3>2. /\ fiberized \in was[r]
          /\ pos[r] = TgidBaseStuff + 3 => nents # 0 /\ TRUE \in was[r]
      BY DEF Listings, ReaderOK
    <3> QED BY <1>2, <1>6, <2>1, <3>1, <3>2 DEF ReaderOK, Prefix
  <2>2. CASE q # r
    BY <1>1, <1>3, <2>2 DEF Listings, TypeOK, ReaderOK, Getdents, Prefix
  <2> QED BY <2>1, <2>2
<1> QED BY <1>9, <1>10 DEF Listings

\* The module's second call: one entry, if it has not been given and fits.
LEMMA InsertDirInv ==
  ASSUME Listings, NEW r \in Reader, InsertDir(r)
  PROVE  Listings'
<1>0. /\ TgidBaseStuff \in Nat
      /\ pc[r] = "insert"
      /\ nents = TgidBaseStuff + 2
      /\ pos[r] \in 0..(TgidBaseStuff + 3)
      /\ pos[r] >= TgidBaseStuff + 2 \/ room[r] = 0
      /\ room[r] \in Nat /\ size[r] \in Nat
  <2>1. pc[r] = "insert" /\ ReaderOK(r) /\ TypeOK /\ TgidBaseStuff \in Nat
    BY ProcDirAssumption DEF InsertDir, Listings
  <2>2. nents = TgidBaseStuff + 2
    BY <2>1 DEF TypeOK, ReaderOK
  <2>3. /\ pos[r] \in 0..(TgidBaseStuff + 3)
        /\ pos[r] >= TgidBaseStuff + 2 \/ room[r] = 0
    BY <2>1 DEF TypeOK, ReaderOK
  <2> QED BY <2>1, <2>2, <2>3 DEF TypeOK
<1>1. CASE ~fiberized /\ UNCHANGED <<pos, room, listed>>
  <2>1. TypeOK'
    BY <1>1 DEF Listings, TypeOK, InsertDir
  <2>2. ASSUME NEW q \in Reader PROVE ReaderOK(q)'
    BY <1>0, <1>1 DEF Listings, TypeOK, ReaderOK, InsertDir, Prefix
  <2> QED BY <2>1, <2>2 DEF Listings
<1>2. CASE fiberized /\ Emit(r, Additional, nents - 1, room[r])
  <2> DEFINE left == IF pos[r] = TgidBaseStuff + 3 THEN 0 ELSE TgidBaseStuff + 3 - pos[r]
             k    == IF left < room[r] THEN left ELSE room[r]
             new  == [i \in 1..k |-> Additional(pos[r] + i - 1)]
  <2>1. /\ pos' = [pos EXCEPT ![r] = pos[r] + k]
        /\ room' = [room EXCEPT ![r] = room[r] - k]
        /\ listed' = [listed EXCEPT ![r] = listed[r] \o new]
    <3> DEFINE left2 == IF pos[r] >= nents - 1 + 2
                          THEN 0 ELSE nents - 1 + 2 - pos[r]
               k2    == IF left2 < room[r] THEN left2 ELSE room[r]
    <3>1. /\ pos' = [pos EXCEPT ![r] = pos[r] + k2]
          /\ room' = [room EXCEPT ![r] = room[r] - k2]
          /\ listed' = [listed EXCEPT ![r] = listed[r] \o
                          [i \in 1..k2 |-> Additional(pos[r] + i - 1)]]
      BY <1>2, Zenon DEF Emit
    <3>2. k2 = k
      BY <1>0
    <3> HIDE DEF k2, k
    <3> QED BY <3>1, <3>2
  <2>2. /\ k \in Nat /\ pos[r] + k \in 0..(TgidBaseStuff + 3)
        /\ pos[r] + k >= TgidBaseStuff + 2 \/ room[r] - k = 0
        /\ k # 0 => k = 1 /\ pos[r] = TgidBaseStuff + 2
        /\ room[r] - k \in Nat /\ room[r] - k <= room[r]
        /\ room[r] - k = size[r] /\ room[r] <= size[r] /\ size[r] > 0
             => pos[r] + k = TgidBaseStuff + 3
    BY <1>0
  <2>3. listed[r] \o new = Prefix(pos[r] + k)
    <3> HIDE DEF k
    <3>1. new = [i \in 1..k |-> Entry(pos[r] + i)]
      <4>1. ASSUME NEW i \in 1..k
            PROVE  Additional(pos[r] + i - 1) = Entry(pos[r] + i)
        BY <1>0, <2>2 DEF Entry, Additional
      <4> QED BY <4>1
    <3> HIDE DEF new
    <3>2. pos[r] \in Nat
      BY <1>0
    <3>3. Prefix(pos[r]) \o new = Prefix(pos[r] + k)
      BY <2>2, <3>1, <3>2, PrefixExtends, Zenon
    <3> QED BY <3>3 DEF Listings, ReaderOK
  <2>4. Prefix(pos[r] + k) \in Seq(Nat \cup {Fibers})
    <3> HIDE DEF left, k
    <3>1. pos[r] + k \in Nat
      BY <1>0, <2>2
    <3> QED BY <3>1, PrefixType
  <2> HIDE DEF left, k, new
  <2>5. TypeOK'
    BY <1>0, <2>1, <2>2, <2>3, <2>4 DEF Listings, TypeOK, InsertDir
  <2>6. ASSUME NEW q \in Reader PROVE ReaderOK(q)'
    <3>1. CASE q = r
      <4>1. /\ pos'[r] = pos[r] + k /\ room'[r] = room[r] - k
            /\ listed'[r] = Prefix(pos[r] + k)
            /\ pc'[r] = "return"
            /\ UNCHANGED <<nents, fiberized, size, was>>
        BY <2>1, <2>3 DEF Listings, TypeOK, InsertDir
      <4>2. /\ fiberized \in was[r] /\ size[r] > 0 /\ room[r] <= size[r]
            /\ nents # 0
        BY <1>0 DEF Listings, ReaderOK
      <4>3. TRUE \in was[r]
        BY <1>2, <4>2, Zenon
      <4>4. listed'[r] = Prefix(pos'[r])
        BY <4>1
      <4>5. fiberized' \in was'[r] /\ TRUE \in was'[r] /\ nents' # 0
        BY <4>1, <4>2, <4>3
      <4>6. /\ pos'[r] >= TgidBaseStuff + 2 \/ room'[r] = 0
            /\ size'[r] > 0 /\ room'[r] <= size'[r]
            /\ room'[r] = size'[r] => pos'[r] = TgidBaseStuff + 3
        BY <1>0, <2>2, <4>1, <4>2
      <4>7. ReaderOK(r)'
        BY <4>1, <4>4, <4>5, <4>6, Zenon DEF ReaderOK, Prefix
      <4> QED BY <3>1, <4>7
    <3>2. CASE q # r
      BY <1>0, <2>1, <3>2 DEF Listings, TypeOK, ReaderOK, InsertDir, Prefix
    <3> QED BY <3>1, <3>2
  <2> QED BY <2>5, <2>6 DEF Listings
<1> QED BY <1>1, <1>2 DEF InsertDir

\* Every step of every reader, and of the process, preserves the invariant.
LEMMA ListingInvariant == Spec => []ListingInv
<1>0. TgidBaseStuff \in Nat
  BY ProcDirAssumption
<1>1. Init => ListingInv
  <2>1. Prefix(0) = << >>
    BY DEF Prefix
  <2>2. Init => TypeOK
    <3> SUFFICES ASSUME Init PROVE TypeOK
      OBVIOUS
    <3>1. << >> \in Seq(Nat \cup {Fibers})
      OBVIOUS
    <3>2. listed \in [Reader -> Seq(Nat \cup {Fibers})]
      BY <3>1 DEF Init
    <3>3. fiberized \in BOOLEAN /\ was \in [Reader -> SUBSET BOOLEAN]
      BY Zenon DEF Init
    <3>4. /\ nents \in {0, TgidBaseStuff + 2}
          /\ pos \in [Reader -> 0..(TgidBaseStuff + 3)]
          /\ size \in [Reader -> Nat] /\ room \in [Reader -> Nat]
      BY <1>0 DEF Init
    <3>5. pc \in [Reader -> {"user", "check", "lock", "insert", "return"}]
      BY DEF Init
    <3> QED BY <3>2, <3>3, <3>4, <3>5 DEF TypeOK
  <2>3. ASSUME Init, NEW q \in Reader PROVE ReaderOK(q)
    <3>1. /\ listed[q] = << >> /\ pos[q] = 0 /\ pc[q] = "user"
          /\ was[q] = {FALSE} /\ fiberized = FALSE
      BY <2>3 DEF Init
    <3>2. fiberized \in was[q]
      BY <3>1, Zenon
    <3>3. pos[q] # TgidBaseStuff + 3
      BY <1>0, <3>1
    <3> QED BY <2>1, <3>1, <3>2, <3>3 DEF ReaderOK
  <2> QED BY <2>2, <2>3 DEF ListingInv, Listings
<1>2. ListingInv /\ [Next]_vars => ListingInv'
  <2> SUFFICES ASSUME ListingInv, [Next]_vars, ~cut' PROVE Listings'
    BY DEF ListingInv
  <2>0. ~cut /\ Listings
    <3>1. CASE \E r \in Reader : SetNents(r)
      BY <3>1 DEF SetNents, ListingInv
    <3>2. CASE ~\E r \in Reader : SetNents(r)
      <4>1. cut' = cut
        BY <3>2 DEF Next, Change, Getdents, CheckNents, InsertDir, Return, Rewind,
             LookupDir, vars
      <4> QED BY <4>1 DEF ListingInv
    <3> QED BY <3>1, <3>2
  <2>1. CASE Change
    <3>1. TypeOK'
      BY <2>0, <2>1 DEF Change, Listings, TypeOK
    <3>2. ASSUME NEW q \in Reader PROVE ReaderOK(q)'
      BY <2>0, <2>1 DEF Change, Listings, TypeOK, ReaderOK, Prefix
    <3> QED BY <3>1, <3>2 DEF Listings
  <2>2. ASSUME NEW r \in Reader, CheckNents(r) PROVE Listings'
    <3>1. TypeOK'
      BY <2>0, <2>2 DEF CheckNents, Listings, TypeOK
    <3>2. ASSUME NEW q \in Reader PROVE ReaderOK(q)'
      BY <2>0, <2>2 DEF CheckNents, Listings, TypeOK, ReaderOK, Prefix
    <3> QED BY <3>1, <3>2 DEF Listings
  <2>3. ASSUME NEW r \in Reader, SetNents(r) PROVE Listings'
    <3>1. nents' = TgidBaseStuff + 2
      <4>1. /\ pos[r] \in 0..(TgidBaseStuff + 3)
            /\ pos[r] = TgidBaseStuff + 3 => nents # 0
            /\ nents \in {0, TgidBaseStuff + 2}
        BY <2>0, <2>3 DEF SetNents, Listings, TypeOK, ReaderOK
      <4>2. ~(nents = 0 /\ pos[r] < TgidBaseStuff + 2)
        BY <2>3, Zenon DEF SetNents
      <4>3. nents = 0 => pos[r] >= TgidBaseStuff + 2
        BY <1>0, <4>1, <4>2
      <4> QED BY <1>0, <2>3, <4>1, <4>3 DEF SetNents, StoreNents
    <3>2. TypeOK'
      BY <2>0, <2>3, <3>1 DEF SetNents, Listings, TypeOK
    <3>3. ASSUME NEW q \in Reader PROVE ReaderOK(q)'
      <4>1. nents' # 0
        BY <1>0, <3>1
      <4>2. UNCHANGED <<fiberized, pos, size, room, listed, was>>
        BY <2>3 DEF SetNents
      <4>3. pc'[q] = pc[q] \/ (pc[q] = "lock" /\ pc'[q] = "insert")
        BY <2>0, <2>3 DEF SetNents, Listings, TypeOK
      <4> QED BY <2>0, <4>1, <4>2, <4>3 DEF Listings, ReaderOK, Prefix
    <3> QED BY <3>2, <3>3 DEF Listings
  <2>4. ASSUME NEW r \in Reader, Return(r) PROVE Listings'
    <3>1. TypeOK'
      BY <2>0, <2>4 DEF Return, Listings, TypeOK
    <3>2. ASSUME NEW q \in Reader PROVE ReaderOK(q)'
      BY <2>0, <2>4 DEF Return, Listings, TypeOK, ReaderOK, Prefix
    <3> QED BY <3>1, <3>2 DEF Listings
  <2>5. ASSUME NEW r \in Reader, Rewind(r) PROVE Listings'
    <3>1. Prefix(0) = << >>
      BY DEF Prefix
    <3>2. TypeOK'
      BY <2>0, <1>0, <2>5 DEF Rewind, Listings, TypeOK
    <3>3. ASSUME NEW q \in Reader PROVE ReaderOK(q)'
      <4>1. CASE q = r
        <5>1. /\ listed'[r] = << >> /\ pos'[r] = 0 /\ pc'[r] = "user"
              /\ was'[r] = {fiberized} /\ fiberized' = fiberized
          BY <2>0, <2>5 DEF Rewind, Listings, TypeOK
        <5>2. fiberized' \in was'[r] /\ pos'[r] # TgidBaseStuff + 3
          BY <1>0, <5>1
        <5>3. listed'[r] = Prefix(pos'[r])
          BY <3>1, <5>1
        <5>4. ReaderOK(r)'
          BY <5>1, <5>2, <5>3, Zenon DEF ReaderOK, Prefix
        <5> QED BY <4>1, <5>4
      <4>2. CASE q # r
        BY <2>0, <2>5, <4>2 DEF Rewind, Listings, TypeOK, ReaderOK, Prefix
      <4> QED BY <4>1, <4>2
    <3> QED BY <3>2, <3>3 DEF Listings
  <2>6. CASE UNCHANGED vars
    BY <2>0, <2>6 DEF vars, Listings, TypeOK, ReaderOK, Prefix
  <2>7. ASSUME NEW r \in Reader, LookupDir(r) PROVE Listings'
    BY <2>0, <2>7 DEF LookupDir, Listings, TypeOK, ReaderOK, Prefix
  <2> QED
    BY <2>0, <2>1, <2>2, <2>3, <2>4, <2>5, <2>6, <2>7, GetdentsInv, InsertDirInv DEF Next
<1> QED BY <1>1, <1>2, PTL DEF Spec

-----------------------------------------------------------------------------

\* nents is what the comment in proc_lookup_dir says, unless the call that
\* stored it was cut short: the first, unlocked test of nents and the second,
\* locked one let nobody else store a position, whatever the buffers are.
THEOREM OnlyFirstCallSetsSize == Spec => []OnlyCutMisleads
<1>1. ListingInv => OnlyCutMisleads
  BY DEF ListingInv, Listings, TypeOK, OnlyCutMisleads, NentsIsSize
<1> QED BY <1>1, ListingInvariant, PTL

\* Then every listing is whole: what the module inserts into the listing of
\* /proc/<pid> comes behind the kernel's own entries, once, when it should,
\* however many calls the reader's buffers make of it.
THEOREM ListingsAreWhole == Spec => []WholeListing
<1>0. TgidBaseStuff \in Nat
  BY ProcDirAssumption
<1>1. Prefix(TgidBaseStuff + 2) = BaseListing
  BY <1>0 DEF Prefix, Entry, BaseListing
<1>2. Prefix(TgidBaseStuff + 3) = Append(BaseListing, Fibers)
  BY <1>0 DEF Prefix, Entry, BaseListing
<1>3. ASSUME Listings, NEW r \in Reader, Ended(r)
      PROVE  /\ listed[r] \in {BaseListing, Append(BaseListing, Fibers)}
             /\ was[r] = {TRUE} => listed[r] = Append(BaseListing, Fibers)
             /\ was[r] = {FALSE} => listed[r] = BaseListing
  <2>1. /\ listed[r] = Prefix(pos[r])
        /\ pos[r] \in 0..(TgidBaseStuff + 3)
        /\ pos[r] = TgidBaseStuff + 3 => TRUE \in was[r]
        /\ FALSE \notin was[r] => pos[r] = TgidBaseStuff + 3
    BY <1>3 DEF Listings, TypeOK, ReaderOK, Ended
  <2>2. pos[r] >= TgidBaseStuff + 2
    <3>1. /\ pos[r] >= TgidBaseStuff + 2 \/ room[r] = 0
          /\ size[r] > 0 /\ room[r] = size[r]
      BY <1>3 DEF Listings, ReaderOK, Ended
    <3>2. size[r] \in Nat
      BY <1>3 DEF Listings, TypeOK
    <3> QED BY <3>1, <3>2
  <2>3. pos[r] = TgidBaseStuff + 2 \/ pos[r] = TgidBaseStuff + 3
    BY <1>0, <2>1, <2>2
  <2>4. was[r] = {TRUE} => FALSE \notin was[r]
    BY Zenon
  <2>5. was[r] = {FALSE} => TRUE \notin was[r]
    BY Zenon
  <2> QED BY <1>1, <1>2, <2>1, <2>3, <2>4, <2>5
<1>4. ListingInv => WholeListing
  BY <1>3 DEF ListingInv, WholeListing
<1> QED BY <1>4, ListingInvariant, PTL

-----------------------------------------------------------------------------

\* A call has emitted at least the dots when it looks at nents.
LookupTypes ==
  /\ nents \in Nat /\ pos \in [Reader -> Nat] /\ room \in [Reader -> Nat]
  /\ pc \in [Reader -> {"user", "check", "lock", "insert", "return"}]

LookupInv ==
  /\ LookupTypes
  /\ \A r \in Reader : /\ pc[r] # "user" => pos[r] >= 2
                       /\ pc[r] \in {"insert", "return"} => nents # 0
  /\ nents # 1
  /\ ended => nents # 0
  /\ ~missed

\* What a call of the kernel's function does to the position.
LEMMA EmitMoves ==
  ASSUME NEW r \in Reader, NEW n \in Nat, NEW free \in Nat, NEW ents(_),
         pos \in [Reader -> Nat], room \in [Reader -> Nat], Emit(r, ents, n, free)
  PROVE  /\ pos' \in [Reader -> Nat] /\ room' \in [Reader -> Nat]
         /\ \A q \in Reader \ {r} : pos'[q] = pos[q]
         /\ pos'[r] >= pos[r]
         /\ free >= 2 => pos'[r] >= 2
<1> DEFINE left == IF pos[r] >= n + 2 THEN 0 ELSE n + 2 - pos[r]
           k    == IF left < free THEN left ELSE free
<1>1. pos' = [pos EXCEPT ![r] = pos[r] + k] /\ room' = [room EXCEPT ![r] = free - k]
  BY Zenon DEF Emit
<1>2. k \in Nat /\ free - k \in Nat /\ (free >= 2 => pos[r] + k >= 2)
  OBVIOUS
<1> HIDE DEF k
<1> QED BY <1>1, <1>2

\* And lookups, which rely on nents as well (proc_lookup_dir), find the
\* directory once any listing call has returned, also when it was cut short:
\* by then nents is set, and the entry "fibers" is the last one that is
\* searched.  A buffer for "." alone would store a size without room for it.
THEOREM LookupsFind ==
  ASSUME 1 \notin Room
  PROVE  Spec => []LookupFinds
<1>0. TgidBaseStuff \in Nat /\ \A free \in Room : free \in Nat /\ free >= 2
  BY ProcDirAssumption
<1>1. Init => LookupInv
  BY DEF Init, LookupInv, LookupTypes
<1>2. ASSUME LookupInv, [Next]_vars PROVE LookupInv'
  <2>0. LookupTypes
    BY <1>2 DEF LookupInv
  <2>1. ASSUME NEW r \in Reader, Getdents(r) PROVE LookupInv'
    <3>1. PICK free \in Room : Emit(r, LAMBDA p : p, TgidBaseStuff, free)
      BY <2>1 DEF Getdents
    <3>2. /\ pos' \in [Reader -> Nat] /\ room' \in [Reader -> Nat]
          /\ \A q \in Reader \ {r} : pos'[q] = pos[q]
          /\ pos'[r] >= 2
      BY <1>0, <2>0, <3>1, EmitMoves DEF LookupTypes
    <3>3. pc' = [pc EXCEPT ![r] = "check"] /\ UNCHANGED <<nents, ended, missed>>
      BY <2>1 DEF Getdents, lookups
    <3> QED BY <1>2, <3>2, <3>3 DEF LookupInv, LookupTypes
  <2>2. ASSUME NEW r \in Reader, InsertDir(r) PROVE LookupInv'
    <3>1. pc[r] = "insert" /\ nents - 1 \in Nat /\ room[r] \in Nat /\ pos[r] \in Nat
      BY <1>2, <2>2 DEF InsertDir, LookupInv, LookupTypes
    <3>2. /\ pos' \in [Reader -> Nat] /\ room' \in [Reader -> Nat]
          /\ \A q \in Reader \ {r} : pos'[q] = pos[q]
          /\ pos'[r] >= pos[r]
      <4>1. CASE Emit(r, Additional, nents - 1, room[r])
        BY <2>0, <3>1, <4>1, EmitMoves DEF LookupTypes
      <4>2. CASE UNCHANGED <<pos, room>>
        BY <2>0, <3>1, <4>2 DEF LookupTypes
      <4> QED BY <2>2, <4>1, <4>2 DEF InsertDir
    <3>3. pc' = [pc EXCEPT ![r] = "return"] /\ UNCHANGED <<nents, ended, missed>>
      BY <2>2 DEF InsertDir, lookups
    <3>4. pos'[r] \in Nat /\ pos[r] >= 2 /\ pos'[r] >= 2
      BY <1>2, <3>1, <3>2 DEF LookupInv
    <3> QED BY <1>2, <3>1, <3>2, <3>3, <3>4 DEF LookupInv, LookupTypes
  <2>3. ASSUME NEW r \in Reader, CheckNents(r) PROVE LookupInv'
    BY <1>2, <2>3 DEF CheckNents, LookupInv, LookupTypes, lookups
  <2>4. ASSUME NEW r \in Reader, SetNents(r) PROVE LookupInv'
    <3>1. pc[r] = "lock" /\ pos[r] \in Nat /\ pos[r] >= 2
      BY <1>2, <2>4 DEF SetNents, LookupInv, LookupTypes
    <3>2. nents' \in Nat /\ nents' # 0 /\ nents' # 1
      BY <1>2, <2>4, <3>1 DEF SetNents, StoreNents, LookupInv, LookupTypes
    <3>3. pc' = [pc EXCEPT ![r] = "insert"] /\ UNCHANGED <<pos, room, ended, missed>>
      BY <2>4 DEF SetNents, lookups
    <3> QED BY <1>2, <3>1, <3>2, <3>3 DEF LookupInv, LookupTypes
  <2>5. ASSUME NEW r \in Reader, Return(r) PROVE LookupInv'
    BY <1>2, <2>5 DEF Return, LookupInv, LookupTypes
  <2>6. ASSUME NEW r \in Reader, Rewind(r) PROVE LookupInv'
    BY <1>2, <2>6 DEF Rewind, LookupInv, LookupTypes, lookups
  <2>7. ASSUME NEW r \in Reader, LookupDir(r) PROVE LookupInv'
    <3>1. ended => Finds
      <4> SUFFICES ASSUME ended PROVE Finds
        OBVIOUS
      <4>1. nents \in Nat /\ nents >= 2
        BY <1>2 DEF LookupInv, LookupTypes
      <4>2. nents \in Searched /\ Additional(nents) = Fibers /\ nents # 0
        BY <4>1 DEF Searched, Additional
      <4> QED BY <4>2 DEF Finds
    <3>2. /\ UNCHANGED <<nents, ended, pos, room, pc>>
          /\ missed' = (missed \/ (ended /\ ~Finds))
      BY <2>7 DEF LookupDir
    <3>3. ~missed'
      BY <1>2, <3>1, <3>2, Zenon DEF LookupInv
    <3> QED BY <1>2, <3>2, <3>3 DEF LookupInv, LookupTypes
  <2>8. CASE Change
    BY <1>2, <2>8 DEF Change, LookupInv, LookupTypes, lookups
  <2>9. CASE UNCHANGED vars
    BY <1>2, <2>9 DEF vars, LookupInv, LookupTypes, lookups
  <2> QED BY <1>2, <2>1, <2>2, <2>3, <2>4, <2>5, <2>6, <2>7, <2>8, <2>9 DEF Next
<1>3. LookupInv => LookupFinds
  BY DEF LookupInv, LookupFinds
<1> QED BY <1>1, <1>2, <1>3, PTL DEF Spec

=============================================================================
