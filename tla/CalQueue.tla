------------------------------ MODULE CalQueue ------------------------------
(***************************************************************************)
(* The calendar queue from which a fiber of the benchmark takes its events *)
(* (benchmark/2018-fibers/src/calqueue.c), used as main_loop and the model *)
(* of a GSM cell use it (main.c, model.c).                                 *)
(*                                                                         *)
(* A priority is an integer, in units of which Unit make 1.0.  The width   *)
(* of a bucket is a quotient <<num, den>> of integers, and buckettop,      *)
(* which only moves by whole widths, is counted in half widths: what the   *)
(* code rounds is exact here.  The array calq behind the buckets is left   *)
(* out.                                                                    *)
(***************************************************************************)
EXTENDS Integers, Sequences, SequencesExt

CONSTANTS
  Unit,
  MaxBuckets,  \* MAXNBUCKETS
  MaxEvents,   \* bound: the events a cell processes
  Cell         \* the random draws of a cell: see below

VARIABLES
  queue,
  cell,        \* what the cell draws
  processed    \* how many events it has processed

vars == <<queue, cell, processed>>

\* An event is <<priority, type, number of the call>>.
Priority(e) == e[1]

-----------------------------------------------------------------------------

\* localinit
LocalInit(nbuckets, cwidth, startprio) ==
  LET n == (startprio * cwidth[2]) \div cwidth[1]
  IN  [calendar   |-> [i \in 0..(nbuckets - 1) |-> << >>],
       nbuckets   |-> nbuckets,
       cwidth     |-> cwidth,
       lastprio   |-> startprio,
       lastbucket |-> n % nbuckets,
       buckettop  |-> 2 * (n + 1) + 1,
       qsize      |-> 0]

BucketOf(q, p) == ((p * q.cwidth[2]) \div q.cwidth[1]) % q.nbuckets

\* Where an event goes in the list of its bucket: behind its equals.
Place(list, e) == 1 + Len(SelectSeq(list, LAMBDA o : Priority(o) <= Priority(e)))

\* calqueue_put without its test of the size
Insert(q, e) ==
  LET i == BucketOf(q, Priority(e))
  IN  [q EXCEPT !.calendar[i] = InsertAt(@, Place(@, e), e), !.qsize = @ + 1]

-----------------------------------------------------------------------------
(***************************************************************************)
(* calqueue_deq without its test of the size                               *)
(***************************************************************************)

\* priority < buckettop, when the search has come k buckets far
InYear(q, k, p) == 2 * p * q.cwidth[2] < (q.buckettop + 2 * k) * q.cwidth[1]

Ahead(q, k) == q.calendar[(q.lastbucket + k) % q.nbuckets]

\* The buckets that the first loop would stop at.
Stops(q) == {k \in 0..(q.nbuckets - 1) :
               Ahead(q, k) # << >> /\ InYear(q, k, Priority(Ahead(q, k)[1]))}

\* The direct search: the first of the buckets with the least head.
Lowest(q) ==
  LET some == {i \in 0..(q.nbuckets - 1) : q.calendar[i] # << >>}
      best == {i \in some : \A j \in some :
                 Priority(q.calendar[i][1]) <= Priority(q.calendar[j][1])}
  IN  Min(best)

\* calendar_process; the search has come k buckets far.  buckettop stays where
\* the search has left it.
Take(q, i, k) ==
  LET e == q.calendar[i][1]
  IN  [event |-> e,
       rest  |-> [q EXCEPT !.calendar[i] = Tail(@),
                           !.lastbucket  = i,
                           !.lastprio    = Priority(e),
                           !.buckettop   = @ + 2 * k,
                           !.qsize       = @ - 1]]

Deq(q) ==
  IF Stops(q) # {}
  THEN LET k == Min(Stops(q)) IN Take(q, (q.lastbucket + k) % q.nbuckets, k)
  ELSE Take(q, Lowest(q), q.nbuckets)

-----------------------------------------------------------------------------
(***************************************************************************)
(* new_width and resize                                                    *)
(***************************************************************************)

Samples(q) == IF q.qsize <= 5 THEN q.qsize
              ELSE Min({25, 5 + q.qsize \div 10})

\* The sample that new_width takes out of the queue.
Sample(q) ==
  LET deq[k \in 0..Samples(q)] ==
        IF k = 0 THEN [rest |-> q, taken |-> << >>]
        ELSE LET before == deq[k - 1]
                 d      == Deq(before.rest)
             IN  [rest |-> d.rest, taken |-> Append(before.taken, d.event)]
  IN  deq[Samples(q)]

\* Three times the average separation, without the large ones.
NewWidth(q) ==
  LET s     == Sample(q).taken
      seps  == [i \in 1..(Len(s) - 1) |-> Priority(s[i + 1]) - Priority(s[i])]
      total == Priority(s[Len(s)]) - Priority(s[1])
      small == SelectSeq(seps, LAMBDA d : d * Len(seps) < 2 * total)
  IN  IF q.qsize < 2 THEN <<Unit, 1>>
      ELSE <<3 * FoldLeft(+, 0, small), Len(small)>>

\* The queue with its sample put back: behind its equals.
PutBack(q) ==
  IF q.qsize < 2 THEN q ELSE FoldLeft(Insert, Sample(q).rest, Sample(q).taken)

\* The events from the last bucket to the first.
Events(q) ==
  FoldLeft(LAMBDA list, i : q.calendar[i - 1] \o list, << >>, [i \in 1..q.nbuckets |-> i])

\* The new calendar is large enough for what is put into it.  A width that is
\* not positive is a violation of WidthPositive; what the numbers of the buckets
\* are then (in the code, indices before the array) is of no interest.
Resize(q, newsize) ==
  FoldLeft(Insert, LocalInit(newsize, NewWidth(q), q.lastprio), Events(PutBack(q)))

TooMany(q) == q.qsize > 2 * q.nbuckets /\ q.nbuckets < MaxBuckets
TooFew(q)  == q.qsize < q.nbuckets \div 2 - 2

calqueue_put(q, e) ==
  LET r == Insert(q, e) IN IF TooMany(r) THEN Resize(r, 2 * r.nbuckets) ELSE r

calqueue_get(q) ==
  LET d == Deq(q)
  IN  IF TooFew(d.rest) THEN [d EXCEPT !.rest = Resize(@, @.nbuckets \div 2)] ELSE d

-----------------------------------------------------------------------------
(***************************************************************************)
(* The cell: ProcessEvent of model.c.  Its random draws are the time of    *)
(* the first call, the gaps between calls (gap for the first burst of      *)
(* them, then pause) and the durations of the odd and the even calls.      *)
(* There is always a free channel.                                         *)
(***************************************************************************)

Gap(n)      == IF n <= cell.burst THEN cell.gap ELSE cell.pause
Duration(n) == IF n % 2 = 1 THEN cell.odd ELSE cell.even

Scheduled(e) ==
  CASE e[2] = "INIT"       -> <<<<cell.first, "START_CALL", 1>>>>
    [] e[2] = "START_CALL" -> <<<<e[1] + Duration(e[3]), "END_CALL", e[3]>>,
                                <<e[1] + Gap(e[3]), "START_CALL", e[3] + 1>>>>
    [] e[2] = "END_CALL"   -> << >>

Initial == <<0, "INIT", 0>>

Init ==
  /\ cell \in Cell
  /\ queue = calqueue_put(LocalInit(2, <<Unit, 1>>, 0), Initial)
  /\ processed = 0

ProcessEvent ==
  /\ processed < MaxEvents
  /\ queue.qsize > 0
  /\ LET d == calqueue_get(queue)
     IN  queue' = FoldLeft(calqueue_put, d.rest, Scheduled(d.event))
  /\ processed' = processed + 1
  /\ UNCHANGED cell

Next == ProcessEvent

Spec == Init /\ [][Next]_vars

-----------------------------------------------------------------------------

\* "the width that the buckets should have based on a random sample of the
\* queue so that there will be about 3 items in each bucket" (new_width): it
\* is positive, or events are filed before the first bucket.
WidthPositive == queue.cwidth[1] > 0 /\ queue.cwidth[2] > 0

=============================================================================
