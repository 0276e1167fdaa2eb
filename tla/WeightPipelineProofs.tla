------------------------- MODULE WeightPipelineProofs -------------------------
(***************************************************************************)
(* Proofs about WeightPipeline for every number of phases, of kernels and  *)
(* of images, and every pace of the two streams.                           *)
(***************************************************************************)
EXTENDS WeightPipeline, SequenceTheorems, TLAPS

-----------------------------------------------------------------------------
(***************************************************************************)
(* The invariant.  A slot is given to one phase after another, and every   *)
(* user of the slot waits for the one before it: a copy of the copier is   *)
(* behind a wait for the release of what the compute stream has still to   *)
(* do with the slot, and what the compute stream does with a copy is       *)
(* behind a wait for it.  q is the compute stream and c the copier.        *)
(***************************************************************************)

Records(o, e, s) == o.op = "record" /\ o.event = e /\ o.slot = s
Waits(o, e, s) == o.op = "wait" /\ o.event = e /\ o.slot = s
Copies(o, s) == o.op = "copy" /\ o.slot = s
Uses(o, s) == (o.op \in {"copy", "kernel"} /\ o.slot = s) \/ Waits(o, "ready", s)

\* What is at i of the compute stream is over before what is at k of the copier.
OverBefore(q, c, s, i, k) ==
  \E j \in DOMAIN q, m \in DOMAIN c :
    /\ i < j /\ Records(q[j], "released", s)
    /\ m < k /\ Waits(c[m], "released", s)
    /\ q[j].ticket <= c[m].ticket

\* What is at i of the compute stream waits for what is at k of the copier.
Awaits(q, c, s, i, k) ==
  \E j \in DOMAIN q, m \in DOMAIN c :
    /\ j < i /\ Waits(q[j], "ready", s)
    /\ k < m /\ Records(c[m], "ready", s)
    /\ c[m].ticket <= q[j].ticket

\* What the slot will hold when the compute stream comes to i: what the compute
\* stream copies itself, what the copier copies, or what is there.
CopiedHere(q, c, p, s, i) ==
  \E j \in DOMAIN q :
    /\ j < i /\ Copies(q[j], s) /\ q[j].phase = p
    /\ \A h \in DOMAIN q : j < h /\ h < i => ~Copies(q[h], s)
    /\ \A k \in DOMAIN c : Copies(c[k], s) => OverBefore(q, c, s, i, k) \/ Awaits(q, c, s, j, k)

CopiedThere(q, c, p, s, i) ==
  \E k \in DOMAIN c :
    /\ Copies(c[k], s) /\ c[k].phase = p /\ Awaits(q, c, s, i, k)
    /\ \A h \in DOMAIN c : k < h /\ Copies(c[h], s) => OverBefore(q, c, s, i, h)
    /\ \A j \in DOMAIN q : j < i /\ Copies(q[j], s) => OverBefore(q, c, s, j, k)

IsThere(q, c, held, p, s, i) ==
  /\ held[s] = p
  /\ \A j \in DOMAIN q : j < i => ~Copies(q[j], s)
  /\ \A k \in DOMAIN c : Copies(c[k], s) => OverBefore(q, c, s, i, k)

WillHold(q, c, held, p, s, i) ==
  \/ CopiedHere(q, c, p, s, i)
  \/ CopiedThere(q, c, p, s, i)
  \/ IsThere(q, c, held, p, s, i)

\* What is prefetched is the last copy into its slot, done or to be done, and
\* whatever the compute stream copied there before is over first.
Brought(q, c, held, p, s) ==
  \/ /\ held[s] = p
     /\ \A j \in DOMAIN q : ~Copies(q[j], s)
     /\ \A k \in DOMAIN c : ~Copies(c[k], s)
  \/ \E k \in DOMAIN c, m \in DOMAIN c :
       /\ Copies(c[k], s) /\ c[k].phase = p
       /\ k < m /\ Records(c[m], "ready", s)
       /\ \A h \in DOMAIN c : k < h => ~Copies(c[h], s)
       /\ \A j \in DOMAIN q : Copies(q[j], s) => OverBefore(q, c, s, j, k)

\* The records of an event that a stream has still to execute, in order.
Numbered(q, e, s, count) ==
  /\ count.done <= count.made
  /\ \A i \in DOMAIN q : Records(q[i], e, s) => count.done < q[i].ticket /\ q[i].ticket <= count.made
  /\ \A i, j \in DOMAIN q : i < j /\ Records(q[i], e, s) /\ Records(q[j], e, s)
       => q[i].ticket < q[j].ticket

\* Where the runner is, the phase that is active and the one that is prefetched.
RunnerFollows ==
  /\ active.phase # None <=> host.at \in {"launch", "close"}
  /\ active.phase # None => active.phase = host.phase
  /\ active.slot # None => active.phase # None /\ registry[active.phase] = active.slot
  /\ active.released => host.at = "close"
  /\ prefetched.phase = None <=> prefetched.slot = None
  /\ prefetched.slot # None => prefetched.slot # active.slot

TicketsInOrder ==
  \A s \in Slots : Numbered(compute, "released", s, events[<<"released", s>>])
                   /\ Numbered(copier, "ready", s, events[<<"ready", s>>])

\* A slot nobody is using any more has been released after its last use.
UsesReleased ==
  \A s \in Slots :
    /\ s # active.slot \/ active.released =>
         \A i \in DOMAIN compute : Uses(compute[i], s)
           => \E j \in DOMAIN compute : i < j /\ Records(compute[j], "released", s)
    /\ \A i \in DOMAIN compute : Records(compute[i], "released", s) => slots[s].hasRelease

\* The compute stream waits for every copy but the one of the next phase.
CopiesAwaited ==
  \A s \in Slots \ {prefetched.slot} : \A k \in DOMAIN copier :
    Copies(copier[k], s) => Awaits(compute, copier, s, Len(compute) + 1, k)

PrefetchedIsBrought ==
  prefetched.slot # None => Brought(compute, copier, content, prefetched.phase, prefetched.slot)

KernelsWillRead ==
  /\ \A s \in Slots : \A i \in DOMAIN compute :
       compute[i].op = "kernel" /\ compute[i].slot = s
         => WillHold(compute, copier, content, compute[i].phase, s, i)
  /\ host.at = "launch" /\ active.slot # None
       => WillHold(compute, copier, content, active.phase, active.slot, Len(compute) + 1)

Ops ==
  [op : {"copy", "kernel", "record", "wait"}, phase : Phases \cup {None}, slot : Slots \cup {File},
   event : {"none", "ready", "released"}, ticket : Nat]

\* Each event is recorded by one stream, and one of them runs the kernels: e is
\* the event that the stream records.
OpOK(o, e) ==
  /\ o.op \in {"record", "wait"} => o.event # "none" /\ o.slot \in Slots
  /\ o.op = "record" => o.event = e
  /\ o.op = "kernel" => e = "released"
  /\ o.op = "copy" => o.slot \in Slots /\ o.phase \in Mapped

QueueOK(q, e) == q \in Seq(Ops) /\ \A i \in DOMAIN q : OpOK(q[i], e)

StateOK ==
  /\ PipelineTypeOK
  /\ host \in [at : {"idle", "begin", "launch", "close", "done"}, phase : Phases, left : Nat, images : Nat]
  /\ active \in [phase : Phases \cup {None}, slot : Slots \cup {None}, released : BOOLEAN]
  /\ prefetched \in [phase : Mapped \cup {None}, slot : Slots \cup {None}]
  /\ slots \in [Slots -> [capacity : Nat, hasRelease : BOOLEAN]]
  /\ events \in [Events -> [made : Nat, done : Nat]]
  /\ QueueOK(compute, "released") /\ QueueOK(copier, "ready")

PipelineInv ==
  /\ StateOK /\ RunnerFollows /\ PointersRestored /\ PrefetchedIsNext
  /\ TicketsInOrder /\ UsesReleased /\ CopiesAwaited /\ PrefetchedIsBrought /\ KernelsWillRead
-----------------------------------------------------------------------------
(* Queues.  A stream executes the head of its queue, the host appends.      *)

\* q2 is q without its first d operations, and perhaps some more at the end.
Moves(q, q2, d) ==
  /\ q \in Seq(Ops) /\ q2 \in Seq(Ops)
  /\ \A i \in DOMAIN q : d < i => i - d \in DOMAIN q2 /\ q2[i - d] = q[i]

\* The places of a queue.
LEMMA Places ==
  ASSUME NEW q \in Seq(Ops)
  PROVE  Len(q) \in Nat /\ DOMAIN q = 1 .. Len(q) /\ \A i \in DOMAIN q : i \in Nat /\ q[i] \in Ops
  OBVIOUS

\* Executing the head.
LEMMA TailMoves ==
  ASSUME NEW q \in Seq(Ops), q # <<>>
  PROVE  /\ Moves(q, Tail(q), 1) /\ Head(q) = q[1] /\ q[1] \in Ops /\ 1 \in DOMAIN q
         /\ Len(q) \in Nat \ {0} /\ Len(Tail(q)) = Len(q) - 1 /\ DOMAIN Tail(q) = 1 .. Len(q) - 1
         /\ \A i \in DOMAIN Tail(q) : i \in Nat \ {0} /\ i + 1 \in DOMAIN q /\ Tail(q)[i] = q[i + 1]
  <1>1. Tail(q) \in Seq(Ops) /\ Len(Tail(q)) = Len(q) - 1 /\ \A i \in 1 .. Len(Tail(q)) : Tail(q)[i] = q[i + 1]
    BY HeadTailProperties
  <1>2. Len(q) \in Nat \ {0} /\ DOMAIN q = 1 .. Len(q) /\ DOMAIN Tail(q) = 1 .. Len(Tail(q))
    BY <1>1, EmptySeq
  <1> DEFINE t == Tail(q)
             n == Len(q)
             l == Len(t)
  <1>3. /\ \A i \in 1 .. n : 1 < i => i - 1 \in 1 .. l /\ t[i - 1] = q[i]
        /\ \A i \in 1 .. l : i \in Nat \ {0} /\ i + 1 \in 1 .. n
        /\ 1 \in 1 .. n
    <2>1. t \in Seq(Ops) /\ n \in Nat \ {0} /\ l = n - 1 /\ \A i \in 1 .. l : t[i] = q[i + 1]
      BY <1>1, <1>2
    <2> HIDE DEF t, n, l
    <2> QED BY <2>1
  <1> QED BY <1>1, <1>2, <1>3 DEF Moves

\* Appending an operation.
LEMMA AppendMoves ==
  ASSUME NEW q \in Seq(Ops), NEW o \in Ops
  PROVE  /\ Moves(q, Append(q, o), 0) /\ Len(q) \in Nat
         /\ Append(q, o) \in Seq(Ops) /\ Len(Append(q, o)) = Len(q) + 1
         /\ DOMAIN Append(q, o) = 1 .. Len(q) + 1 /\ DOMAIN q = 1 .. Len(q)
         /\ Append(q, o)[Len(q) + 1] = o
         /\ \A i \in DOMAIN q : Append(q, o)[i] = q[i]
  BY AppendProperties DEF Moves

\* A queue that stays.
LEMMA StaysMoves ==
  ASSUME NEW q \in Seq(Ops)
  PROVE  Moves(q, q, 0)
  BY DEF Moves

-----------------------------------------------------------------------------
(* The order between the streams is kept while they move.                   *)

\* What the compute stream executes leaves the releases after it to come.
LEMMA OverWhenComputing ==
  ASSUME NEW q \in Seq(Ops), q # <<>>, NEW c, NEW s, NEW i \in Nat, 1 <= i, NEW k,
         OverBefore(q, c, s, i, k)
  PROVE  OverBefore(Tail(q), c, s, i - 1, k)
  <1>1. PICK j \in DOMAIN q, m \in DOMAIN c :
          /\ i < j /\ Records(q[j], "released", s)
          /\ m < k /\ Waits(c[m], "released", s)
          /\ q[j].ticket <= c[m].ticket
    BY DEF OverBefore
  <1>2. j \in Nat /\ 1 < j
    BY <1>1
  <1>3. j - 1 \in DOMAIN Tail(q) /\ Tail(q)[j - 1] = q[j]
    BY <1>2, TailMoves DEF Moves
  <1>4. i - 1 < j - 1
    BY <1>1, <1>2
  <1> QED BY <1>1, <1>3, <1>4 DEF OverBefore

\* A wait for a copy that cannot be executed yet stays in front of what uses it.
LEMMA AwaitsWhenComputing ==
  ASSUME NEW q \in Seq(Ops), q # <<>>, NEW c, NEW s, NEW i \in Nat, NEW k, Awaits(q, c, s, i, k),
         Waits(q[1], "ready", s)
           => \A m \in DOMAIN c : Records(c[m], "ready", s) => ~(c[m].ticket <= q[1].ticket)
  PROVE  Awaits(Tail(q), c, s, i - 1, k)
  <1>1. PICK j \in DOMAIN q, m \in DOMAIN c :
          /\ j < i /\ Waits(q[j], "ready", s)
          /\ k < m /\ Records(c[m], "ready", s)
          /\ c[m].ticket <= q[j].ticket
    BY DEF Awaits
  <1>2. j # 1 /\ j \in Nat /\ 1 <= j
    BY <1>1
  <1>3. j - 1 \in DOMAIN Tail(q) /\ Tail(q)[j - 1] = q[j]
    BY <1>2, TailMoves DEF Moves
  <1>4. j - 1 < i - 1
    BY <1>1, <1>2
  <1> QED BY <1>1, <1>3, <1>4 DEF Awaits

\* A wait for a release that cannot be executed yet stays in front of the copy.
LEMMA OverWhenCopying ==
  ASSUME NEW q, NEW c \in Seq(Ops), c # <<>>, NEW s, NEW i, NEW k \in Nat, OverBefore(q, c, s, i, k),
         Waits(c[1], "released", s)
           => \A j \in DOMAIN q : Records(q[j], "released", s) => ~(q[j].ticket <= c[1].ticket)
  PROVE  OverBefore(q, Tail(c), s, i, k - 1)
  <1>1. PICK j \in DOMAIN q, m \in DOMAIN c :
          /\ i < j /\ Records(q[j], "released", s)
          /\ m < k /\ Waits(c[m], "released", s)
          /\ q[j].ticket <= c[m].ticket
    BY DEF OverBefore
  <1>2. m # 1 /\ m \in Nat /\ 1 <= m
    BY <1>1
  <1>3. m - 1 \in DOMAIN Tail(c) /\ Tail(c)[m - 1] = c[m]
    BY <1>2, TailMoves DEF Moves
  <1>4. m - 1 < k - 1
    BY <1>1, <1>2
  <1> QED BY <1>1, <1>3, <1>4 DEF OverBefore

\* What the copier executes leaves the records after it to come.
LEMMA AwaitsWhenCopying ==
  ASSUME NEW q, NEW c \in Seq(Ops), c # <<>>, NEW s, NEW i, NEW k \in Nat, 1 <= k, Awaits(q, c, s, i, k)
  PROVE  Awaits(q, Tail(c), s, i, k - 1)
  <1>1. PICK j \in DOMAIN q, m \in DOMAIN c :
          /\ j < i /\ Waits(q[j], "ready", s)
          /\ k < m /\ Records(c[m], "ready", s)
          /\ c[m].ticket <= q[j].ticket
    BY DEF Awaits
  <1>2. m \in Nat /\ 1 < m
    BY <1>1
  <1>3. m - 1 \in DOMAIN Tail(c) /\ Tail(c)[m - 1] = c[m]
    BY <1>2, TailMoves DEF Moves
  <1>4. k - 1 < m - 1
    BY <1>1, <1>2
  <1> QED BY <1>1, <1>3, <1>4 DEF Awaits

\* The head of the copier waits for nothing, that of the compute stream neither.
LEMMA HeadsAreFree ==
  ASSUME NEW q \in Seq(Ops), NEW c \in Seq(Ops), NEW s
  PROVE  /\ \A i : ~OverBefore(q, c, s, i, 1)
         /\ \A k : ~Awaits(q, c, s, 1, k)
  BY Places DEF OverBefore, Awaits

\* What waits for a copy also waits for those in front of it, and later as well.
LEMMA AwaitsEarlier ==
  ASSUME NEW q \in Seq(Ops), NEW c \in Seq(Ops), NEW s, NEW i \in Nat, NEW k \in Nat,
         Awaits(q, c, s, i, k)
  PROVE  \A g, h \in Nat : i <= g /\ h <= k => Awaits(q, c, s, g, h)
  BY Places DEF Awaits
-----------------------------------------------------------------------------
(* What a slot will hold, while the streams execute.                        *)

\* A queue that only grew has what it had.
LEMMA GrownPlaces ==
  ASSUME NEW q, NEW q2, Moves(q, q2, 0), NEW h \in DOMAIN q
  PROVE  h \in Nat /\ h \in DOMAIN q2 /\ q2[h] = q[h]
  <1>1. q \in Seq(Ops)
    BY DEF Moves
  <1>2. h \in Nat /\ 0 < h
    BY <1>1
  <1>3. h - 0 \in DOMAIN q2 /\ q2[h - 0] = q[h] /\ h - 0 = h
    BY <1>2 DEF Moves
  <1> QED BY <1>2, <1>3

\* The host enqueues: a later copy into the slot has to be behind a release.
LEMMA HoldGrows ==
  ASSUME NEW q, NEW q2, NEW c, NEW c2, Moves(q, q2, 0), Moves(c, c2, 0), NEW held, NEW p, NEW s,
         NEW i \in 1 .. Len(q) + 1, WillHold(q, c, held, p, s, i),
         \A k \in DOMAIN c2 : k \notin DOMAIN c /\ Copies(c2[k], s) => OverBefore(q2, c2, s, i, k)
  PROVE  WillHold(q2, c2, held, p, s, i)
  <1>1. /\ q \in Seq(Ops) /\ c \in Seq(Ops) /\ q2 \in Seq(Ops) /\ c2 \in Seq(Ops)
        /\ i \in Nat /\ DOMAIN q = 1 .. Len(q) /\ Len(q) \in Nat
        /\ \A h \in DOMAIN q2 : h < i => h \in DOMAIN q
    BY Places DEF Moves
  <1>2. /\ \A h \in DOMAIN q : h \in Nat /\ h \in DOMAIN q2 /\ q2[h] = q[h]
        /\ \A h \in DOMAIN c : h \in Nat /\ h \in DOMAIN c2 /\ c2[h] = c[h]
    BY <1>1, GrownPlaces
  <1>3. \A g, k \in Nat : /\ OverBefore(q, c, s, g, k) => OverBefore(q2, c2, s, g, k)
                          /\ Awaits(q, c, s, g, k) => Awaits(q2, c2, s, g, k)
    BY <1>2 DEF OverBefore, Awaits
  <1>4. \A k \in DOMAIN c2 : Copies(c2[k], s) => OverBefore(q2, c2, s, i, k) \/ (k \in DOMAIN c /\ Copies(c[k], s))
    BY <1>2
  <1>5. CASE CopiedHere(q, c, p, s, i)
    <2>1. PICK j \in DOMAIN q :
            /\ j < i /\ Copies(q[j], s) /\ q[j].phase = p
            /\ \A h \in DOMAIN q : j < h /\ h < i => ~Copies(q[h], s)
            /\ \A k \in DOMAIN c : Copies(c[k], s) => OverBefore(q, c, s, i, k) \/ Awaits(q, c, s, j, k)
      BY <1>5 DEF CopiedHere
    <2>2. \A h \in DOMAIN q2 : j < h /\ h < i => ~Copies(q2[h], s)
      BY <1>1, <1>2, <2>1
    <2>3. \A k \in DOMAIN c2 : Copies(c2[k], s) => OverBefore(q2, c2, s, i, k) \/ Awaits(q2, c2, s, j, k)
      BY <1>1, <1>2, <1>3, <1>4, <2>1
    <2> QED BY <1>2, <2>1, <2>2, <2>3 DEF CopiedHere, WillHold
  <1>6. CASE CopiedThere(q, c, p, s, i)
    <2>1. PICK k \in DOMAIN c :
            /\ Copies(c[k], s) /\ c[k].phase = p /\ Awaits(q, c, s, i, k)
            /\ \A h \in DOMAIN c : k < h /\ Copies(c[h], s) => OverBefore(q, c, s, i, h)
            /\ \A j \in DOMAIN q : j < i /\ Copies(q[j], s) => OverBefore(q, c, s, j, k)
      BY <1>6 DEF CopiedThere
    <2>2. \A h \in DOMAIN c2 : k < h /\ Copies(c2[h], s) => OverBefore(q2, c2, s, i, h)
      BY <1>1, <1>2, <1>3, <1>4, <2>1
    <2>3. \A j \in DOMAIN q2 : j < i /\ Copies(q2[j], s) => OverBefore(q2, c2, s, j, k)
      BY <1>1, <1>2, <1>3, <2>1
    <2>4. Awaits(q2, c2, s, i, k)
      BY <1>1, <1>2, <1>3, <2>1
    <2> QED BY <1>2, <2>1, <2>2, <2>3, <2>4 DEF CopiedThere, WillHold
  <1>7. CASE IsThere(q, c, held, p, s, i)
    <2>1. \A j \in DOMAIN q2 : j < i => ~Copies(q2[j], s)
      BY <1>1, <1>2, <1>7 DEF IsThere
    <2>2. \A k \in DOMAIN c2 : Copies(c2[k], s) => OverBefore(q2, c2, s, i, k)
      BY <1>1, <1>2, <1>3, <1>4, <1>7 DEF IsThere
    <2> QED BY <1>7, <2>1, <2>2 DEF IsThere, WillHold
  <1> QED BY <1>5, <1>6, <1>7 DEF WillHold

\* The compute stream executes its head, which does not wait in vain.
LEMMA HoldComputes ==
  ASSUME NEW q \in Seq(Ops), NEW c \in Seq(Ops), q # <<>>, NEW held, NEW held2, NEW p, NEW s,
         NEW i \in 1 .. Len(q) + 1, 1 < i, WillHold(q, c, held, p, s, i),
         Waits(q[1], "ready", s) =>
           \A m \in DOMAIN c : Records(c[m], "ready", s) => ~(c[m].ticket <= q[1].ticket),
         held2[s] = IF Copies(q[1], s) THEN q[1].phase ELSE held[s]
  PROVE  WillHold(Tail(q), c, held2, p, s, i - 1)
  <1> DEFINE t == Tail(q)
  <1>1. /\ Moves(q, t, 1) /\ Moves(c, c, 0) /\ 1 \in DOMAIN q /\ t \in Seq(Ops)
        /\ i \in Nat /\ Len(q) \in Nat /\ DOMAIN q = 1 .. Len(q)
        /\ \A h \in DOMAIN t : h \in Nat \ {0} /\ h + 1 \in DOMAIN q /\ t[h] = q[h + 1]
    BY TailMoves, StaysMoves DEF Moves
  <1>2. \A h \in DOMAIN q : h \in Nat /\ (1 < h => h - 1 \in DOMAIN t /\ t[h - 1] = q[h])
    BY <1>1 DEF Moves
  <1>3. \A k \in DOMAIN c : k \in Nat
    BY Places
  <1>4. ASSUME NEW g \in Nat, 1 <= g, NEW k \in DOMAIN c
        PROVE  /\ OverBefore(q, c, s, g, k) => OverBefore(t, c, s, g - 1, k)
               /\ Awaits(q, c, s, g, k) => Awaits(t, c, s, g - 1, k)
    BY <1>1, <1>3, <1>4, OverWhenComputing, AwaitsWhenComputing
  <1> HIDE DEF t
  <1>5. CASE CopiedHere(q, c, p, s, i)
    <2>1. PICK j \in DOMAIN q :
            /\ j < i /\ Copies(q[j], s) /\ q[j].phase = p
            /\ \A h \in DOMAIN q : j < h /\ h < i => ~Copies(q[h], s)
            /\ \A k \in DOMAIN c : Copies(c[k], s) => OverBefore(q, c, s, i, k) \/ Awaits(q, c, s, j, k)
      BY <1>5 DEF CopiedHere
    <2>2. \A h \in DOMAIN t : j < h + 1 /\ h < i - 1 => ~Copies(t[h], s)
      BY <1>1, <2>1
    <2>3. CASE j = 1
      <3>1. held2[s] = p
        BY <2>1, <2>3
      <3>2. \A h \in DOMAIN t : h < i - 1 => ~Copies(t[h], s)
        BY <1>1, <2>2, <2>3
      <3>3. \A k \in DOMAIN c : Copies(c[k], s) => OverBefore(t, c, s, i - 1, k)
        BY <1>1, <1>4, <2>1, <2>3, HeadsAreFree
      <3> QED BY <3>1, <3>2, <3>3 DEF IsThere, WillHold, t
    <2>4. CASE j # 1
      <3>1. j - 1 \in DOMAIN t /\ t[j - 1] = q[j] /\ j - 1 < i - 1 /\ 1 <= j
        BY <1>1, <1>2, <2>1, <2>4
      <3>2. \A h \in DOMAIN t : j - 1 < h /\ h < i - 1 => ~Copies(t[h], s)
        BY <1>1, <1>2, <2>2
      <3>3. \A k \in DOMAIN c : Copies(c[k], s) => OverBefore(t, c, s, i - 1, k) \/ Awaits(t, c, s, j - 1, k)
        BY <1>1, <1>2, <1>4, <2>1, <3>1
      <3> QED BY <2>1, <3>1, <3>2, <3>3 DEF CopiedHere, WillHold, t
    <2> QED BY <2>3, <2>4
  <1>6. CASE CopiedThere(q, c, p, s, i)
    <2>1. PICK k \in DOMAIN c :
            /\ Copies(c[k], s) /\ c[k].phase = p /\ Awaits(q, c, s, i, k)
            /\ \A h \in DOMAIN c : k < h /\ Copies(c[h], s) => OverBefore(q, c, s, i, h)
            /\ \A j \in DOMAIN q : j < i /\ Copies(q[j], s) => OverBefore(q, c, s, j, k)
      BY <1>6 DEF CopiedThere
    <2>2. Awaits(t, c, s, i - 1, k)
      BY <1>1, <1>4, <2>1
    <2>3. \A h \in DOMAIN c : k < h /\ Copies(c[h], s) => OverBefore(t, c, s, i - 1, h)
      BY <1>1, <1>4, <2>1
    <2>4. ASSUME NEW j \in DOMAIN t, j < i - 1, Copies(t[j], s)
          PROVE  OverBefore(t, c, s, j, k)
      <3>1. j \in Nat /\ j + 1 \in DOMAIN q /\ j + 1 < i /\ Copies(q[j + 1], s)
        BY <1>1, <2>4
      <3>2. OverBefore(q, c, s, j + 1, k) /\ j + 1 \in Nat /\ 1 <= j + 1 /\ (j + 1) - 1 = j
        BY <2>1, <3>1
      <3> QED BY <1>4, <3>2
    <2> QED BY <2>1, <2>2, <2>3, <2>4 DEF CopiedThere, WillHold, t
  <1>7. CASE IsThere(q, c, held, p, s, i)
    <2>1. ~Copies(q[1], s)
      BY <1>1, <1>7 DEF IsThere
    <2>2. \A j \in DOMAIN t : j < i - 1 => ~Copies(t[j], s)
      BY <1>1, <1>7 DEF IsThere
    <2>3. \A k \in DOMAIN c : Copies(c[k], s) => OverBefore(t, c, s, i - 1, k)
      BY <1>1, <1>4, <1>7 DEF IsThere
    <2> QED BY <1>7, <2>1, <2>2, <2>3 DEF IsThere, WillHold, t
  <1> QED BY <1>5, <1>6, <1>7 DEF WillHold, t

\* The copier executes its head, which does not wait in vain.
LEMMA HoldCopies ==
  ASSUME NEW q \in Seq(Ops), NEW c \in Seq(Ops), c # <<>>, NEW held, NEW held2, NEW p, NEW s,
         NEW i \in 1 .. Len(q) + 1, WillHold(q, c, held, p, s, i),
         Waits(c[1], "released", s) =>
           \A j \in DOMAIN q : Records(q[j], "released", s) => ~(q[j].ticket <= c[1].ticket),
         held2[s] = IF Copies(c[1], s) THEN c[1].phase ELSE held[s]
  PROVE  WillHold(q, Tail(c), held2, p, s, i)
  <1> DEFINE t == Tail(c)
  <1>1. /\ Moves(c, t, 1) /\ Moves(q, q, 0) /\ 1 \in DOMAIN c /\ t \in Seq(Ops) /\ i \in Nat
        /\ \A h \in DOMAIN t : h \in Nat \ {0} /\ h + 1 \in DOMAIN c /\ t[h] = c[h + 1]
        /\ \A h \in DOMAIN q : h \in Nat
    BY TailMoves, StaysMoves, Places
  <1>2. \A h \in DOMAIN c : h \in Nat \ {0} /\ (1 < h => h - 1 \in DOMAIN t /\ t[h - 1] = c[h])
    BY <1>1, Places DEF Moves
  <1>3. ASSUME NEW g \in Nat, NEW k \in DOMAIN c
        PROVE  /\ OverBefore(q, c, s, g, k) => OverBefore(q, t, s, g, k - 1)
               /\ Awaits(q, c, s, g, k) => Awaits(q, t, s, g, k - 1)
    BY <1>1, <1>2, OverWhenCopying, AwaitsWhenCopying
  <1>4. ASSUME NEW g \in Nat, NEW h \in DOMAIN t
        PROVE  /\ OverBefore(q, c, s, g, h + 1) => OverBefore(q, t, s, g, h)
               /\ Awaits(q, c, s, g, h + 1) => Awaits(q, t, s, g, h)
    <2>1. h + 1 \in DOMAIN c /\ (h + 1) - 1 = h
      BY <1>1
    <2> QED BY <1>3, <2>1
  <1> HIDE DEF t
  <1>5. CASE CopiedHere(q, c, p, s, i)
    <2>1. PICK j \in DOMAIN q :
            /\ j < i /\ Copies(q[j], s) /\ q[j].phase = p
            /\ \A h \in DOMAIN q : j < h /\ h < i => ~Copies(q[h], s)
            /\ \A k \in DOMAIN c : Copies(c[k], s) => OverBefore(q, c, s, i, k) \/ Awaits(q, c, s, j, k)
      BY <1>5 DEF CopiedHere
    <2>2. \A k \in DOMAIN t : Copies(t[k], s) => OverBefore(q, t, s, i, k) \/ Awaits(q, t, s, j, k)
      BY <1>1, <1>4, <2>1
    <2> QED BY <2>1, <2>2 DEF CopiedHere, WillHold, t
  <1>6. CASE CopiedThere(q, c, p, s, i)
    <2>1. PICK k \in DOMAIN c :
            /\ Copies(c[k], s) /\ c[k].phase = p /\ Awaits(q, c, s, i, k)
            /\ \A h \in DOMAIN c : k < h /\ Copies(c[h], s) => OverBefore(q, c, s, i, h)
            /\ \A j \in DOMAIN q : j < i /\ Copies(q[j], s) => OverBefore(q, c, s, j, k)
      BY <1>6 DEF CopiedThere
    <2>2. \A h \in DOMAIN t : k < h + 1 /\ Copies(t[h], s) => OverBefore(q, t, s, i, h)
      BY <1>1, <1>4, <2>1
    <2>3. CASE k = 1
      <3>1. held2[s] = p
        BY <2>1, <2>3
      <3>2. \A j \in DOMAIN q : j < i => ~Copies(q[j], s)
        BY <2>1, <2>3, HeadsAreFree
      <3>3. \A h \in DOMAIN t : Copies(t[h], s) => OverBefore(q, t, s, i, h)
        BY <1>1, <2>2, <2>3
      <3> QED BY <3>1, <3>2, <3>3 DEF IsThere, WillHold, t
    <2>4. CASE k # 1
      <3>1. k - 1 \in DOMAIN t /\ t[k - 1] = c[k]
        BY <1>2, <2>4
      <3>2. Awaits(q, t, s, i, k - 1)
        BY <1>1, <1>3, <2>1
      <3>3. \A h \in DOMAIN t : k - 1 < h /\ Copies(t[h], s) => OverBefore(q, t, s, i, h)
        <4>1. \A n, h \in Nat : n - 1 < h => n < h + 1
          OBVIOUS
        <4>2. k \in Nat
          BY <1>2
        <4>3. \A h \in DOMAIN t : h \in Nat
          BY <1>1
        <4>4. \A h \in DOMAIN t : k - 1 < h => k < h + 1
          BY ONLY <4>1, <4>2, <4>3
        <4> QED BY <2>2, <4>4
      <3>4. \A j \in DOMAIN q : j < i /\ Copies(q[j], s) => OverBefore(q, t, s, j, k - 1)
        BY <1>1, <1>3, <2>1
      <3> QED BY <2>1, <3>1, <3>2, <3>3, <3>4 DEF CopiedThere, WillHold, t
    <2> QED BY <2>3, <2>4
  <1>7. CASE IsThere(q, c, held, p, s, i)
    <2>1. ~Copies(c[1], s)
      BY <1>1, <1>7, HeadsAreFree DEF IsThere
    <2>2. \A k \in DOMAIN t : Copies(t[k], s) => OverBefore(q, t, s, i, k)
      BY <1>1, <1>4, <1>7 DEF IsThere
    <2> QED BY <1>7, <2>1, <2>2 DEF IsThere, WillHold, t
  <1> QED BY <1>5, <1>6, <1>7 DEF WillHold, t
-----------------------------------------------------------------------------
(* Types.                                                                   *)

\* What holds of the runner and of the types, apart from the order of the streams.
Runs == StateOK /\ RunnerFollows /\ PointersRestored /\ PrefetchedIsNext

\* What the host may enqueue in the compute stream, and in the copier.
LEMMA OpsOK ==
  ASSUME StateOK, NEW p \in Phases, NEW s \in Slots
  PROVE  /\ p \in Mapped => Copy(p, s) \in Ops /\ \A e : OpOK(Copy(p, s), e)
         /\ \A w \in Slots \cup {File} : Kernel(p, w) \in Ops /\ OpOK(Kernel(p, w), "released")
         /\ \A e \in {"ready", "released"} :
              /\ Record(e, s) \in Ops /\ OpOK(Record(e, s), e)
              /\ Wait(e, s) \in Ops /\ \A f : OpOK(Wait(e, s), f)
  <1>1. \A e \in {"ready", "released"} : events[<<e, s>>].made \in Nat
    BY DEF StateOK, Events
  <1>2. \A e \in {"ready", "released"} : events[<<e, s>>].made + 1 \in Nat
    <2>1. \A n \in Nat : n + 1 \in Nat
      OBVIOUS
    <2> QED BY <1>1, <2>1
  <1> QED BY <1>1, <1>2 DEF Copy, Kernel, Record, Wait, Ops, OpOK

\* A queue of such operations.
LEMMA AppendOK ==
  ASSUME NEW e, NEW q, QueueOK(q, e), NEW o \in Ops, OpOK(o, e)
  PROVE  QueueOK(Append(q, o), e)
  <1>1. q \in Seq(Ops)
    BY DEF QueueOK
  <1>2. \A i \in 1 .. Len(q) + 1 : i \in DOMAIN q \/ i = Len(q) + 1
    BY <1>1
  <1> QED BY <1>1, <1>2, AppendMoves DEF QueueOK

\* The same once its head was executed.
LEMMA TailOK ==
  ASSUME NEW e, NEW q, QueueOK(q, e), q # <<>>
  PROVE  QueueOK(Tail(q), e) /\ q[1] \in Ops /\ OpOK(q[1], e) /\ Head(q) = q[1]
  BY TailMoves DEF QueueOK, Moves

\* Recording an event.
LEMMA MadeOne ==
  ASSUME StateOK, NEW e \in {"ready", "released"}, NEW s \in Slots,
         events' = [events EXCEPT ![<<e, s>>].made = @ + 1]
  PROVE  /\ events' \in [Events -> [made : Nat, done : Nat]]
         /\ events'[<<e, s>>].made = events[<<e, s>>].made + 1 /\ events'[<<e, s>>].done = events[<<e, s>>].done
         /\ \A x \in Events : x # <<e, s>> => events'[x] = events[x]
  <1> DEFINE y == <<e, s>>
  <1>1. y \in Events
    BY DEF Events
  <1>2. events \in [Events -> [made : Nat, done : Nat]]
    BY DEF StateOK
  <1>3. events' = [events EXCEPT ![y].made = @ + 1]
    OBVIOUS
  <1> HIDE DEF y
  <1>4. events' \in [Events -> [made : Nat, done : Nat]]
    BY <1>1, <1>2, <1>3
  <1>5. events'[y].made = events[y].made + 1 /\ events'[y].done = events[y].done
    BY <1>1, <1>2, <1>3
  <1>6. \A x \in Events : x # y => events'[x] = events[x]
    BY <1>1, <1>2, <1>3
  <1> QED BY <1>4, <1>5, <1>6 DEF y

\* Executing the record of an event.
LEMMA DoneOne ==
  ASSUME StateOK, NEW y \in Events, events' = [events EXCEPT ![y].done = @ + 1]
  PROVE  /\ events' \in [Events -> [made : Nat, done : Nat]]
         /\ \A x \in Events : events'[x].made = events[x].made
         /\ \A x \in Events : events'[x].done = IF x = y THEN events[x].done + 1 ELSE events[x].done
  BY DEF StateOK

\* Executing the head of a stream.
LEMMA ExecuteTypes ==
  ASSUME StateOK, NEW o \in Ops, NEW e, OpOK(o, e), Execute(o)
  PROVE  /\ events' \in [Events -> [made : Nat, done : Nat]]
         /\ \A x \in Events : events'[x].made = events[x].made
         /\ \A x \in Events : events'[x].done =
              IF o.op = "record" /\ x = <<o.event, o.slot>> THEN events[x].done + 1 ELSE events[x].done
         /\ content' \in [Slots -> Mapped \cup {None}]
         /\ \A s \in Slots : content'[s] = IF Copies(o, s) THEN o.phase ELSE content[s]
  <1>1. events \in [Events -> [made : Nat, done : Nat]] /\ content \in [Slots -> Mapped \cup {None}]
    BY DEF StateOK, PipelineTypeOK
  <1>2. CASE o.op = "record"
    <2>1. <<o.event, o.slot>> \in Events /\ content' = content
      BY <1>2 DEF OpOK, Events, Ops, Execute
    <2>2. events' = [events EXCEPT ![<<o.event, o.slot>>].done = @ + 1]
      BY <1>2 DEF Execute
    <2>3. ~\E s \in Slots : Copies(o, s)
      BY <1>2 DEF Copies
    <2>4. /\ events' \in [Events -> [made : Nat, done : Nat]]
          /\ \A x \in Events : events'[x].made = events[x].made
          /\ \A x \in Events : events'[x].done =
              IF x = <<o.event, o.slot>> THEN events[x].done + 1 ELSE events[x].done
      BY <2>1, <2>2, DoneOne
    <2> QED BY <1>1, <1>2, <2>1, <2>3, <2>4
  <1>3. CASE o.op = "copy"
    <2>1. o.slot \in Slots /\ o.phase \in Mapped /\ events' = events
          /\ content' = [content EXCEPT ![o.slot] = o.phase]
      BY <1>3 DEF OpOK, Execute
    <2> QED BY <1>1, <1>3, <2>1 DEF Copies
  <1>4. CASE o.op \notin {"record", "copy"}
    BY <1>1, <1>4 DEF Execute, Copies
  <1> QED BY <1>2, <1>3, <1>4

-----------------------------------------------------------------------------
(* The order of the records.                                                *)

\* Executing the head of the queue that records the event.
LEMMA NumberedTail ==
  ASSUME NEW q \in Seq(Ops), q # <<>>, NEW e, NEW s, NEW count, NEW count2, Numbered(q, e, s, count),
         count.done \in Nat, count.made \in Nat, count2.made = count.made,
         count2.done = IF Records(q[1], e, s) THEN count.done + 1 ELSE count.done
  PROVE  Numbered(Tail(q), e, s, count2)
  <1>1. /\ 1 \in DOMAIN q
        /\ \A i \in DOMAIN Tail(q) : i \in Nat \ {0} /\ i + 1 \in DOMAIN q /\ Tail(q)[i] = q[i + 1]
        /\ \A i \in DOMAIN q : q[i].ticket \in Nat
    <2>1. \A i \in DOMAIN q : q[i].ticket \in Nat
      BY Places DEF Ops
    <2> QED BY <2>1, TailMoves
  <1>2. ASSUME NEW i \in DOMAIN Tail(q), Records(Tail(q)[i], e, s)
        PROVE  count2.done < Tail(q)[i].ticket /\ Tail(q)[i].ticket <= count2.made
    <2>1. /\ i + 1 \in DOMAIN q /\ 1 < i + 1 /\ Records(q[i + 1], e, s) /\ Tail(q)[i] = q[i + 1]
          /\ q[i + 1].ticket \in Nat /\ q[1].ticket \in Nat
      BY <1>1, <1>2
    <2>2. count.done < q[i + 1].ticket /\ q[i + 1].ticket <= count.made
      BY <2>1 DEF Numbered
    <2>3. Records(q[1], e, s) => count.done < q[1].ticket /\ q[1].ticket < q[i + 1].ticket
      BY <1>1, <2>1 DEF Numbered
    <2> QED BY <2>1, <2>2, <2>3
  <1>3. ASSUME NEW i \in DOMAIN Tail(q), NEW j \in DOMAIN Tail(q), i < j,
               Records(Tail(q)[i], e, s), Records(Tail(q)[j], e, s)
        PROVE  Tail(q)[i].ticket < Tail(q)[j].ticket
    <2>1. i + 1 \in DOMAIN q /\ j + 1 \in DOMAIN q /\ i + 1 < j + 1
          /\ Tail(q)[i] = q[i + 1] /\ Tail(q)[j] = q[j + 1]
      BY <1>1, <1>3
    <2> QED BY <1>3, <2>1 DEF Numbered
  <1>4. count2.done <= count2.made
    BY <1>1 DEF Numbered
  <1> QED BY <1>2, <1>3, <1>4 DEF Numbered

\* Appending an operation: the next record, or none of the event.
LEMMA NumberedAppend ==
  ASSUME NEW q \in Seq(Ops), NEW o \in Ops, NEW e, NEW s, NEW count, NEW count2,
         Numbered(q, e, s, count), count.done \in Nat, count.made \in Nat,
         count2.done = count.done,
         IF Records(o, e, s) THEN o.ticket = count.made + 1 /\ count2.made = count.made + 1
                             ELSE count2.made = count.made
  PROVE  Numbered(Append(q, o), e, s, count2)
  <1> DEFINE a == Append(q, o)
  <1>1. /\ \A i \in DOMAIN a : i \in Nat /\ ((i \in DOMAIN q /\ a[i] = q[i]) \/ (i = Len(q) + 1 /\ a[i] = o))
        /\ \A i \in DOMAIN q : i \in Nat /\ i < Len(q) + 1 /\ q[i].ticket \in Nat
        /\ Len(q) \in Nat
    <2>1. Len(q) \in Nat /\ DOMAIN q = 1 .. Len(q) /\ DOMAIN a = 1 .. Len(q) + 1
          /\ a[Len(q) + 1] = o /\ \A i \in DOMAIN q : a[i] = q[i]
      BY AppendMoves
    <2>2. \A i \in DOMAIN q : q[i].ticket \in Nat
      BY Places DEF Ops
    <2> HIDE DEF a
    <2> QED BY <2>1, <2>2
  <1> HIDE DEF a
  <1>2. ASSUME NEW i \in DOMAIN a, Records(a[i], e, s)
        PROVE  count2.done < a[i].ticket /\ a[i].ticket <= count2.made
    <2>1. CASE i \in DOMAIN q /\ a[i] = q[i]
      <3>1. count.done < q[i].ticket /\ q[i].ticket <= count.made /\ q[i].ticket \in Nat
        BY <1>1, <1>2, <2>1 DEF Numbered
      <3> QED BY <2>1, <3>1
    <2>2. CASE i = Len(q) + 1 /\ a[i] = o
      <3>1. count.done <= count.made
        BY DEF Numbered
      <3>2. o.ticket = count.made + 1 /\ count2.made = count.made + 1
        BY <1>2, <2>2
      <3> QED BY <2>2, <3>1, <3>2
    <2> QED BY <1>1, <2>1, <2>2
  <1>3. ASSUME NEW i \in DOMAIN a, NEW j \in DOMAIN a, i < j, Records(a[i], e, s), Records(a[j], e, s)
        PROVE  a[i].ticket < a[j].ticket
    <2>1. i \in DOMAIN q /\ a[i] = q[i]
      BY <1>1, <1>3
    <2>2. CASE j \in DOMAIN q /\ a[j] = q[j]
      BY <1>3, <2>1, <2>2 DEF Numbered
    <2>3. CASE j = Len(q) + 1 /\ a[j] = o
      <3>1. q[i].ticket <= count.made /\ q[i].ticket \in Nat /\ o.ticket = count.made + 1
        BY <1>1, <1>3, <2>1, <2>3 DEF Numbered
      <3> QED BY <2>1, <2>3, <3>1
    <2> QED BY <1>1, <2>2, <2>3
  <1>4. count2.done <= count2.made
    BY DEF Numbered
  <1> QED BY <1>2, <1>3, <1>4 DEF Numbered, a
-----------------------------------------------------------------------------
(* The streams.                                                             *)

\* What an event that was waited for says of the records that are left.
LEMMA WaitedFor ==
  ASSUME StateOK, TicketsInOrder, NEW o \in Ops, NEW s \in Slots, Execute(o)
  PROVE  /\ Waits(o, "ready", s) =>
              \A m \in DOMAIN copier : Records(copier[m], "ready", s) => ~(copier[m].ticket <= o.ticket)
         /\ Waits(o, "released", s) =>
              \A j \in DOMAIN compute : Records(compute[j], "released", s) => ~(compute[j].ticket <= o.ticket)
  <1>1. /\ \A m \in DOMAIN copier : copier[m].ticket \in Nat
        /\ \A j \in DOMAIN compute : compute[j].ticket \in Nat
        /\ o.ticket \in Nat
    BY Places DEF StateOK, QueueOK, Ops
  <1>2. events[<<"ready", s>>].done \in Nat /\ events[<<"released", s>>].done \in Nat
    BY DEF StateOK, Events
  <1>3. Numbered(compute, "released", s, events[<<"released", s>>])
        /\ Numbered(copier, "ready", s, events[<<"ready", s>>])
    BY DEF TicketsInOrder
  <1>4. ASSUME Waits(o, "ready", s), NEW m \in DOMAIN copier, Records(copier[m], "ready", s)
        PROVE  ~(copier[m].ticket <= o.ticket)
    <2>1. events[<<"ready", s>>].done >= o.ticket
      BY <1>4 DEF Execute, Waits
    <2>2. events[<<"ready", s>>].done < copier[m].ticket
      BY <1>3, <1>4 DEF Numbered
    <2> QED BY <1>1, <1>2, <2>1, <2>2
  <1>5. ASSUME Waits(o, "released", s), NEW j \in DOMAIN compute, Records(compute[j], "released", s)
        PROVE  ~(compute[j].ticket <= o.ticket)
    <2>1. events[<<"released", s>>].done >= o.ticket
      BY <1>5 DEF Execute, Waits
    <2>2. events[<<"released", s>>].done < compute[j].ticket
      BY <1>3, <1>5 DEF Numbered
    <2> QED BY <1>1, <1>2, <2>1, <2>2
  <1> QED BY <1>4, <1>5

\* The streams change neither what the host knows nor what it will do.
LEMMA StreamsRun ==
  ASSUME PipelineInv, ComputeStep \/ CopyStep
  PROVE  Runs' /\ TicketsInOrder'
  <1>1. StateOK /\ RunnerFollows /\ PointersRestored /\ PrefetchedIsNext /\ TicketsInOrder
    BY DEF PipelineInv
  <1>2. UNCHANGED <<host, active, prefetched, slots, registry>>
    BY DEF ComputeStep, CopyStep
  <1>3. RunnerFollows' /\ PointersRestored' /\ PrefetchedIsNext'
    BY <1>1, <1>2 DEF RunnerFollows, PointersRestored, PrefetchedIsNext
  <1>4. /\ QueueOK(compute, "released") /\ QueueOK(copier, "ready")
        /\ compute \in Seq(Ops) /\ copier \in Seq(Ops)
    BY <1>1 DEF StateOK, QueueOK
  <1>5. \A s \in Slots :
          /\ events[<<"ready", s>>].done \in Nat /\ events[<<"ready", s>>].made \in Nat
          /\ events[<<"released", s>>].done \in Nat /\ events[<<"released", s>>].made \in Nat
          /\ <<"ready", s>> \in Events /\ <<"released", s>> \in Events
    BY <1>1 DEF StateOK, Events
  <1>6. CASE ComputeStep
    <2>1. /\ compute # <<>> /\ Execute(Head(compute)) /\ compute' = Tail(compute) /\ copier' = copier
      BY <1>6 DEF ComputeStep
    <2>2. /\ QueueOK(Tail(compute), "released") /\ compute[1] \in Ops /\ OpOK(compute[1], "released")
          /\ Head(compute) = compute[1]
      BY <1>4, <2>1, TailOK
    <2>3. /\ events' \in [Events -> [made : Nat, done : Nat]] /\ content' \in [Slots -> Mapped \cup {None}]
          /\ \A x \in Events : events'[x].made = events[x].made
          /\ \A x \in Events : events'[x].done =
               IF compute[1].op = "record" /\ x = <<compute[1].event, compute[1].slot>>
               THEN events[x].done + 1 ELSE events[x].done
      BY <1>1, <2>1, <2>2, ExecuteTypes
    <2>4. StateOK'
      BY <1>1, <1>2, <1>4, <2>1, <2>2, <2>3 DEF StateOK, PipelineTypeOK
    <2>5. ASSUME NEW s \in Slots
          PROVE  /\ Numbered(compute', "released", s, events'[<<"released", s>>])
                 /\ Numbered(copier', "ready", s, events'[<<"ready", s>>])
      <3>1. Numbered(compute, "released", s, events[<<"released", s>>])
            /\ Numbered(copier, "ready", s, events[<<"ready", s>>])
        BY <1>1 DEF TicketsInOrder
      <3>2. /\ events'[<<"released", s>>].made = events[<<"released", s>>].made
            /\ events'[<<"released", s>>].done = IF Records(compute[1], "released", s)
                 THEN events[<<"released", s>>].done + 1 ELSE events[<<"released", s>>].done
        BY <1>5, <2>3 DEF Records
      <3>3. Numbered(compute', "released", s, events'[<<"released", s>>])
        BY <1>4, <1>5, <2>1, <3>1, <3>2, NumberedTail
      <3>4. /\ events'[<<"ready", s>>].made = events[<<"ready", s>>].made
            /\ events'[<<"ready", s>>].done = events[<<"ready", s>>].done
        BY <1>5, <2>2, <2>3 DEF OpOK
      <3> QED BY <2>1, <3>1, <3>3, <3>4 DEF Numbered
    <2> QED BY <1>3, <2>4, <2>5 DEF Runs, TicketsInOrder
  <1>7. CASE CopyStep
    <2>1. /\ copier # <<>> /\ Execute(Head(copier)) /\ copier' = Tail(copier) /\ compute' = compute
      BY <1>7 DEF CopyStep
    <2>2. /\ QueueOK(Tail(copier), "ready") /\ copier[1] \in Ops /\ OpOK(copier[1], "ready")
          /\ Head(copier) = copier[1]
      BY <1>4, <2>1, TailOK
    <2>3. /\ events' \in [Events -> [made : Nat, done : Nat]] /\ content' \in [Slots -> Mapped \cup {None}]
          /\ \A x \in Events : events'[x].made = events[x].made
          /\ \A x \in Events : events'[x].done =
               IF copier[1].op = "record" /\ x = <<copier[1].event, copier[1].slot>>
               THEN events[x].done + 1 ELSE events[x].done
      BY <1>1, <2>1, <2>2, ExecuteTypes
    <2>4. StateOK'
      BY <1>1, <1>2, <1>4, <2>1, <2>2, <2>3 DEF StateOK, PipelineTypeOK
    <2>5. ASSUME NEW s \in Slots
          PROVE  /\ Numbered(compute', "released", s, events'[<<"released", s>>])
                 /\ Numbered(copier', "ready", s, events'[<<"ready", s>>])
      <3>1. Numbered(compute, "released", s, events[<<"released", s>>])
            /\ Numbered(copier, "ready", s, events[<<"ready", s>>])
        BY <1>1 DEF TicketsInOrder
      <3>2. /\ events'[<<"ready", s>>].made = events[<<"ready", s>>].made
            /\ events'[<<"ready", s>>].done = IF Records(copier[1], "ready", s)
                 THEN events[<<"ready", s>>].done + 1 ELSE events[<<"ready", s>>].done
        BY <1>5, <2>3 DEF Records
      <3>3. Numbered(copier', "ready", s, events'[<<"ready", s>>])
        BY <1>4, <1>5, <2>1, <3>1, <3>2, NumberedTail
      <3>4. /\ events'[<<"released", s>>].made = events[<<"released", s>>].made
            /\ events'[<<"released", s>>].done = events[<<"released", s>>].done
        BY <1>5, <2>2, <2>3 DEF OpOK
      <3> QED BY <2>1, <3>1, <3>3, <3>4 DEF Numbered
    <2> QED BY <1>3, <2>4, <2>5 DEF Runs, TicketsInOrder
  <1> QED BY <1>6, <1>7

\* The compute stream executes an operation.
LEMMA ComputeKeeps ==
  ASSUME PipelineInv, ComputeStep
  PROVE  PipelineInv'
  <1> DEFINE q == compute
             c == copier
             t == Tail(q)
  <1>1. /\ StateOK /\ TicketsInOrder /\ UsesReleased /\ CopiesAwaited /\ PrefetchedIsBrought /\ KernelsWillRead
        /\ Runs' /\ TicketsInOrder'
    BY StreamsRun DEF PipelineInv
  <1>2. /\ q # <<>> /\ Execute(q[1]) /\ compute' = t /\ copier' = c /\ q \in Seq(Ops) /\ c \in Seq(Ops)
        /\ q[1] \in Ops /\ OpOK(q[1], "released") /\ UNCHANGED <<host, active, prefetched, slots, registry>>
    BY <1>1, TailOK DEF ComputeStep, StateOK, QueueOK
  <1>3. /\ Len(q) \in Nat \ {0} /\ Len(t) = Len(q) - 1 /\ DOMAIN t = 1 .. Len(q) - 1 /\ DOMAIN q = 1 .. Len(q)
        /\ 1 \in DOMAIN q /\ t \in Seq(Ops)
        /\ \A i \in DOMAIN t : i \in Nat \ {0} /\ i + 1 \in DOMAIN q /\ t[i] = q[i + 1]
        /\ \A i \in DOMAIN q : i \in Nat /\ (1 < i => i - 1 \in DOMAIN t /\ t[i - 1] = q[i])
        /\ \A k \in DOMAIN c : k \in Nat
    BY <1>2, TailMoves, Places DEF Moves
  <1>4. \A s \in Slots : Waits(q[1], "ready", s) =>
          \A m \in DOMAIN c : Records(c[m], "ready", s) => ~(c[m].ticket <= q[1].ticket)
    BY <1>1, <1>2, WaitedFor
  <1>5. \A s \in Slots : content'[s] = IF Copies(q[1], s) THEN q[1].phase ELSE content[s]
    BY <1>1, <1>2, ExecuteTypes
  <1> HIDE DEF q, c, t
  <1>6. UsesReleased'
    <2> SUFFICES ASSUME NEW s \in Slots
                 PROVE  /\ s # active'.slot \/ active'.released =>
                             \A i \in DOMAIN t : Uses(t[i], s)
                               => \E j \in DOMAIN t : i < j /\ Records(t[j], "released", s)
                        /\ \A i \in DOMAIN t : Records(t[i], "released", s) => slots'[s].hasRelease
      BY <1>2 DEF UsesReleased
    <2>1. ASSUME s # active.slot \/ active.released, NEW i \in DOMAIN t, Uses(t[i], s)
          PROVE  \E j \in DOMAIN t : i < j /\ Records(t[j], "released", s)
      <3>1. i + 1 \in DOMAIN q /\ Uses(q[i + 1], s) /\ i \in Nat
        BY <1>3, <2>1
      <3>2. PICK j \in DOMAIN q : i + 1 < j /\ Records(q[j], "released", s)
        BY <1>1, <2>1, <3>1 DEF UsesReleased, q
      <3>3. j - 1 \in DOMAIN t /\ t[j - 1] = q[j] /\ i < j - 1
        BY <1>3, <3>1, <3>2
      <3> QED BY <3>2, <3>3
    <2>2. ASSUME NEW i \in DOMAIN t, Records(t[i], "released", s)
          PROVE  slots[s].hasRelease
      BY <1>1, <1>3, <2>2 DEF UsesReleased, q
    <2> QED BY <1>2, <2>1, <2>2
  <1>7. CopiesAwaited'
    <2> SUFFICES ASSUME NEW s \in Slots \ {prefetched.slot}, NEW k \in DOMAIN c, Copies(c[k], s)
                 PROVE  Awaits(t, c, s, Len(t) + 1, k)
      BY <1>2 DEF CopiesAwaited
    <2>1. Awaits(q, c, s, Len(q) + 1, k)
      BY <1>1 DEF CopiesAwaited, q, c
    <2>2. Len(q) + 1 \in Nat /\ (Len(q) + 1) - 1 = Len(t) + 1
      BY <1>3
    <2>3. Awaits(t, c, s, (Len(q) + 1) - 1, k)
      BY <1>2, <1>4, <2>1, <2>2, AwaitsWhenComputing DEF t
    <2> QED BY <2>2, <2>3
  <1>8. PrefetchedIsBrought'
    <2> SUFFICES ASSUME prefetched.slot # None
                 PROVE  Brought(t, c, content', prefetched.phase, prefetched.slot)
      BY <1>2 DEF PrefetchedIsBrought
    <2> DEFINE s == prefetched.slot
               p == prefetched.phase
    <2>1. s \in Slots /\ Brought(q, c, content, p, s)
      BY <1>1 DEF PrefetchedIsBrought, q, c, StateOK, PipelineTypeOK
    <2> HIDE DEF s, p
    <2>2. CASE /\ content[s] = p
               /\ \A j \in DOMAIN q : ~Copies(q[j], s)
               /\ \A k \in DOMAIN c : ~Copies(c[k], s)
      <3>1. content'[s] = p
        BY <1>3, <1>5, <2>1, <2>2
      <3>2. \A j \in DOMAIN t : ~Copies(t[j], s)
        BY <1>3, <2>2
      <3> QED BY <2>2, <3>1, <3>2 DEF Brought, s, p
    <2>3. ASSUME NEW k \in DOMAIN c, NEW m \in DOMAIN c,
                 Copies(c[k], s), c[k].phase = p, k < m, Records(c[m], "ready", s),
                 \A h \in DOMAIN c : k < h => ~Copies(c[h], s),
                 \A j \in DOMAIN q : Copies(q[j], s) => OverBefore(q, c, s, j, k)
          PROVE  Brought(t, c, content', p, s)
      <3>1. ASSUME NEW j \in DOMAIN t, Copies(t[j], s)
            PROVE  OverBefore(t, c, s, j, k)
        <4>1. j + 1 \in DOMAIN q /\ Copies(q[j + 1], s) /\ j + 1 \in Nat /\ 1 <= j + 1 /\ (j + 1) - 1 = j
          BY <1>3, <3>1
        <4>2. OverBefore(q, c, s, j + 1, k)
          BY <2>3, <4>1
        <4> QED BY <1>2, <4>1, <4>2, OverWhenComputing DEF t
      <3> QED BY <2>3, <3>1 DEF Brought
    <2>4. \/ /\ content[s] = p
             /\ \A j \in DOMAIN q : ~Copies(q[j], s)
             /\ \A k \in DOMAIN c : ~Copies(c[k], s)
          \/ \E k \in DOMAIN c, m \in DOMAIN c :
               /\ Copies(c[k], s) /\ c[k].phase = p
               /\ k < m /\ Records(c[m], "ready", s)
               /\ \A h \in DOMAIN c : k < h => ~Copies(c[h], s)
               /\ \A j \in DOMAIN q : Copies(q[j], s) => OverBefore(q, c, s, j, k)
      BY <2>1 DEF Brought
    <2>5. Brought(t, c, content', p, s)
      BY <2>2, <2>3, <2>4 DEF s, p
    <2> QED BY <2>5 DEF s, p
  <1>9. KernelsWillRead'
    <2>1. ASSUME NEW s \in Slots, NEW p, NEW i \in 1 .. Len(q) + 1, 1 < i, WillHold(q, c, content, p, s, i)
          PROVE  WillHold(t, c, content', p, s, i - 1)
      BY <1>2, <1>4, <1>5, <2>1, HoldComputes DEF t
    <2>2. ASSUME NEW s \in Slots, NEW i \in DOMAIN t, t[i].op = "kernel", t[i].slot = s
          PROVE  WillHold(t, c, content', t[i].phase, s, i)
      <3>1. /\ i + 1 \in DOMAIN q /\ t[i] = q[i + 1] /\ (i + 1) - 1 = i /\ 1 < i + 1 /\ i + 1 \in 1 .. Len(q) + 1
        BY <1>3
      <3>2. WillHold(q, c, content, q[i + 1].phase, s, i + 1)
        BY <1>1, <2>2, <3>1 DEF KernelsWillRead, q, c
      <3>3. WillHold(t, c, content', q[i + 1].phase, s, (i + 1) - 1)
        BY <2>1, <3>1, <3>2
      <3> QED BY <3>1, <3>3
    <2>3. ASSUME host.at = "launch", active.slot # None
          PROVE  WillHold(t, c, content', active.phase, active.slot, Len(t) + 1)
      <3>1. active.slot \in Slots /\ WillHold(q, c, content, active.phase, active.slot, Len(q) + 1)
        BY <1>1, <2>3 DEF KernelsWillRead, q, c, StateOK, PipelineTypeOK
      <3>2. Len(q) + 1 \in 1 .. Len(q) + 1 /\ 1 < Len(q) + 1 /\ (Len(q) + 1) - 1 = Len(t) + 1
        BY <1>3
      <3>3. WillHold(t, c, content', active.phase, active.slot, (Len(q) + 1) - 1)
        BY <2>1, <3>1, <3>2
      <3> QED BY <3>2, <3>3
    <2> QED BY <1>2, <2>2, <2>3 DEF KernelsWillRead
  <1> QED BY <1>1, <1>6, <1>7, <1>8, <1>9 DEF PipelineInv, Runs

\* The copier executes an operation.
LEMMA CopierKeeps ==
  ASSUME PipelineInv, CopyStep
  PROVE  PipelineInv'
  <1> DEFINE q == compute
             c == copier
             t == Tail(c)
  <1>1. /\ StateOK /\ TicketsInOrder /\ UsesReleased /\ CopiesAwaited /\ PrefetchedIsBrought /\ KernelsWillRead
        /\ Runs' /\ TicketsInOrder'
    BY StreamsRun DEF PipelineInv
  <1>2. /\ c # <<>> /\ Execute(c[1]) /\ compute' = q /\ copier' = t /\ q \in Seq(Ops) /\ c \in Seq(Ops)
        /\ c[1] \in Ops /\ OpOK(c[1], "ready") /\ UNCHANGED <<host, active, prefetched, slots, registry>>
    BY <1>1, TailOK DEF CopyStep, StateOK, QueueOK
  <1>3. /\ 1 \in DOMAIN c /\ t \in Seq(Ops) /\ Len(q) \in Nat /\ DOMAIN q = 1 .. Len(q)
        /\ \A k \in DOMAIN t : k \in Nat \ {0} /\ k + 1 \in DOMAIN c /\ t[k] = c[k + 1]
        /\ \A k \in DOMAIN c : k \in Nat \ {0} /\ (1 < k => k - 1 \in DOMAIN t /\ t[k - 1] = c[k])
        /\ \A i \in DOMAIN q : i \in Nat
    BY <1>2, TailMoves, Places DEF Moves
  <1>4. \A s \in Slots : Waits(c[1], "released", s) =>
          \A j \in DOMAIN q : Records(q[j], "released", s) => ~(q[j].ticket <= c[1].ticket)
    BY <1>1, <1>2, WaitedFor
  <1>5. \A s \in Slots : content'[s] = IF Copies(c[1], s) THEN c[1].phase ELSE content[s]
    BY <1>1, <1>2, ExecuteTypes
  <1> HIDE DEF q, c, t
  <1>6. UsesReleased'
    BY <1>1, <1>2 DEF UsesReleased, q
  <1>7. CopiesAwaited'
    <2> SUFFICES ASSUME NEW s \in Slots \ {prefetched.slot}, NEW k \in DOMAIN t, Copies(t[k], s)
                 PROVE  Awaits(q, t, s, Len(q) + 1, k)
      BY <1>2 DEF CopiesAwaited
    <2>1. k + 1 \in DOMAIN c /\ Copies(c[k + 1], s) /\ k + 1 \in Nat /\ 1 <= k + 1 /\ (k + 1) - 1 = k
      BY <1>3
    <2>2. Awaits(q, c, s, Len(q) + 1, k + 1)
      BY <1>1, <2>1 DEF CopiesAwaited, q, c
    <2>3. Awaits(q, t, s, Len(q) + 1, (k + 1) - 1)
      BY <1>2, <2>1, <2>2, AwaitsWhenCopying DEF t
    <2> QED BY <2>1, <2>3
  <1>8. PrefetchedIsBrought'
    <2> SUFFICES ASSUME prefetched.slot # None
                 PROVE  Brought(q, t, content', prefetched.phase, prefetched.slot)
      BY <1>2 DEF PrefetchedIsBrought
    <2> DEFINE s == prefetched.slot
               p == prefetched.phase
    <2>1. s \in Slots /\ Brought(q, c, content, p, s)
      BY <1>1 DEF PrefetchedIsBrought, q, c, StateOK, PipelineTypeOK
    <2> HIDE DEF s, p
    <2>2. CASE /\ content[s] = p
               /\ \A j \in DOMAIN q : ~Copies(q[j], s)
               /\ \A k \in DOMAIN c : ~Copies(c[k], s)
      <3>1. content'[s] = p
        BY <1>3, <1>5, <2>1, <2>2
      <3>2. \A k \in DOMAIN t : ~Copies(t[k], s)
        BY <1>3, <2>2
      <3> QED BY <2>2, <3>1, <3>2 DEF Brought, s, p
    <2>3. ASSUME NEW k \in DOMAIN c, NEW m \in DOMAIN c,
                 Copies(c[k], s), c[k].phase = p, k < m, Records(c[m], "ready", s),
                 \A h \in DOMAIN c : k < h => ~Copies(c[h], s),
                 \A j \in DOMAIN q : Copies(q[j], s) => OverBefore(q, c, s, j, k)
          PROVE  Brought(q, t, content', p, s)
      <3>1. CASE k = 1
        <4>1. content'[s] = p
          BY <1>5, <2>1, <2>3, <3>1
        <4>2. \A j \in DOMAIN q : ~Copies(q[j], s)
          BY <1>2, <2>3, <3>1, HeadsAreFree
        <4>3. \A h \in DOMAIN t : ~Copies(t[h], s)
          BY <1>3, <2>3, <3>1
        <4> QED BY <4>1, <4>2, <4>3 DEF Brought
      <3>2. CASE k # 1
        <4>1. /\ k - 1 \in DOMAIN t /\ t[k - 1] = c[k] /\ m - 1 \in DOMAIN t /\ t[m - 1] = c[m]
              /\ k - 1 < m - 1 /\ k \in Nat
          BY <1>3, <2>3, <3>2
        <4>2. \A h \in DOMAIN t : k - 1 < h => ~Copies(t[h], s)
          BY <1>3, <2>3
        <4>3. \A j \in DOMAIN q : Copies(q[j], s) => OverBefore(q, t, s, j, k - 1)
          BY <1>2, <1>4, <2>1, <2>3, <4>1, OverWhenCopying DEF t
        <4> QED BY <2>3, <4>1, <4>2, <4>3 DEF Brought
      <3> QED BY <3>1, <3>2
    <2>4. \/ /\ content[s] = p
             /\ \A j \in DOMAIN q : ~Copies(q[j], s)
             /\ \A k \in DOMAIN c : ~Copies(c[k], s)
          \/ \E k \in DOMAIN c, m \in DOMAIN c :
               /\ Copies(c[k], s) /\ c[k].phase = p
               /\ k < m /\ Records(c[m], "ready", s)
               /\ \A h \in DOMAIN c : k < h => ~Copies(c[h], s)
               /\ \A j \in DOMAIN q : Copies(q[j], s) => OverBefore(q, c, s, j, k)
      BY <2>1 DEF Brought
    <2>5. Brought(q, t, content', p, s)
      BY <2>2, <2>3, <2>4 DEF s, p
    <2> QED BY <2>5 DEF s, p
  <1>9. KernelsWillRead'
    <2>1. ASSUME NEW s \in Slots, NEW p, NEW i \in 1 .. Len(q) + 1, WillHold(q, c, content, p, s, i)
          PROVE  WillHold(q, t, content', p, s, i)
      BY <1>2, <1>4, <1>5, <2>1, HoldCopies DEF t
    <2>2. ASSUME NEW s \in Slots, NEW i \in DOMAIN q, q[i].op = "kernel", q[i].slot = s
          PROVE  WillHold(q, t, content', q[i].phase, s, i)
      <3>1. WillHold(q, c, content, q[i].phase, s, i)
        BY <1>1, <2>2 DEF KernelsWillRead, q, c
      <3>2. i \in 1 .. Len(q) + 1
        BY <1>3
      <3> QED BY <2>1, <3>1, <3>2
    <2>3. ASSUME host.at = "launch", active.slot # None
          PROVE  WillHold(q, t, content', active.phase, active.slot, Len(q) + 1)
      <3>1. active.slot \in Slots /\ WillHold(q, c, content, active.phase, active.slot, Len(q) + 1)
        BY <1>1, <2>3 DEF KernelsWillRead, q, c, StateOK, PipelineTypeOK
      <3>2. Len(q) + 1 \in 1 .. Len(q) + 1
        BY <1>3
      <3> QED BY <2>1, <3>1, <3>2
    <2> QED BY <1>2, <2>2, <2>3 DEF KernelsWillRead
  <1> QED BY <1>1, <1>6, <1>7, <1>8, <1>9 DEF PipelineInv, Runs
-----------------------------------------------------------------------------
(* The host enqueues an operation in the compute stream, or none.           *)

\* What waited for the copies and what was promised of the slots stays so.
LEMMA Enqueues ==
  ASSUME PipelineInv, UNCHANGED <<copier, content>>, NEW o \in Ops,
         compute' = compute \/ compute' = Append(compute, o)
  PROVE  /\ Moves(compute, compute', 0) /\ Len(compute') \in Nat /\ Len(compute) <= Len(compute')
         /\ \A i \in DOMAIN compute' : i \in DOMAIN compute \/ (compute' # compute /\ i = Len(compute) + 1 /\ compute'[i] = o)
         /\ \A s \in Slots \ {prefetched.slot} : \A k \in DOMAIN copier :
              Copies(copier[k], s) => Awaits(compute', copier, s, Len(compute') + 1, k)
         /\ o.op # "copy" => PrefetchedIsBrought /\ (prefetched' = prefetched => PrefetchedIsBrought')
         /\ \A s \in Slots : \A i \in DOMAIN compute : compute[i].op = "kernel" /\ compute[i].slot = s
              => WillHold(compute', copier, content, compute[i].phase, s, i)
         /\ \A p, s : \A i \in 1 .. Len(compute) + 1 : WillHold(compute, copier, content, p, s, i)
              => WillHold(compute', copier, content, p, s, i)
  <1> DEFINE q == compute
             c == copier
             r == compute'
  <1>1. /\ q \in Seq(Ops) /\ c \in Seq(Ops) /\ StateOK /\ CopiesAwaited /\ PrefetchedIsBrought /\ KernelsWillRead
        /\ copier' = c
    BY DEF PipelineInv, StateOK, QueueOK
  <1>2. /\ Moves(q, r, 0) /\ Len(r) \in Nat /\ Len(q) \in Nat /\ Len(q) <= Len(r) /\ DOMAIN q = 1 .. Len(q)
        /\ \A i \in DOMAIN r : i \in DOMAIN q \/ (r # q /\ i = Len(q) + 1 /\ r[i] = o)
        /\ Moves(c, c, 0) /\ r \in Seq(Ops)
    <2>1. CASE r = q
      BY <1>1, <2>1, StaysMoves, Places
    <2>2. CASE r = Append(q, o) /\ r # q
      <3>1. /\ Moves(q, r, 0) /\ Len(q) \in Nat /\ Len(r) = Len(q) + 1 /\ DOMAIN r = 1 .. Len(q) + 1
            /\ DOMAIN q = 1 .. Len(q) /\ r[Len(q) + 1] = o /\ r \in Seq(Ops)
        BY <1>1, <2>2, AppendMoves
      <3>2. \A i \in 1 .. Len(q) + 1 : i \in 1 .. Len(q) \/ i = Len(q) + 1
        BY <3>1
      <3>3. Moves(c, c, 0)
        BY <1>1, StaysMoves
      <3> HIDE DEF q, r, c
      <3>4. Len(r) \in Nat /\ Len(q) <= Len(r)
        BY <3>1
      <3> QED BY <2>2, <3>1, <3>2, <3>3, <3>4
    <2> QED BY <2>1, <2>2
  <1>3. \A i \in DOMAIN q : i \in Nat /\ i \in DOMAIN r /\ r[i] = q[i]
    BY <1>2, GrownPlaces
  <1>4. \A k \in DOMAIN c : k \in Nat
    BY <1>1, Places
  <1>5. \A p, s : \A i \in 1 .. Len(q) + 1 : WillHold(q, c, content, p, s, i) => WillHold(r, c, content, p, s, i)
    BY <1>2, HoldGrows
  <1>6. \A s : \A i, j, k \in Nat :
          /\ OverBefore(q, c, s, i, k) => OverBefore(r, c, s, i, k)
          /\ Awaits(q, c, s, i, k) /\ i <= j => Awaits(r, c, s, j, k)
    BY <1>3 DEF OverBefore, Awaits
  <1> HIDE DEF q, r
  <1>7. ASSUME NEW s \in Slots \ {prefetched.slot}, NEW k \in DOMAIN c, Copies(c[k], s)
        PROVE  Awaits(r, c, s, Len(r) + 1, k)
    <2>1. Awaits(q, c, s, Len(q) + 1, k)
      BY <1>1, <1>7 DEF CopiesAwaited, q
    <2>2. Len(q) + 1 \in Nat /\ Len(r) + 1 \in Nat /\ Len(q) + 1 <= Len(r) + 1
      BY <1>2
    <2> QED BY <1>4, <1>6, <2>1, <2>2
  <1>8. ASSUME o.op # "copy", prefetched' = prefetched
        PROVE  PrefetchedIsBrought'
    <2> SUFFICES ASSUME prefetched.slot # None
                 PROVE  Brought(r, c, content, prefetched.phase, prefetched.slot)
      BY <1>1, <1>8 DEF PrefetchedIsBrought, r
    <2>1. Brought(q, c, content, prefetched.phase, prefetched.slot)
      BY <1>1 DEF PrefetchedIsBrought, q
    <2>2. \A j \in DOMAIN r : Copies(r[j], prefetched.slot) => j \in DOMAIN q /\ Copies(q[j], prefetched.slot) /\ j \in Nat
      BY <1>2, <1>3, <1>8 DEF Copies
    <2> QED BY <1>4, <1>6, <2>1, <2>2 DEF Brought
  <1>9. \A s \in Slots : \A i \in DOMAIN q : q[i].op = "kernel" /\ q[i].slot = s
          => WillHold(r, c, content, q[i].phase, s, i)
    <2>1. \A i \in DOMAIN q : i \in 1 .. Len(q) + 1
      BY <1>2
    <2> QED BY <1>1, <1>5, <2>1 DEF KernelsWillRead, q
  <1> QED BY <1>1, <1>2, <1>5, <1>7, <1>8, <1>9 DEF q, r

\* Appending a release of the active slot, if it has none yet, releases them all.
LEMMA ReleaseKeeps ==
  ASSUME PipelineInv, RecordRelease, UNCHANGED <<copier, content, prefetched>>
  PROVE  /\ TicketsInOrder' /\ CopiesAwaited' /\ PrefetchedIsBrought'
         /\ \A s \in Slots : \A i \in DOMAIN compute' :
              /\ Uses(compute'[i], s) => \E j \in DOMAIN compute' : i < j /\ Records(compute'[j], "released", s)
              /\ Records(compute'[i], "released", s) => Released(slots)[s].hasRelease
              /\ compute'[i].op = "kernel" /\ compute'[i].slot = s
                   => WillHold(compute', copier', content', compute'[i].phase, s, i)
         /\ QueueOK(compute', "released") /\ events' \in [Events -> [made : Nat, done : Nat]]
         /\ Released(slots) \in [Slots -> [capacity : Nat, hasRelease : BOOLEAN]]
  <1> DEFINE a == active.slot
             o == IF Releases THEN Record("released", a) ELSE Kernel(0, File)
  <1>1. /\ StateOK /\ TicketsInOrder /\ UsesReleased /\ CopiesAwaited /\ QueueOK(compute, "released")
        /\ compute \in Seq(Ops) /\ copier' = copier /\ content' = content /\ prefetched' = prefetched
        /\ active.slot \in Slots \cup {None} /\ 0 \in Phases /\ 0 \in Slots
        /\ slots \in [Slots -> [capacity : Nat, hasRelease : BOOLEAN]]
        /\ events \in [Events -> [made : Nat, done : Nat]]
    BY PipelineAssumption DEF PipelineInv, StateOK, QueueOK, Phases, Slots
  <1>2. Releases => a \in Slots /\ Record("released", a) \in Ops /\ OpOK(Record("released", a), "released")
    BY <1>1, OpsOK DEF Releases
  <1>3. o \in Ops /\ o.op # "copy" /\ o.op \in {"record", "kernel"}
    <2>1. Kernel(0, File) \in Ops
      BY <1>1, OpsOK
    <2> QED BY <1>2, <2>1 DEF Record, Kernel
  <1>4. IF Releases THEN compute' = Append(compute, o) /\ events' = [events EXCEPT ![<<"released", a>>].made = @ + 1]
                    ELSE compute' = compute /\ events' = events
    BY DEF RecordRelease, Made
  <1>5. /\ Moves(compute, compute', 0)
        /\ \A i \in DOMAIN compute' : i \in DOMAIN compute \/ (compute' # compute /\ i = Len(compute) + 1 /\ compute'[i] = o)
        /\ \A s \in Slots \ {prefetched.slot} : \A k \in DOMAIN copier :
             Copies(copier[k], s) => Awaits(compute', copier, s, Len(compute') + 1, k)
        /\ PrefetchedIsBrought'
        /\ \A s \in Slots : \A i \in DOMAIN compute : compute[i].op = "kernel" /\ compute[i].slot = s
             => WillHold(compute', copier, content, compute[i].phase, s, i)
    <2> HIDE DEF o
    <2>1. compute' = compute \/ compute' = Append(compute, o)
      BY <1>4
    <2> QED BY <1>1, <1>3, <2>1, Enqueues
  <1>6. \A i \in DOMAIN compute : i \in DOMAIN compute' /\ compute'[i] = compute[i] /\ i \in Nat
    BY <1>5, GrownPlaces
  <1>7. CopiesAwaited'
    BY <1>1, <1>5 DEF CopiesAwaited
  <1>8. TicketsInOrder' /\ events' \in [Events -> [made : Nat, done : Nat]]
    <2>1. CASE ~Releases
      BY <1>1, <1>4, <2>1 DEF TicketsInOrder
    <2>2. CASE Releases
      <3>1. /\ events' \in [Events -> [made : Nat, done : Nat]]
            /\ events'[<<"released", a>>].made = events[<<"released", a>>].made + 1
            /\ events'[<<"released", a>>].done = events[<<"released", a>>].done
            /\ \A x \in Events : x # <<"released", a>> => events'[x] = events[x]
        BY <1>1, <1>2, <1>4, <2>2, MadeOne
      <3>2. ASSUME NEW s \in Slots
            PROVE  /\ Numbered(compute', "released", s, events'[<<"released", s>>])
                   /\ Numbered(copier', "ready", s, events'[<<"ready", s>>])
        <4>1. Numbered(compute, "released", s, events[<<"released", s>>])
              /\ Numbered(copier, "ready", s, events[<<"ready", s>>])
          BY <1>1 DEF TicketsInOrder
        <4>2. <<"ready", s>> \in Events /\ <<"released", s>> \in Events
          BY DEF Events
        <4>3. events[<<"released", s>>].done \in Nat /\ events[<<"released", s>>].made \in Nat
          BY <1>1, <4>2
        <4>4. <<"ready", s>> # <<"released", a>> /\ (s # a => <<"released", s>> # <<"released", a>>)
          OBVIOUS
        <4>5. /\ events'[<<"ready", s>>] = events[<<"ready", s>>]
              /\ events'[<<"released", s>>].done = events[<<"released", s>>].done
              /\ events'[<<"released", s>>].made = IF s = a THEN events[<<"released", s>>].made + 1
                                                   ELSE events[<<"released", s>>].made
          BY <3>1, <4>2, <4>4
        <4>6. o = Record("released", a)
          BY <2>2
        <4>7. Records(o, "released", s) <=> s = a
          BY <4>6 DEF Records, Record
        <4>8. s = a => o.ticket = events[<<"released", s>>].made + 1
          BY <4>6 DEF Record
        <4>9. compute' = Append(compute, o)
          BY <1>4, <2>2
        <4> HIDE DEF o
        <4>10. Numbered(compute', "released", s, events'[<<"released", s>>])
          BY <1>1, <1>3, <4>1, <4>3, <4>5, <4>7, <4>8, <4>9, NumberedAppend
        <4> QED BY <1>1, <4>1, <4>5, <4>10
      <3> QED BY <3>1, <3>2 DEF TicketsInOrder
    <2> QED BY <2>1, <2>2
  <1>9. ASSUME NEW s \in Slots, NEW i \in DOMAIN compute', Uses(compute'[i], s)
        PROVE  \E j \in DOMAIN compute' : i < j /\ Records(compute'[j], "released", s)
    <2>1. ~Releases => i \in DOMAIN compute
      BY <1>4, <1>5
    <2>2. i \in DOMAIN compute
      <3>1. Releases => ~Uses(o, s)
        BY DEF Uses, Waits, Record
      <3> QED BY <1>5, <1>9, <2>1, <3>1
    <2>3. Uses(compute[i], s)
      BY <1>6, <1>9, <2>2
    <2>4. CASE s # active.slot \/ active.released
      BY <1>1, <1>6, <2>2, <2>3, <2>4 DEF UsesReleased
    <2>5. CASE s = active.slot /\ ~active.released
      <3>1. Releases
        BY <2>5 DEF Releases, Slots, None
      <3>2. compute' = Append(compute, o) /\ o = Record("released", s)
        BY <1>4, <2>5, <3>1
      <3>3. /\ Len(compute) + 1 \in DOMAIN compute' /\ compute'[Len(compute) + 1] = o
            /\ i < Len(compute) + 1
        <4> HIDE DEF o
        <4>1. DOMAIN compute' = 1 .. Len(compute) + 1 /\ compute'[Len(compute) + 1] = o /\ Len(compute) \in Nat
              /\ DOMAIN compute = 1 .. Len(compute)
          BY <1>1, <1>3, <3>2, AppendMoves
        <4>2. i \in 1 .. Len(compute)
          BY <2>2, <4>1
        <4>3. \A n \in Nat : \A m \in 1 .. n : m < n + 1 /\ n + 1 \in 1 .. n + 1
          OBVIOUS
        <4> QED BY <4>1, <4>2, <4>3
      <3> HIDE DEF o
      <3>4. Records(compute'[Len(compute) + 1], "released", s)
        BY <3>2, <3>3 DEF Records, Record
      <3> QED BY <3>3, <3>4
    <2> QED BY <2>4, <2>5
  <1>10. ASSUME NEW s \in Slots, NEW i \in DOMAIN compute', Records(compute'[i], "released", s)
         PROVE  Released(slots)[s].hasRelease
    <2>1. CASE i \in DOMAIN compute
      <3>1. slots[s].hasRelease
        BY <1>1, <1>6, <1>10, <2>1 DEF UsesReleased
      <3> QED BY <1>1, <3>1 DEF Released
    <2>2. CASE i \notin DOMAIN compute
      <3>1. Releases /\ compute'[i] = Record("released", a)
        BY <1>4, <1>5, <2>2
      <3>2. s = a
        BY <1>10, <3>1 DEF Records, Record
      <3> QED BY <1>1, <3>1, <3>2 DEF Released
    <2> QED BY <2>1, <2>2
  <1>11. ASSUME NEW s \in Slots, NEW i \in DOMAIN compute', compute'[i].op = "kernel", compute'[i].slot = s
         PROVE  WillHold(compute', copier', content', compute'[i].phase, s, i)
    <2>1. i \in DOMAIN compute
      <3>1. Releases => o.op # "kernel"
        BY DEF Record
      <3> QED BY <1>4, <1>5, <1>11, <3>1
    <2> QED BY <1>1, <1>5, <1>6, <1>11, <2>1
  <1>12. QueueOK(compute', "released")
    <2>1. CASE ~Releases
      BY <1>1, <1>4, <2>1
    <2>2. CASE Releases
      <3>1. compute' = Append(compute, Record("released", a))
        BY <1>4, <2>2
      <3> QED BY <1>1, <1>2, <2>2, <3>1, AppendOK
    <2> QED BY <2>1, <2>2
  <1>13. Released(slots) \in [Slots -> [capacity : Nat, hasRelease : BOOLEAN]]
    BY <1>1 DEF Released
  <1> QED BY <1>5, <1>7, <1>8, <1>9, <1>10, <1>11, <1>12, <1>13
-----------------------------------------------------------------------------
(* The runner, when it enqueues nothing.                                    *)

\* The types, one by one.
LEMMA TypesFound ==
  ASSUME StateOK
  PROVE  /\ host \in [at : {"idle", "begin", "launch", "close", "done"}, phase : Phases, left : Nat, images : Nat]
         /\ host.left \in 0 .. Kernels /\ host.images \in 0 .. Images
         /\ active \in [phase : Phases \cup {None}, slot : Slots \cup {None}, released : BOOLEAN]
         /\ prefetched \in [phase : Mapped \cup {None}, slot : Slots \cup {None}]
         /\ slots \in [Slots -> [capacity : Nat, hasRelease : BOOLEAN]]
         /\ registry \in [Phases -> Slots \cup {File}]
         /\ None \notin Phases /\ None \notin Slots /\ Last \in Phases /\ 0 \in Phases /\ 0 \in Slots
         /\ Kernels \in 0 .. Kernels /\ Kernels \in Nat /\ Mapped \subseteq Phases
         /\ \A p \in Phases : p \in Nat
  BY PipelineAssumption DEF StateOK, PipelineTypeOK, Phases, Slots, None

\* What the queues and the slots have to do with each other.
Ordered == TicketsInOrder /\ UsesReleased /\ CopiesAwaited /\ PrefetchedIsBrought /\ KernelsWillRead

\* A slot whose last release was reached has none to come.
LEMMA FreeIsReleased ==
  ASSUME StateOK, TicketsInOrder, UsesReleased, NEW s \in Slots, Free(s)
  PROVE  \A i \in DOMAIN compute : ~Records(compute[i], "released", s)
  <1> SUFFICES ASSUME NEW i \in DOMAIN compute, Records(compute[i], "released", s)
               PROVE  FALSE
    OBVIOUS
  <1>1. slots[s].hasRelease
    BY DEF UsesReleased
  <1>2. events[<<"released", s>>].done = events[<<"released", s>>].made
    BY <1>1 DEF Free, Reached
  <1>3. events[<<"released", s>>].done < compute[i].ticket /\ compute[i].ticket <= events[<<"released", s>>].made
    BY DEF TicketsInOrder, Numbered
  <1>4. compute[i].ticket \in Nat
    <2>1. compute \in Seq(Ops)
      BY DEF StateOK, QueueOK
    <2> QED BY <2>1, Places DEF Ops
  <1>5. events[<<"released", s>>].done \in Nat
    BY DEF StateOK, Events
  <1> QED BY <1>2, <1>3, <1>4, <1>5

\* No stream has anything left to do with it.
LEMMA FreeIsIdle ==
  ASSUME PipelineInv, NEW s \in Slots, s # active.slot \/ active.released,
         s # prefetched.slot \/ copier = <<>>, Free(s)
  PROVE  /\ \A i \in DOMAIN compute : ~Uses(compute[i], s)
         /\ \A k \in DOMAIN copier : ~Copies(copier[k], s)
  <1>1. \A i \in DOMAIN compute : ~Records(compute[i], "released", s)
    BY FreeIsReleased DEF PipelineInv
  <1>2. \A i \in DOMAIN compute : ~Uses(compute[i], s)
    BY <1>1 DEF PipelineInv, UsesReleased
  <1>3. s # prefetched.slot => \A k \in DOMAIN copier : ~Copies(copier[k], s)
    BY <1>2 DEF PipelineInv, CopiesAwaited, Awaits, Uses
  <1>4. copier = <<>> => DOMAIN copier = {}
    OBVIOUS
  <1>5. s # prefetched.slot \/ DOMAIN copier = {}
    BY <1>4, Zenon
  <1> QED BY <1>2, <1>3, <1>5

\* A step that enqueues nothing leaves the order as it is.
LEMMA GpuStays ==
  ASSUME PipelineInv, UNCHANGED gpu
  PROVE  /\ TicketsInOrder'
         /\ prefetched' = prefetched => CopiesAwaited' /\ PrefetchedIsBrought'
         /\ \A s \in Slots : \A i \in DOMAIN compute' :
              compute'[i].op = "kernel" /\ compute'[i].slot = s
                => WillHold(compute', copier', content', compute'[i].phase, s, i)
         /\ events' \in [Events -> [made : Nat, done : Nat]]
         /\ QueueOK(compute', "released") /\ QueueOK(copier', "ready")
         /\ content' \in [Slots -> Mapped \cup {None}]
  BY DEF PipelineInv, gpu, TicketsInOrder, CopiesAwaited, PrefetchedIsBrought, KernelsWillRead,
         StateOK, PipelineTypeOK

\* The runner begins an image, or gives it up between two phases.
LEMMA RunnerMoves ==
  ASSUME PipelineInv, NewImage \/ BetweenPhases
  PROVE  PipelineInv'
  <1>1. /\ StateOK /\ RunnerFollows /\ PointersRestored /\ PrefetchedIsNext /\ UsesReleased
    BY DEF PipelineInv
  <1>2. UNCHANGED gpu /\ UNCHANGED <<active, prefetched, slots, registry>>
    BY DEF NewImage, BetweenPhases
  <1>3. /\ host' \in [at : {"idle", "begin", "launch", "close", "done"}, phase : Phases, left : Nat, images : Nat]
        /\ host'.left \in 0 .. Kernels /\ host'.images \in 0 .. Images
    <2>1. \A n \in Nat : n < Images => n + 1 \in 0 .. Images
      BY PipelineAssumption
    <2>2. CASE NewImage
      <3>1. host.images + 1 \in 0 .. Images /\ host.images + 1 \in Nat
        BY <1>1, <2>1, <2>2, TypesFound DEF NewImage
      <3> QED BY <1>1, <2>2, <3>1, TypesFound DEF NewImage
    <2>3. CASE BetweenPhases
      BY <1>1, <2>3, TypesFound DEF BetweenPhases, AbandonImage
    <2> QED BY <2>2, <2>3
  <1>4. StateOK'
    BY <1>1, <1>2, <1>3, GpuStays, TypesFound DEF StateOK, PipelineTypeOK
  <1>5. host'.at \in {"begin", "done"} /\ host.at \in {"idle", "begin"} /\ (host.at = "begin" => host'.at = "done")
    BY <1>1, TypesFound DEF NewImage, BetweenPhases, AbandonImage
  <1>6. RunnerFollows' /\ PointersRestored' /\ PrefetchedIsNext'
    BY <1>1, <1>2, <1>5 DEF RunnerFollows, PointersRestored, PrefetchedIsNext
  <1>7. UsesReleased'
    BY <1>1, <1>2 DEF UsesReleased, gpu
  <1>8. KernelsWillRead'
    BY <1>2, <1>5, GpuStays DEF KernelsWillRead
  <1> QED BY <1>2, <1>4, <1>6, <1>7, <1>8, GpuStays DEF PipelineInv

\* A resident phase begins.
LEMMA ResidentKeeps ==
  ASSUME PipelineInv, NEW p \in Phases, BeginResident(p)
  PROVE  PipelineInv'
  <1>1. /\ StateOK /\ RunnerFollows /\ PointersRestored /\ PrefetchedIsNext /\ UsesReleased
    BY DEF PipelineInv
  <1>2. /\ UNCHANGED gpu /\ UNCHANGED <<prefetched, slots, registry>> /\ p \notin Mapped
        /\ host.at = "begin" /\ host.phase = p /\ active.phase = None
        /\ active' = [phase |-> p, slot |-> None, released |-> FALSE]
        /\ host' = [host EXCEPT !.at = "launch", !.left = Kernels]
    BY DEF BeginResident, Begins, Opened
  <1>3. StateOK'
    BY <1>1, <1>2, GpuStays, TypesFound DEF StateOK, PipelineTypeOK
  <1>4. active.slot = None /\ prefetched.slot = None
    BY <1>1, <1>2, TypesFound DEF RunnerFollows, PrefetchedIsNext
  <1>5. RunnerFollows' /\ PointersRestored' /\ PrefetchedIsNext'
    BY <1>1, <1>2, <1>4, TypesFound DEF RunnerFollows, PointersRestored, PrefetchedIsNext
  <1>6. UsesReleased'
    BY <1>1, <1>2, <1>4, TypesFound DEF UsesReleased, gpu
  <1>7. KernelsWillRead'
    BY <1>2, GpuStays DEF KernelsWillRead
  <1> QED BY <1>2, <1>3, <1>5, <1>6, <1>7, GpuStays DEF PipelineInv

\* The pipeline is released.
LEMMA ReleaseAllKeeps ==
  ASSUME PipelineInv, Release
  PROVE  PipelineInv'
  <1>1. /\ StateOK /\ RunnerFollows /\ PointersRestored /\ PrefetchedIsNext /\ UsesReleased /\ TicketsInOrder
    BY DEF PipelineInv
  <1>2. /\ UNCHANGED gpu /\ UNCHANGED <<active, registry>> /\ host.at = "done" /\ copier = <<>>
        /\ \A s \in Slots : Free(s)
        /\ slots' = [s \in Slots |-> [capacity |-> 0, hasRelease |-> FALSE]]
        /\ prefetched' = [phase |-> None, slot |-> None] /\ host' = [host EXCEPT !.at = "idle"]
    BY DEF Release, Nothing
  <1>3. StateOK'
    BY <1>1, <1>2, GpuStays, TypesFound DEF StateOK, PipelineTypeOK
  <1>4. active.phase = None /\ active.slot = None
    BY <1>1, <1>2, TypesFound DEF RunnerFollows
  <1>5. RunnerFollows' /\ PointersRestored' /\ PrefetchedIsNext'
    BY <1>1, <1>2, <1>4, TypesFound DEF RunnerFollows, PointersRestored, PrefetchedIsNext
  <1>6. \A s \in Slots : \A i \in DOMAIN compute : ~Records(compute[i], "released", s)
    BY <1>1, <1>2, FreeIsReleased
  <1>7. UsesReleased'
    BY <1>1, <1>2, <1>6 DEF UsesReleased, gpu
  <1>8. CopiesAwaited' /\ PrefetchedIsBrought'
    BY <1>2 DEF CopiesAwaited, PrefetchedIsBrought, gpu
  <1>9. KernelsWillRead'
    BY <1>2, GpuStays DEF KernelsWillRead
  <1> QED BY <1>2, <1>3, <1>5, <1>7, <1>8, <1>9, GpuStays DEF PipelineInv
-----------------------------------------------------------------------------
(* The runner leaves a phase: its slot is released.                         *)

\* Once the release is recorded every use of every slot is behind a release.
LEMMA EndKeeps ==
  ASSUME PipelineInv, RecordRelease, UNCHANGED <<copier, content, prefetched>>,
         slots' \in [Slots -> [capacity : Nat, hasRelease : BOOLEAN]],
         \A s \in Slots : slots'[s].hasRelease = Released(slots)[s].hasRelease,
         host' \in [at : {"idle", "begin", "launch", "close", "done"}, phase : Phases, left : Nat, images : Nat],
         host'.left \in 0 .. Kernels, host'.images \in 0 .. Images, host'.at # "launch",
         active' \in [phase : Phases \cup {None}, slot : Slots \cup {None}, released : BOOLEAN],
         registry' \in [Phases -> Slots \cup {File}]
  PROVE  StateOK' /\ Ordered'
  <1>1. StateOK /\ QueueOK(copier, "ready") /\ content \in [Slots -> Mapped \cup {None}]
        /\ prefetched \in [phase : Mapped \cup {None}, slot : Slots \cup {None}]
    BY DEF PipelineInv, StateOK, PipelineTypeOK
  <1>2. UNCHANGED <<copier, content, prefetched>>
    OBVIOUS
  <1>3. /\ TicketsInOrder' /\ CopiesAwaited' /\ PrefetchedIsBrought'
        /\ \A s \in Slots : \A i \in DOMAIN compute' :
             /\ Uses(compute'[i], s) => \E j \in DOMAIN compute' : i < j /\ Records(compute'[j], "released", s)
             /\ Records(compute'[i], "released", s) => Released(slots)[s].hasRelease
             /\ compute'[i].op = "kernel" /\ compute'[i].slot = s
                  => WillHold(compute', copier', content', compute'[i].phase, s, i)
        /\ QueueOK(compute', "released") /\ events' \in [Events -> [made : Nat, done : Nat]]
    BY ReleaseKeeps
  <1>4. PipelineTypeOK'
    BY <1>1, <1>2 DEF PipelineTypeOK
  <1>5. StateOK'
    BY <1>1, <1>2, <1>3, <1>4 DEF StateOK
  <1>6. UsesReleased'
    BY <1>3 DEF UsesReleased
  <1>7. KernelsWillRead'
    BY <1>3 DEF KernelsWillRead
  <1> QED BY <1>3, <1>5, <1>6, <1>7 DEF Ordered

\* The phase is closed, at its end or by its guard.
LEMMA CloseKeeps ==
  ASSUME PipelineInv, Close \/ LayerFails
  PROVE  PipelineInv'
  <1>1. StateOK /\ RunnerFollows /\ PointersRestored /\ PrefetchedIsNext
    BY DEF PipelineInv
  <1>2. /\ RecordRelease /\ slots' = Released(slots)
        /\ registry' = [p \in Phases |-> IF p = active.phase THEN File ELSE registry[p]]
        /\ active' = [phase |-> None, slot |-> None, released |-> FALSE]
        /\ UNCHANGED <<prefetched, copier, content>>
        /\ host.at \in {"launch", "close"}
    BY DEF Close, LayerFails, EndPhase, Inactive
  <1>3. \/ host' = [host EXCEPT !.at = "done", !.phase = 0]
        \/ host' = [host EXCEPT !.at = "begin", !.phase = @ + 1] /\ host.phase # Last /\ host.at = "close"
    BY <1>2 DEF Close, LayerFails, AbandonImage
  <1>4. host.phase # Last => host.phase + 1 \in Phases
    <2>1. \A n \in Nat : \A h \in 0 .. n : h # n => h + 1 \in 0 .. n
      OBVIOUS
    <2> QED BY <1>1, <2>1, TypesFound, PipelineAssumption DEF Phases
  <1>5. /\ host' \in [at : {"idle", "begin", "launch", "close", "done"}, phase : Phases, left : Nat, images : Nat]
        /\ host'.left \in 0 .. Kernels /\ host'.images \in 0 .. Images /\ host'.at \in {"begin", "done"}
    BY <1>1, <1>3, <1>4, TypesFound
  <1>6. Released(slots) \in [Slots -> [capacity : Nat, hasRelease : BOOLEAN]]
    BY <1>2, ReleaseKeeps
  <1>7. registry' \in [Phases -> Slots \cup {File}]
    BY <1>1, <1>2, TypesFound
  <1>8. StateOK' /\ Ordered'
    BY <1>2, <1>5, <1>6, <1>7, EndKeeps
  <1>9. active.phase = host.phase /\ host.phase \in Phases
    BY <1>1, <1>2, TypesFound DEF RunnerFollows
  <1>10. RunnerFollows'
    BY <1>1, <1>2, <1>5 DEF RunnerFollows
  <1>11. PointersRestored'
    BY <1>1, <1>2, TypesFound DEF PointersRestored
  <1>12. PrefetchedIsNext'
    BY <1>1, <1>2, <1>3, TypesFound DEF PrefetchedIsNext
  <1> QED BY <1>8, <1>10, <1>11, <1>12 DEF PipelineInv, Ordered

\* There is no next phase to copy, or it could not be given a slot.
LEMMA NoPrefetchKeeps ==
  ASSUME PipelineInv, NEW next \in Phases, PrefetchNothing(next) \/ PrefetchFails(next)
  PROVE  PipelineInv'
  <1>1. StateOK /\ RunnerFollows /\ PointersRestored /\ PrefetchedIsNext
    BY DEF PipelineInv
  <1>2. /\ RecordRelease /\ UNCHANGED <<prefetched, copier, content>> /\ host.at = "launch"
    BY DEF PrefetchNothing, PrefetchFails, Prefetching
  <1>3. Released(slots) \in [Slots -> [capacity : Nat, hasRelease : BOOLEAN]]
    BY <1>2, ReleaseKeeps
  <1>4. /\ active.phase = host.phase /\ host.phase \in Phases /\ prefetched.slot = None
        /\ ~active.released
    BY <1>1, <1>2, TypesFound DEF RunnerFollows, PrefetchedIsNext
  <1>5. CASE PrefetchNothing(next)
    <2>1. /\ slots' = Released(slots) /\ host' = [host EXCEPT !.at = "close"]
          /\ active' = [active EXCEPT !.released = Releases] /\ registry' = registry
      BY <1>5 DEF PrefetchNothing
    <2>2. Releases \in BOOLEAN
      BY DEF Releases
    <2>3. active' \in [phase : Phases \cup {None}, slot : Slots \cup {None}, released : BOOLEAN]
      BY <1>1, <2>1, <2>2, TypesFound
    <2>4. StateOK' /\ Ordered'
      BY <1>1, <1>2, <1>3, <2>1, <2>3, EndKeeps, TypesFound
    <2>5. active'.phase = active.phase /\ active'.slot = active.slot /\ host'.at = "close" /\ host'.phase = host.phase
      BY <1>1, <2>1, TypesFound
    <2>6. RunnerFollows' /\ PointersRestored' /\ PrefetchedIsNext'
      BY <1>1, <1>2, <1>4, <2>1, <2>5 DEF RunnerFollows, PointersRestored, PrefetchedIsNext
    <2> QED BY <2>4, <2>6 DEF PipelineInv, Ordered
  <1>6. CASE PrefetchFails(next)
    <2>1. /\ slots' = [Released(slots) EXCEPT ![Other].capacity = 0] /\ host' = [host EXCEPT !.at = "done", !.phase = 0]
          /\ active' = [phase |-> None, slot |-> None, released |-> FALSE]
          /\ registry' = [registry EXCEPT ![active.phase] = File]
      BY <1>6 DEF PrefetchFails, AbandonImage, Inactive
    <2>2. /\ slots' \in [Slots -> [capacity : Nat, hasRelease : BOOLEAN]]
          /\ \A s \in Slots : slots'[s].hasRelease = Released(slots)[s].hasRelease
      BY <1>3, <2>1
    <2>3. registry' \in [Phases -> Slots \cup {File}]
      BY <1>1, <2>1, TypesFound
    <2>4. StateOK' /\ Ordered'
      BY <1>1, <1>2, <2>1, <2>2, <2>3, EndKeeps, TypesFound
    <2>5. RunnerFollows'
      BY <1>1, <1>2, <2>1, TypesFound DEF RunnerFollows
    <2>6. PointersRestored'
      BY <1>1, <1>4, <2>1, TypesFound DEF PointersRestored
    <2>7. PrefetchedIsNext'
      BY <1>2, <1>4 DEF PrefetchedIsNext
    <2> QED BY <2>4, <2>5, <2>6, <2>7 DEF PipelineInv, Ordered
  <1> QED BY <1>5, <1>6
-----------------------------------------------------------------------------
(* The runner enqueues a kernel.                                            *)

\* A step that is not a copy into the slot does not change what it will hold.
LEMMA HoldLasts ==
  ASSUME NEW t \in Seq(Ops), NEW c \in Seq(Ops), NEW held, NEW p, NEW s,
         t # <<>>, WillHold(t, c, held, p, s, Len(t)), ~Copies(t[Len(t)], s)
  PROVE  WillHold(t, c, held, p, s, Len(t) + 1)
  <1> DEFINE n == Len(t)
  <1>1. n \in Nat /\ DOMAIN t = 1 .. n /\ (\A i \in DOMAIN c : i \in Nat)
    BY Places
  <1>2. \A k : ~OverBefore(t, c, s, n, k)
    BY <1>1 DEF OverBefore
  <1>3. \A i \in DOMAIN t : i < n + 1 => i < n \/ i = n
    BY <1>1
  <1>4. \A i \in DOMAIN t : i \in Nat /\ (i < n => i < n + 1)
    BY <1>1
  <1>5. ~Copies(t[n], s)
    OBVIOUS
  <1>6. \A k : Awaits(t, c, s, n, k) => Awaits(t, c, s, n + 1, k)
    BY <1>4 DEF Awaits
  <1>7. WillHold(t, c, held, p, s, n)
    OBVIOUS
  <1> HIDE DEF n
  <1>8. CASE CopiedHere(t, c, p, s, n)
    <2>1. CopiedHere(t, c, p, s, n + 1)
      BY <1>2, <1>3, <1>4, <1>5, <1>8 DEF CopiedHere
    <2> QED BY <2>1 DEF WillHold, n
  <1>9. CASE CopiedThere(t, c, p, s, n)
    <2>1. CopiedThere(t, c, p, s, n + 1)
      BY <1>2, <1>3, <1>5, <1>6, <1>9 DEF CopiedThere
    <2> QED BY <2>1 DEF WillHold, n
  <1>10. CASE IsThere(t, c, held, p, s, n)
    <2>1. IsThere(t, c, held, p, s, n + 1)
      BY <1>2, <1>3, <1>5, <1>10 DEF IsThere
    <2> QED BY <2>1 DEF WillHold, n
  <1> QED BY <1>7, <1>8, <1>9, <1>10 DEF WillHold

\* What is enqueued is the last of the queue.
LEMMA LastPlace ==
  ASSUME NEW q \in Seq(Ops), NEW o \in Ops
  PROVE  /\ Append(q, o) \in Seq(Ops) /\ Append(q, o) # <<>> /\ Len(Append(q, o)) = Len(q) + 1
         /\ Append(q, o)[Len(q) + 1] = o /\ Len(q) + 1 \in DOMAIN Append(q, o)
         /\ Len(q) + 1 \in 1 .. Len(q) + 1 /\ Len(q) \in Nat
         /\ \A i \in DOMAIN Append(q, o) : i \in DOMAIN q \/ i = Len(q) + 1
         /\ \A i \in DOMAIN q : Append(q, o)[i] = q[i] /\ i < Len(q) + 1 /\ i \in Nat
  <1>1. /\ Append(q, o) \in Seq(Ops) /\ Len(Append(q, o)) = Len(q) + 1 /\ Len(q) \in Nat
        /\ DOMAIN Append(q, o) = 1 .. Len(q) + 1 /\ DOMAIN q = 1 .. Len(q)
        /\ Append(q, o)[Len(q) + 1] = o
        /\ \A i \in DOMAIN q : Append(q, o)[i] = q[i]
    BY AppendMoves
  <1>2. \A n \in Nat : n + 1 \in 1 .. n + 1 /\ (\A i \in 1 .. n + 1 : i \in 1 .. n \/ i = n + 1)
                       /\ (\A i \in 1 .. n : i < n + 1 /\ i \in Nat)
    OBVIOUS
  <1>3. Append(q, o) # <<>>
    BY <1>1, EmptySeq
  <1> QED BY <1>1, <1>2, <1>3

\* Nothing is recorded: the events and their numbers are as they were.
LEMMA TicketsStay ==
  ASSUME StateOK, TicketsInOrder, UNCHANGED <<events, copier>>, NEW o \in Ops, o.op # "record",
         compute' = Append(compute, o)
  PROVE  TicketsInOrder'
  <1>1. compute \in Seq(Ops)
    BY DEF StateOK, QueueOK
  <1>2. ASSUME NEW s \in Slots
        PROVE  Numbered(compute', "released", s, events[<<"released", s>>])
    <2>1. events[<<"released", s>>].done \in Nat /\ events[<<"released", s>>].made \in Nat
      BY DEF StateOK, Events
    <2>2. ~Records(o, "released", s)
      BY DEF Records
    <2>3. Numbered(compute, "released", s, events[<<"released", s>>])
      BY DEF TicketsInOrder
    <2> QED BY <1>1, <2>1, <2>2, <2>3, NumberedAppend
  <1> QED BY <1>2 DEF TicketsInOrder

\* A kernel is launched.
LEMMA LaunchKeeps ==
  ASSUME PipelineInv, Launch
  PROVE  PipelineInv'
  <1> DEFINE q == compute
             x == registry[active.phase]
             o == Kernel(active.phase, x)
             t == Append(q, o)
  <1>1. /\ StateOK /\ RunnerFollows /\ PointersRestored /\ PrefetchedIsNext /\ TicketsInOrder
        /\ UsesReleased /\ KernelsWillRead /\ q \in Seq(Ops) /\ copier \in Seq(Ops) /\ QueueOK(q, "released")
    BY DEF PipelineInv, StateOK, QueueOK
  <1>2. /\ host.at = "launch" /\ host.left > 0 /\ compute' = t /\ host' = [host EXCEPT !.left = @ - 1]
        /\ UNCHANGED <<active, prefetched, slots, registry, events, copier, content>>
    BY DEF Launch
  <1>3. /\ active.phase = host.phase /\ active.phase \in Phases /\ ~active.released /\ prefetched.slot = None
        /\ active.phase # None
    BY <1>1, <1>2, TypesFound DEF RunnerFollows, PrefetchedIsNext
  <1>4. x \in Slots \cup {File} /\ (x # File => x = active.slot) /\ (active.slot # None => x = active.slot)
    BY <1>1, <1>3, TypesFound DEF PointersRestored, RunnerFollows
  <1>5. o \in Ops /\ OpOK(o, "released")
    BY <1>1, <1>3, <1>4, TypesFound, OpsOK
  <1>6. o.op = "kernel" /\ o.slot = x /\ o.phase = active.phase
    BY DEF Kernel
  <1>7. QueueOK(compute', "released")
    BY <1>1, <1>2, <1>5, AppendOK
  <1>8. /\ host' \in [at : {"idle", "begin", "launch", "close", "done"}, phase : Phases, left : Nat, images : Nat]
        /\ host'.left \in 0 .. Kernels /\ host'.images \in 0 .. Images /\ host'.at = "launch" /\ host'.phase = host.phase
    <2>1. \A n \in Nat : \A l \in 0 .. n : l > 0 => l - 1 \in 0 .. n /\ l - 1 \in Nat
      OBVIOUS
    <2>2. host.left - 1 \in 0 .. Kernels /\ host.left - 1 \in Nat
      BY <1>1, <1>2, <2>1, TypesFound
    <2> QED BY <1>1, <1>2, <2>2, TypesFound
  <1>9. StateOK'
    BY <1>1, <1>2, <1>7, <1>8 DEF StateOK, PipelineTypeOK
  <1>10. RunnerFollows' /\ PointersRestored' /\ PrefetchedIsNext'
    BY <1>1, <1>2, <1>3, <1>8 DEF RunnerFollows, PointersRestored, PrefetchedIsNext
  <1> HIDE DEF o, x
  <1>11. /\ \A i \in DOMAIN t : i \in DOMAIN q \/ i = Len(q) + 1
         /\ \A i \in DOMAIN q : t[i] = q[i] /\ i < Len(q) + 1
         /\ t \in Seq(Ops) /\ t # <<>> /\ Len(t) = Len(q) + 1 /\ t[Len(q) + 1] = o
         /\ Len(q) + 1 \in 1 .. Len(q) + 1 /\ \A i \in DOMAIN q : i \in DOMAIN t
    <2>1. \A i \in DOMAIN q : i \in DOMAIN t
      BY <1>1, <1>5, AppendMoves, GrownPlaces
    <2> QED BY <1>1, <1>5, <2>1, LastPlace
  <1>12. TicketsInOrder'
    BY <1>1, <1>2, <1>5, <1>6, TicketsStay
  <1>13. UsesReleased'
    <2> SUFFICES ASSUME NEW s \in Slots
                 PROVE  /\ s # active.slot =>
                             \A i \in DOMAIN t : Uses(t[i], s) => \E j \in DOMAIN t : i < j /\ Records(t[j], "released", s)
                        /\ \A i \in DOMAIN t : Records(t[i], "released", s) => slots[s].hasRelease
      BY <1>2, <1>3 DEF UsesReleased
    <2>1. Uses(o, s) => s = active.slot
      BY <1>4, <1>6, PipelineAssumption DEF Uses, Waits
    <2>2. ~Records(o, "released", s)
      BY <1>6 DEF Records
    <2>3. s # active.slot => \A i \in DOMAIN q : Uses(q[i], s) => \E j \in DOMAIN q : i < j /\ Records(q[j], "released", s)
      BY <1>1 DEF UsesReleased
    <2>4. \A i \in DOMAIN q : Records(q[i], "released", s) => slots[s].hasRelease
      BY <1>1 DEF UsesReleased
    <2> HIDE DEF t, q
    <2> QED BY <1>11, <2>1, <2>2, <2>3, <2>4
  <1>14. /\ \A s \in Slots \ {prefetched.slot} : \A k \in DOMAIN copier :
              Copies(copier[k], s) => Awaits(compute', copier, s, Len(compute') + 1, k)
         /\ PrefetchedIsBrought'
         /\ \A s \in Slots : \A i \in DOMAIN q : q[i].op = "kernel" /\ q[i].slot = s
              => WillHold(compute', copier, content, q[i].phase, s, i)
         /\ \A p, s : \A i \in 1 .. Len(q) + 1 : WillHold(q, copier, content, p, s, i)
              => WillHold(compute', copier, content, p, s, i)
    BY <1>2, <1>5, <1>6, Enqueues
  <1>15. CopiesAwaited'
    BY <1>2, <1>14 DEF CopiesAwaited
  <1>16. active.slot # None => WillHold(t, copier, content, active.phase, active.slot, Len(q) + 1)
    BY <1>1, <1>2, <1>11, <1>14 DEF KernelsWillRead
  <1>17. KernelsWillRead'
    <2>1. ASSUME NEW s \in Slots, NEW i \in DOMAIN t, t[i].op = "kernel", t[i].slot = s
          PROVE  WillHold(t, copier, content, t[i].phase, s, i)
      <3>1. CASE i \in DOMAIN q
        BY <1>2, <1>11, <1>14, <2>1, <3>1
      <3>2. CASE i = Len(q) + 1
        <4>1. s = x /\ t[i].phase = active.phase
          BY <1>6, <1>11, <2>1, <3>2
        <4>2. s = active.slot /\ s # None
          BY <1>1, <1>4, <4>1, PipelineAssumption, TypesFound
        <4> QED BY <1>16, <3>2, <4>1, <4>2
      <3> QED BY <1>11, <3>1, <3>2
    <2>2. ASSUME active.slot # None
          PROVE  WillHold(t, copier, content, active.phase, active.slot, Len(t) + 1)
      <3>1. ~Copies(t[Len(t)], active.slot)
        BY <1>6, <1>11 DEF Copies
      <3>2. WillHold(t, copier, content, active.phase, active.slot, Len(t))
        BY <1>11, <1>16, <2>2
      <3> HIDE DEF t
      <3> QED BY <1>1, <1>11, <3>1, <3>2, HoldLasts
    <2> HIDE DEF t
    <2> QED BY <1>2, <2>1, <2>2 DEF KernelsWillRead
  <1> QED BY <1>9, <1>10, <1>12, <1>13, <1>14, <1>15, <1>17 DEF PipelineInv
-----------------------------------------------------------------------------
(* The runner begins a mapped phase.                                        *)

\* The phase is opened in slot x, and nothing is prefetched any more.
LEMMA OpenedFollows ==
  ASSUME PipelineInv, NEW p \in Phases, Begins(p), NEW x \in Slots, Opened(p, x),
         prefetched' = [phase |-> None, slot |-> None]
  PROVE  /\ RunnerFollows' /\ PointersRestored' /\ PrefetchedIsNext' /\ active.slot = None
         /\ host' \in [at : {"idle", "begin", "launch", "close", "done"}, phase : Phases, left : Nat, images : Nat]
         /\ host'.left \in 0 .. Kernels /\ host'.images \in 0 .. Images /\ host'.at = "launch"
         /\ active' \in [phase : Phases \cup {None}, slot : Slots \cup {None}, released : BOOLEAN]
         /\ active'.phase = p /\ active'.slot = x /\ ~active'.released
         /\ registry' \in [Phases -> Slots \cup {File}]
  <1>1. StateOK /\ RunnerFollows /\ PointersRestored
    BY DEF PipelineInv
  <1>2. /\ host.at = "begin" /\ host.phase = p /\ active.phase = None /\ x # None
        /\ active' = [phase |-> p, slot |-> x, released |-> FALSE]
        /\ registry' = [registry EXCEPT ![p] = x]
        /\ host' = [host EXCEPT !.at = "launch", !.left = Kernels]
    BY TypesFound, <1>1 DEF Opened, Begins
  <1>3. active.slot = None
    BY <1>1, <1>2 DEF RunnerFollows
  <1>4. /\ host' \in [at : {"idle", "begin", "launch", "close", "done"}, phase : Phases, left : Nat, images : Nat]
        /\ host'.left \in 0 .. Kernels /\ host'.images \in 0 .. Images /\ host'.at = "launch" /\ host'.phase = p
        /\ active' \in [phase : Phases \cup {None}, slot : Slots \cup {None}, released : BOOLEAN]
        /\ active'.phase = p /\ active'.slot = x /\ ~active'.released
        /\ registry' \in [Phases -> Slots \cup {File}] /\ registry'[p] = x
    BY <1>1, <1>2, TypesFound
  <1>5. \A r \in Phases : r # p => registry'[r] = File
    BY <1>1, <1>2, TypesFound DEF PointersRestored
  <1>6. RunnerFollows' /\ PointersRestored' /\ PrefetchedIsNext'
    BY <1>1, <1>4, <1>5, TypesFound DEF RunnerFollows, PointersRestored, PrefetchedIsNext
  <1> QED BY <1>3, <1>4, <1>6

\* The last copy into a slot that was prefetched is awaited, if it is still to be done.
LEMMA PrefetchedAwaited ==
  ASSUME StateOK, TicketsInOrder, NEW x \in Slots, NEW t \in Seq(Ops), NEW j \in DOMAIN t, t[j] = Wait("ready", x),
         NEW k \in DOMAIN copier, NEW m \in DOMAIN copier, k < m, Records(copier[m], "ready", x)
  PROVE  Awaits(t, copier, x, j + 1, k)
  <1>1. copier[m].ticket <= events[<<"ready", x>>].made
    BY DEF TicketsInOrder, Numbered
  <1>2. t[j].ticket = events[<<"ready", x>>].made /\ Waits(t[j], "ready", x)
    BY DEF Wait, Waits
  <1>3. j < j + 1
    BY Places
  <1> QED BY <1>1, <1>2, <1>3 DEF Awaits

\* The compute stream waits for the copy: what was brought is what the slot will hold.
LEMMA BeginPrefetchedKeeps ==
  ASSUME PipelineInv, NEW p \in Phases, BeginPrefetched(p)
  PROVE  PipelineInv'
  <1> DEFINE q == compute
             c == copier
             x == prefetched.slot
             o == Wait("ready", x)
             t == Append(q, o)
  <1>1. /\ StateOK /\ RunnerFollows /\ TicketsInOrder /\ PrefetchedIsBrought
        /\ UsesReleased /\ KernelsWillRead /\ q \in Seq(Ops) /\ c \in Seq(Ops) /\ QueueOK(q, "released")
    BY DEF PipelineInv, StateOK, QueueOK
  <1>2. /\ Begins(p) /\ p \in Mapped /\ prefetched.phase = p /\ compute' = t /\ Opened(p, x)
        /\ prefetched' = [phase |-> None, slot |-> None]
        /\ UNCHANGED <<slots, events, copier, content>>
    BY DEF BeginPrefetched, Nothing
  <1>3. x \in Slots /\ x # None
    BY <1>1, <1>2, TypesFound DEF RunnerFollows
  <1>4. o \in Ops /\ OpOK(o, "released") /\ o.op = "wait" /\ o.slot = x
    BY <1>1, <1>3, OpsOK DEF Wait
  <1>5. QueueOK(compute', "released")
    BY <1>1, <1>2, <1>4, AppendOK
  <1>6. /\ RunnerFollows' /\ PointersRestored' /\ PrefetchedIsNext' /\ active.slot = None
        /\ host' \in [at : {"idle", "begin", "launch", "close", "done"}, phase : Phases, left : Nat, images : Nat]
        /\ host'.left \in 0 .. Kernels /\ host'.images \in 0 .. Images /\ host'.at = "launch"
        /\ active' \in [phase : Phases \cup {None}, slot : Slots \cup {None}, released : BOOLEAN]
        /\ active'.phase = p /\ active'.slot = x /\ ~active'.released
        /\ registry' \in [Phases -> Slots \cup {File}]
    BY <1>2, <1>3, OpenedFollows
  <1>7. StateOK'
    BY <1>1, <1>2, <1>5, <1>6 DEF StateOK, PipelineTypeOK
  <1> HIDE DEF o
  <1>8. /\ \A i \in DOMAIN t : i \in DOMAIN q \/ i = Len(q) + 1
        /\ \A i \in DOMAIN q : t[i] = q[i] /\ i < Len(q) + 1 /\ i \in DOMAIN t /\ i \in Nat
        /\ t \in Seq(Ops) /\ t # <<>> /\ Len(t) = Len(q) + 1 /\ t[Len(q) + 1] = o
        /\ Len(q) + 1 \in 1 .. Len(q) + 1 /\ Len(q) + 1 \in DOMAIN t
    <2>1. \A i \in DOMAIN q : i \in DOMAIN t
      BY <1>1, <1>4, AppendMoves, GrownPlaces
    <2> QED BY <1>1, <1>4, <2>1, LastPlace
  <1>9. TicketsInOrder'
    BY <1>1, <1>2, <1>4, TicketsStay
  <1>10. UsesReleased'
    <2> SUFFICES ASSUME NEW s \in Slots
                 PROVE  /\ s # x =>
                             \A i \in DOMAIN t : Uses(t[i], s) => \E j \in DOMAIN t : i < j /\ Records(t[j], "released", s)
                        /\ \A i \in DOMAIN t : Records(t[i], "released", s) => slots[s].hasRelease
      BY <1>2, <1>6 DEF UsesReleased
    <2>1. Uses(o, s) => s = x
      BY <1>4 DEF Uses, Waits
    <2>2. ~Records(o, "released", s)
      BY <1>4 DEF Records
    <2>3. \A i \in DOMAIN q : Uses(q[i], s) => \E j \in DOMAIN q : i < j /\ Records(q[j], "released", s)
      BY <1>1, <1>6, TypesFound DEF UsesReleased
    <2>4. \A i \in DOMAIN q : Records(q[i], "released", s) => slots[s].hasRelease
      BY <1>1 DEF UsesReleased
    <2> HIDE DEF t, q
    <2> QED BY <1>8, <2>1, <2>2, <2>3, <2>4
  <1>11. /\ \A s \in Slots \ {x} : \A k \in DOMAIN c :
              Copies(c[k], s) => Awaits(compute', c, s, Len(compute') + 1, k)
         /\ \A s \in Slots : \A i \in DOMAIN q : q[i].op = "kernel" /\ q[i].slot = s
              => WillHold(compute', c, content, q[i].phase, s, i)
    BY <1>2, <1>4, Enqueues
  <1>12. Brought(q, c, content, p, x)
    BY <1>1, <1>2, <1>3 DEF PrefetchedIsBrought
  <1>13. ASSUME NEW k \in DOMAIN c, NEW m \in DOMAIN c, k < m, Records(c[m], "ready", x)
         PROVE  Awaits(t, c, x, Len(t) + 1, k)
    <2>1. t[Len(t)] = Wait("ready", x) /\ Len(t) \in DOMAIN t
      BY <1>8 DEF o
    <2>2. t \in Seq(Ops)
      BY <1>8
    <2> HIDE DEF t
    <2> QED BY <1>1, <1>3, <1>13, <2>1, <2>2, PrefetchedAwaited
  <1>14. \A k \in DOMAIN c : Copies(c[k], x) => Awaits(t, c, x, Len(t) + 1, k)
    <2>1. SUFFICES ASSUME NEW k \in DOMAIN c, Copies(c[k], x)
                   PROVE  Awaits(t, c, x, Len(t) + 1, k)
      OBVIOUS
    <2>2. PICK k0 \in DOMAIN c, m \in DOMAIN c :
            k0 < m /\ Records(c[m], "ready", x) /\ \A h \in DOMAIN c : k0 < h => ~Copies(c[h], x)
      BY <1>12, <2>1 DEF Brought
    <2>3. k < m
      BY <1>1, <2>1, <2>2, Places
    <2> QED BY <1>13, <2>2, <2>3
  <1>15. CopiesAwaited'
    BY <1>2, <1>11, <1>14 DEF CopiesAwaited
  <1>16. PrefetchedIsBrought'
    BY <1>2 DEF PrefetchedIsBrought
  <1>17. WillHold(t, c, content, p, x, Len(t) + 1)
    <2>1. ~Copies(o, x)
      BY <1>4 DEF Copies
    <2>2. CASE /\ content[x] = p
               /\ \A j \in DOMAIN q : ~Copies(q[j], x)
               /\ \A k \in DOMAIN c : ~Copies(c[k], x)
      <3> HIDE DEF t, q
      <3>1. \A j \in DOMAIN t : ~Copies(t[j], x)
        BY <1>8, <2>1, <2>2
      <3> QED BY <2>2, <3>1 DEF WillHold, IsThere
    <2>3. CASE \E k \in DOMAIN c, m \in DOMAIN c :
                 /\ Copies(c[k], x) /\ c[k].phase = p
                 /\ k < m /\ Records(c[m], "ready", x)
                 /\ \A h \in DOMAIN c : k < h => ~Copies(c[h], x)
                 /\ \A j \in DOMAIN q : Copies(q[j], x) => OverBefore(q, c, x, j, k)
      <3>1. PICK k \in DOMAIN c, m \in DOMAIN c :
                 /\ Copies(c[k], x) /\ c[k].phase = p
                 /\ k < m /\ Records(c[m], "ready", x)
                 /\ \A h \in DOMAIN c : k < h => ~Copies(c[h], x)
                 /\ \A j \in DOMAIN q : Copies(q[j], x) => OverBefore(q, c, x, j, k)
        BY <2>3
      <3>2. Awaits(t, c, x, Len(t) + 1, k)
        BY <1>13, <3>1
      <3> HIDE DEF t, q
      <3>3. \A j \in DOMAIN q : OverBefore(q, c, x, j, k) => OverBefore(t, c, x, j, k)
        BY <1>8 DEF OverBefore
      <3>4. \A j \in DOMAIN t : Copies(t[j], x) => OverBefore(t, c, x, j, k)
        BY <1>8, <2>1, <3>1, <3>3
      <3> QED BY <3>1, <3>2, <3>4 DEF WillHold, CopiedThere
    <2> QED BY <1>12, <2>2, <2>3 DEF Brought
  <1>18. KernelsWillRead'
    <2>1. ASSUME NEW s \in Slots, NEW i \in DOMAIN t, t[i].op = "kernel", t[i].slot = s
          PROVE  WillHold(t, c, content, t[i].phase, s, i)
      <3>1. i \in DOMAIN q
        BY <1>4, <1>8, <2>1
      <3> QED BY <1>2, <1>8, <1>11, <2>1, <3>1
    <2> HIDE DEF t
    <2> QED BY <1>2, <1>6, <1>17, <2>1 DEF KernelsWillRead
  <1> QED BY <1>6, <1>7, <1>9, <1>10, <1>15, <1>16, <1>18 DEF PipelineInv
-----------------------------------------------------------------------------
(* The runner begins the first phase: the compute stream copies it itself.  *)

\* A slot that had to grow has been released of all its uses.
LEMMA GrownSlots ==
  ASSUME PipelineInv, NEW s \in Slots, NEW p \in Phases, EnsureSlot(s, p)
  PROVE  /\ Grown(s, p) \in [Slots -> [capacity : Nat, hasRelease : BOOLEAN]]
         /\ \A r \in Slots : \A i \in DOMAIN compute :
              Records(compute[i], "released", r) => Grown(s, p)[r].hasRelease
         /\ \A r \in Slots : r # s => Grown(s, p)[r] = slots[r]
  <1>1. StateOK /\ TicketsInOrder /\ UsesReleased /\ slots \in [Slots -> [capacity : Nat, hasRelease : BOOLEAN]]
    BY DEF PipelineInv, StateOK
  <1>2. Bytes[p] \in Nat
    BY PipelineAssumption
  <1>3. \A r \in Slots : \A i \in DOMAIN compute : Records(compute[i], "released", r) => slots[r].hasRelease
    BY <1>1 DEF UsesReleased
  <1>4. CASE Fits(s, p)
    BY <1>1, <1>3, <1>4 DEF Grown
  <1>5. CASE ~Fits(s, p)
    <2>1. Grown(s, p) = [slots EXCEPT ![s] = [capacity |-> Bytes[p], hasRelease |-> FALSE]]
      BY <1>5 DEF Grown
    <2>2. \A i \in DOMAIN compute : ~Records(compute[i], "released", s)
      BY <1>1, <1>5, FreeIsReleased DEF EnsureSlot
    <2>3. /\ Grown(s, p) \in [Slots -> [capacity : Nat, hasRelease : BOOLEAN]]
          /\ \A r \in Slots : r # s => Grown(s, p)[r] = slots[r]
      BY <1>1, <1>2, <2>1
    <2> QED BY <1>3, <2>2, <2>3
  <1> QED BY <1>4, <1>5

\* Every copy of the copier into the slot was awaited, so that this one is the last.
LEMMA BeginCopyingKeeps ==
  ASSUME PipelineInv, NEW p \in Phases, BeginCopying(p), ~(EnsureFails(0, p) /\ AbandonImage /\ UNCHANGED <<active, registry, gpu>>)
  PROVE  PipelineInv'
  <1> DEFINE q == compute
             c == copier
             o == Copy(p, 0)
             t == Append(q, o)
  <1>1. /\ StateOK /\ RunnerFollows /\ TicketsInOrder /\ CopiesAwaited
        /\ UsesReleased /\ KernelsWillRead /\ q \in Seq(Ops) /\ c \in Seq(Ops) /\ QueueOK(q, "released")
    BY DEF PipelineInv, StateOK, QueueOK
  <1>2. /\ Begins(p) /\ p \in Mapped /\ prefetched.slot = None /\ compute' = t /\ Opened(p, 0)
        /\ EnsureSlot(0, p) /\ slots' = Grown(0, p)
        /\ UNCHANGED <<prefetched, events, copier, content>>
    BY DEF BeginCopying
  <1>3. /\ 0 \in Slots /\ prefetched' = [phase |-> None, slot |-> None] /\ None \notin Slots
    <2>1. prefetched.phase = None
      BY <1>1, <1>2 DEF RunnerFollows
    <2> QED BY <1>1, <1>2, <2>1, TypesFound
  <1>4. o \in Ops /\ OpOK(o, "released") /\ o.op = "copy" /\ o.slot = 0 /\ o.phase = p
    BY <1>1, <1>2, <1>3, OpsOK DEF Copy
  <1>5. QueueOK(compute', "released")
    BY <1>1, <1>2, <1>4, AppendOK
  <1>6. /\ RunnerFollows' /\ PointersRestored' /\ PrefetchedIsNext' /\ active.slot = None
        /\ host' \in [at : {"idle", "begin", "launch", "close", "done"}, phase : Phases, left : Nat, images : Nat]
        /\ host'.left \in 0 .. Kernels /\ host'.images \in 0 .. Images /\ host'.at = "launch"
        /\ active' \in [phase : Phases \cup {None}, slot : Slots \cup {None}, released : BOOLEAN]
        /\ active'.phase = p /\ active'.slot = 0 /\ ~active'.released
        /\ registry' \in [Phases -> Slots \cup {File}]
    BY <1>2, <1>3, OpenedFollows
  <1>7. /\ slots' \in [Slots -> [capacity : Nat, hasRelease : BOOLEAN]]
        /\ \A r \in Slots : \A i \in DOMAIN q : Records(q[i], "released", r) => slots'[r].hasRelease
    BY <1>2, <1>3, GrownSlots
  <1>8. StateOK'
    BY <1>1, <1>2, <1>5, <1>6, <1>7 DEF StateOK, PipelineTypeOK
  <1> HIDE DEF o
  <1>9. /\ \A i \in DOMAIN t : i \in DOMAIN q \/ i = Len(q) + 1
        /\ \A i \in DOMAIN q : t[i] = q[i] /\ i < Len(q) + 1 /\ i \in DOMAIN t /\ i \in Nat
        /\ t \in Seq(Ops) /\ t # <<>> /\ Len(t) = Len(q) + 1 /\ t[Len(q) + 1] = o
        /\ Len(q) + 1 \in 1 .. Len(q) + 1 /\ Len(q) + 1 \in DOMAIN t /\ Len(q) \in Nat
    <2>1. \A i \in DOMAIN q : i \in DOMAIN t
      BY <1>1, <1>4, AppendMoves, GrownPlaces
    <2> QED BY <1>1, <1>4, <2>1, LastPlace
  <1>10. TicketsInOrder'
    BY <1>1, <1>2, <1>4, TicketsStay
  <1>11. UsesReleased'
    <2> SUFFICES ASSUME NEW s \in Slots
                 PROVE  /\ s # 0 =>
                             \A i \in DOMAIN t : Uses(t[i], s) => \E j \in DOMAIN t : i < j /\ Records(t[j], "released", s)
                        /\ \A i \in DOMAIN t : Records(t[i], "released", s) => slots'[s].hasRelease
      BY <1>2, <1>6 DEF UsesReleased
    <2>1. Uses(o, s) => s = 0
      BY <1>4 DEF Uses, Waits
    <2>2. ~Records(o, "released", s)
      BY <1>4 DEF Records
    <2>3. \A i \in DOMAIN q : Uses(q[i], s) => \E j \in DOMAIN q : i < j /\ Records(q[j], "released", s)
      BY <1>1, <1>6, TypesFound DEF UsesReleased
    <2>4. \A i \in DOMAIN q : Records(q[i], "released", s) => slots'[s].hasRelease
      BY <1>7
    <2> HIDE DEF t, q
    <2> QED BY <1>9, <2>1, <2>2, <2>3, <2>4
  <1>12. /\ \A s \in Slots \ {prefetched.slot} : \A k \in DOMAIN c :
              Copies(c[k], s) => Awaits(compute', c, s, Len(compute') + 1, k)
         /\ \A s \in Slots : \A i \in DOMAIN q : q[i].op = "kernel" /\ q[i].slot = s
              => WillHold(compute', c, content, q[i].phase, s, i)
    BY <1>2, <1>4, Enqueues
  <1>13. CopiesAwaited'
    BY <1>2, <1>12 DEF CopiesAwaited
  <1>14. PrefetchedIsBrought'
    BY <1>2 DEF PrefetchedIsBrought
  <1>15. WillHold(t, c, content, p, 0, Len(t) + 1)
    <2>1. \A k \in DOMAIN c : Copies(c[k], 0) => Awaits(q, c, 0, Len(q) + 1, k)
      BY <1>1, <1>2, <1>3 DEF CopiesAwaited
    <2> HIDE DEF t, q
    <2>2. \A k : Awaits(q, c, 0, Len(q) + 1, k) => Awaits(t, c, 0, Len(q) + 1, k)
      BY <1>9 DEF Awaits
    <2>3. Copies(t[Len(q) + 1], 0) /\ t[Len(q) + 1].phase = p
      BY <1>4, <1>9 DEF Copies
    <2>4. \A h \in DOMAIN t : ~(Len(q) + 1 < h)
      BY <1>9
    <2>5. Len(q) + 1 < Len(t) + 1
      BY <1>9
    <2>6. CopiedHere(t, c, p, 0, Len(t) + 1)
      BY <1>9, <2>1, <2>2, <2>3, <2>4, <2>5 DEF CopiedHere
    <2> QED BY <2>6 DEF WillHold
  <1>16. KernelsWillRead'
    <2>1. ASSUME NEW s \in Slots, NEW i \in DOMAIN t, t[i].op = "kernel", t[i].slot = s
          PROVE  WillHold(t, c, content, t[i].phase, s, i)
      <3>1. i \in DOMAIN q
        BY <1>4, <1>9, <2>1
      <3> QED BY <1>2, <1>9, <1>12, <2>1, <3>1
    <2> HIDE DEF t
    <2> QED BY <1>2, <1>6, <1>15, <2>1 DEF KernelsWillRead
  <1> QED BY <1>6, <1>8, <1>10, <1>11, <1>13, <1>14, <1>16 DEF PipelineInv

\* The first slot could not be allocated: the image is given up.
LEMMA BeginFailsKeeps ==
  ASSUME PipelineInv, NEW p \in Phases, BeginCopying(p), EnsureFails(0, p), AbandonImage, UNCHANGED <<active, registry, gpu>>
  PROVE  PipelineInv'
  <1>1. StateOK /\ RunnerFollows /\ PointersRestored /\ PrefetchedIsNext /\ UsesReleased
    BY DEF PipelineInv
  <1>2. /\ slots' = [slots EXCEPT ![0].capacity = 0] /\ host' = [host EXCEPT !.at = "done", !.phase = 0]
        /\ UNCHANGED gpu /\ UNCHANGED <<active, registry, prefetched>> /\ host.at = "begin"
    BY DEF BeginCopying, EnsureFails, AbandonImage, Begins
  <1>3. /\ slots' \in [Slots -> [capacity : Nat, hasRelease : BOOLEAN]]
        /\ \A s \in Slots : slots'[s].hasRelease = slots[s].hasRelease
    BY <1>1, <1>2, TypesFound
  <1>4. /\ host' \in [at : {"idle", "begin", "launch", "close", "done"}, phase : Phases, left : Nat, images : Nat]
        /\ host'.left \in 0 .. Kernels /\ host'.images \in 0 .. Images /\ host'.at = "done"
    BY <1>1, <1>2, TypesFound
  <1>5. StateOK'
    BY <1>1, <1>2, <1>3, <1>4, GpuStays, TypesFound DEF StateOK, PipelineTypeOK
  <1>6. RunnerFollows' /\ PointersRestored' /\ PrefetchedIsNext'
    BY <1>1, <1>2, <1>4 DEF RunnerFollows, PointersRestored, PrefetchedIsNext
  <1>7. UsesReleased'
    BY <1>1, <1>2, <1>3 DEF UsesReleased, gpu
  <1>8. KernelsWillRead'
    BY <1>2, <1>4, GpuStays DEF KernelsWillRead
  <1> QED BY <1>2, <1>5, <1>6, <1>7, <1>8, GpuStays DEF PipelineInv
-----------------------------------------------------------------------------
(* The runner prefetches the next phase into the other slot.                *)

\* Sequences put together are operations appended.
LEMMA TwoAppended ==
  ASSUME NEW q \in Seq(Ops), NEW x \in Ops, NEW y \in Ops
  PROVE  q \o <<x, y>> = Append(Append(q, x), y) /\ q \o <<x>> = Append(q, x) /\ q \o <<>> = q
  <1>1. <<x>> \in Seq(Ops) /\ <<y>> \in Seq(Ops)
    OBVIOUS
  <1>2. Append(<<x>>, y) = <<x, y>>
    <2>1. <<x, y>> \in Seq(Ops) /\ Len(<<x, y>>) = 2 /\ <<x, y>>[1] = x /\ <<x, y>>[2] = y
      OBVIOUS
    <2>2. Len(<<x>>) = 1 /\ <<x>>[1] = x /\ 1 \in DOMAIN <<x>>
      OBVIOUS
    <2>3. /\ Append(<<x>>, y) \in Seq(Ops) /\ Len(Append(<<x>>, y)) = Len(<<x>>) + 1
          /\ Append(<<x>>, y)[Len(<<x>>) + 1] = y
          /\ \A i \in DOMAIN <<x>> : Append(<<x>>, y)[i] = <<x>>[i]
      BY <1>1, AppendMoves
    <2>4. Len(Append(<<x>>, y)) = 2 /\ Append(<<x>>, y)[1] = x /\ Append(<<x>>, y)[2] = y
      BY <2>2, <2>3
    <2>5. \A i \in 1 .. 2 : i = 1 \/ i = 2
      OBVIOUS
    <2>6. \A i \in 1 .. Len(<<x, y>>) : <<x, y>>[i] = Append(<<x>>, y)[i]
      BY <2>1, <2>4, <2>5
    <2> QED BY <2>1, <2>3, <2>4, <2>6, SeqEqual
  <1>3. Append(<<x>>, y) = <<x>> \o <<y>>
    BY <1>1, AppendIsConcat
  <1>4. Append(q, x) = q \o <<x>> /\ Append(q, x) \in Seq(Ops)
    BY AppendIsConcat, AppendMoves
  <1>5. Append(Append(q, x), y) = (q \o <<x>>) \o <<y>>
    BY <1>4, AppendIsConcat
  <1>6. (q \o <<x>>) \o <<y>> = q \o (<<x>> \o <<y>>)
    BY <1>1, ConcatAssociative
  <1>7. q \o <<>> = q
    BY ConcatEmptySeq
  <1> QED BY <1>2, <1>3, <1>4, <1>5, <1>6, <1>7

\* What the copier is given: a wait perhaps, the copy, the record of it.
Given(c, v, o, r) == (c \o v) \o <<o, r>>

Perhaps(v, w) == v = <<>> \/ v = <<w>>

\* Where the operations are in the queue d that was c.
Prefetches(c, d, w, o, r, v) ==
  \E k, m \in DOMAIN d :
    /\ d[k] = o /\ d[m] = r /\ k < m
    /\ v # <<>> => \E h \in DOMAIN d : h < k /\ d[h] = w
    /\ \A h \in DOMAIN d : (h \in DOMAIN c /\ d[h] = c[h]) \/ d[h] = w \/ h = k \/ h = m
    /\ \A h \in DOMAIN d : k < h => h = m

\* The copier keeps what it had in its place and has the copy and its record behind it.
LEMMA PrefetchQueue ==
  ASSUME NEW c, QueueOK(c, "ready"), NEW w \in Ops, OpOK(w, "ready"), NEW o \in Ops, OpOK(o, "ready"),
         NEW r \in Ops, OpOK(r, "ready"), NEW v, Perhaps(v, w),
         NEW d, d = Given(c, v, o, r)
  PROVE  /\ QueueOK(d, "ready") /\ Moves(c, d, 0) /\ Prefetches(c, d, w, o, r, v)
  <1> DEFINE b == c \o v
             e == Append(b, o)
  <1>1. c \in Seq(Ops)
    BY DEF QueueOK
  <1>2. (v = <<>> => b = c) /\ (v # <<>> => b = Append(c, w))
    BY <1>1, TwoAppended DEF Perhaps
  <1>3. QueueOK(b, "ready")
    BY <1>2, AppendOK
  <1> HIDE DEF b
  <1>4. b \in Seq(Ops)
    BY <1>3 DEF QueueOK
  <1>5. d = Append(e, r) /\ QueueOK(e, "ready")
    BY <1>3, <1>4, TwoAppended, AppendOK DEF b, Given
  <1> HIDE DEF e
  <1>6. e \in Seq(Ops)
    BY <1>5 DEF QueueOK
  <1>7. QueueOK(d, "ready")
    BY <1>5, AppendOK
  <1>8. /\ Len(c) \in Nat /\ Len(b) \in Nat /\ Len(e) = Len(b) + 1 /\ Len(d) = Len(e) + 1
        /\ DOMAIN c = 1 .. Len(c) /\ DOMAIN b = 1 .. Len(b) /\ DOMAIN e = 1 .. Len(e) /\ DOMAIN d = 1 .. Len(d)
        /\ e[Len(b) + 1] = o /\ d[Len(e) + 1] = r
        /\ (\A i \in DOMAIN b : e[i] = b[i]) /\ (\A i \in DOMAIN e : d[i] = e[i])
    <2>1. d \in Seq(Ops)
      BY <1>7 DEF QueueOK
    <2>2. /\ Len(e) = Len(b) + 1 /\ e[Len(b) + 1] = o /\ \A i \in DOMAIN b : e[i] = b[i]
      BY <1>4, AppendMoves DEF e
    <2>3. /\ Len(d) = Len(e) + 1 /\ d[Len(e) + 1] = r /\ \A i \in DOMAIN e : d[i] = e[i]
      <3>1. /\ Len(Append(e, r)) = Len(e) + 1 /\ Append(e, r)[Len(e) + 1] = r
            /\ \A i \in DOMAIN e : Append(e, r)[i] = e[i]
        BY ONLY <1>6, r \in Ops, AppendMoves
      <3> QED BY <1>5, <3>1, Zenon
    <2>4. /\ Len(c) \in Nat /\ Len(b) \in Nat
          /\ DOMAIN c = 1 .. Len(c) /\ DOMAIN b = 1 .. Len(b) /\ DOMAIN e = 1 .. Len(e) /\ DOMAIN d = 1 .. Len(d)
      BY <1>1, <1>4, <1>6, <2>1, Places
    <2> QED BY <2>2, <2>3, <2>4
  <1>9. /\ \A i \in DOMAIN b : (i \in DOMAIN c /\ b[i] = c[i]) \/ b[i] = w
        /\ \A i \in DOMAIN c : i \in DOMAIN b /\ b[i] = c[i]
        /\ v # <<>> => Len(b) \in DOMAIN b /\ b[Len(b)] = w
    <2>1. CASE v # <<>>
      <3>1. b = Append(c, w)
        BY <1>2, <2>1
      <3>2. /\ Len(b) = Len(c) + 1 /\ b[Len(c) + 1] = w /\ Len(c) + 1 \in DOMAIN b
            /\ (\A i \in DOMAIN b : i \in DOMAIN c \/ i = Len(c) + 1)
            /\ (\A i \in DOMAIN c : b[i] = c[i])
        BY <1>1, <3>1, LastPlace
      <3>3. \A i \in DOMAIN c : i \in DOMAIN b
        BY <1>8, <3>2
      <3> QED BY <3>2, <3>3
    <2>2. CASE v = <<>>
      <3>1. b = c
        BY <1>2, <2>2
      <3> QED BY <2>2, <3>1
    <2> QED BY <2>1, <2>2
  <1> DEFINE n == Len(b)
  <1>10. /\ n \in Nat /\ n + 1 \in DOMAIN d /\ n + 2 \in DOMAIN d /\ d[n + 1] = o /\ d[n + 2] = r
         /\ n + 1 < n + 2
         /\ \A i \in DOMAIN d : i \in DOMAIN b \/ i = n + 1 \/ i = n + 2
         /\ \A i \in DOMAIN b : i \in DOMAIN d /\ d[i] = b[i] /\ i < n + 1 /\ i \in Nat
         /\ \A i \in DOMAIN d : n + 1 < i => i = n + 2
    <2> DEFINE l == Len(d)
               k == Len(e)
    <2>1. n \in Nat /\ k = n + 1 /\ l = k + 1 /\ DOMAIN b = 1 .. n /\ DOMAIN e = 1 .. k /\ DOMAIN d = 1 .. l
          /\ e[n + 1] = o /\ d[k + 1] = r
          /\ (\A i \in DOMAIN b : e[i] = b[i]) /\ (\A i \in DOMAIN e : d[i] = e[i])
      BY <1>8
    <2> HIDE DEF n, l, k
    <2>2. /\ l = n + 2 /\ k + 1 = n + 2 /\ n + 1 \in 1 .. k /\ n + 1 \in 1 .. l /\ n + 2 \in 1 .. l
          /\ n + 1 < n + 2
      BY <2>1
    <2>3. d[n + 1] = o /\ d[n + 2] = r
      BY <2>1, <2>2
    <2>4. \A i \in 1 .. l : i \in 1 .. n \/ i = n + 1 \/ i = n + 2
      BY <2>1, <2>2
    <2>5. \A i \in 1 .. n : i \in 1 .. l /\ i \in 1 .. k /\ i < n + 1 /\ i \in Nat
      BY <2>1, <2>2
    <2>6. \A i \in 1 .. l : n + 1 < i => i = n + 2
      BY <2>1, <2>2
    <2> QED BY <2>1, <2>2, <2>3, <2>4, <2>5, <2>6
  <1> HIDE DEF n
  <1>11. \A h \in DOMAIN d : (h \in DOMAIN c /\ d[h] = c[h]) \/ d[h] = w \/ h = n + 1 \/ h = n + 2
    BY <1>9, <1>10
  <1>12. v # <<>> => \E h \in DOMAIN d : h < n + 1 /\ d[h] = w
    <2>1. v # <<>> => n \in DOMAIN b /\ b[n] = w
      BY <1>9 DEF n
    <2> QED BY <1>10, <2>1
  <1>13. Prefetches(c, d, w, o, r, v)
    BY <1>10, <1>11, <1>12 DEF Prefetches
  <1>14. \A i \in DOMAIN c : i \in DOMAIN d /\ d[i] = c[i] /\ i \in Nat
    BY <1>9, <1>10
  <1>15. Moves(c, d, 0)
    <2>1. \A i \in DOMAIN c : i - 0 = i
      BY <1>14
    <2>2. d \in Seq(Ops)
      BY <1>7 DEF QueueOK
    <2> QED BY <1>1, <1>14, <2>1, <2>2 DEF Moves
  <1> QED BY <1>7, <1>13, <1>15
\* The events of the two streams are recorded in order.
LEMMA PrefetchTickets ==
  ASSUME StateOK, TicketsInOrder, NEW a \in Slots, NEW b \in Slots, NEW p \in Phases, p \in Mapped,
         NEW f, Perhaps(f, Wait("released", b)),
         compute' = Append(compute, Record("released", a)),
         copier' = Given(copier, f, Copy(p, b), Record("ready", b)),
         events' = [events EXCEPT ![<<"released", a>>].made = @ + 1, ![<<"ready", b>>].made = @ + 1]
  PROVE  TicketsInOrder' /\ events' \in [Events -> [made : Nat, done : Nat]]
  <1>1. compute \in Seq(Ops) /\ copier \in Seq(Ops) /\ events \in [Events -> [made : Nat, done : Nat]]
    BY DEF StateOK, QueueOK
  <1>2. /\ Record("released", a) \in Ops /\ Record("ready", b) \in Ops /\ Wait("released", b) \in Ops
        /\ Copy(p, b) \in Ops
    BY OpsOK
  <1>3. <<"released", a>> \in Events /\ <<"ready", b>> \in Events /\ <<"released", a>> # <<"ready", b>>
    BY DEF Events
  <1> DEFINE x == <<"released", a>>
             y == <<"ready", b>>
  <1>4. /\ events' \in [Events -> [made : Nat, done : Nat]]
        /\ \A z \in Events : /\ events'[z].done = events[z].done
                             /\ events'[z].made = IF z = x \/ z = y THEN events[z].made + 1 ELSE events[z].made
    <2> HIDE DEF x, y
    <2>1. x \in Events /\ y \in Events /\ x # y /\ events' = [events EXCEPT ![x].made = @ + 1, ![y].made = @ + 1]
      BY <1>3 DEF x, y
    <2>2. /\ events' = [z \in Events |-> events'[z]]
          /\ \A z \in Events : events'[z] = IF z = x \/ z = y THEN [events[z] EXCEPT !.made = @ + 1] ELSE events[z]
      BY <1>1, <2>1
    <2>3. ASSUME NEW z \in Events
          PROVE  /\ events'[z] \in [made : Nat, done : Nat] /\ events'[z].done = events[z].done
                 /\ events'[z].made = IF z = x \/ z = y THEN events[z].made + 1 ELSE events[z].made
      <3>1. events[z] \in [made : Nat, done : Nat] /\ events[z].made + 1 \in Nat
        BY <1>1
      <3>2. CASE z = x \/ z = y
        BY <2>2, <3>1, <3>2
      <3>3. CASE ~(z = x \/ z = y)
        BY <2>2, <3>1, <3>3
      <3> QED BY <3>2, <3>3
    <2> QED BY <2>2, <2>3
  <1>5. ASSUME NEW s \in Slots
        PROVE  /\ Numbered(compute', "released", s, events'[<<"released", s>>])
               /\ Numbered(copier', "ready", s, events'[<<"ready", s>>])
    <2> DEFINE u == events[<<"released", s>>]
               v == events[<<"ready", s>>]
               u2 == events'[<<"released", s>>]
               v2 == events'[<<"ready", s>>]
    <2>1. <<"released", s>> \in Events /\ <<"ready", s>> \in Events
      BY DEF Events
    <2>2. u.done \in Nat /\ u.made \in Nat /\ v.done \in Nat /\ v.made \in Nat
      BY <1>1, <2>1
    <2>3. /\ u2.done = u.done /\ v2.done = v.done
          /\ u2.made = IF s = a THEN u.made + 1 ELSE u.made
          /\ v2.made = IF s = b THEN v.made + 1 ELSE v.made
      <3>1. <<"released", s>> # y /\ <<"ready", s>> # x /\ (<<"released", s>> = x <=> s = a) /\ (<<"ready", s>> = y <=> s = b)
        OBVIOUS
      <3> HIDE DEF x, y
      <3> QED BY <1>4, <2>1, <3>1
    <2>4. Numbered(compute, "released", s, u) /\ Numbered(copier, "ready", s, v)
      BY DEF TicketsInOrder
    <2>5. Numbered(compute', "released", s, u2)
      <3>1. Records(Record("released", a), "released", s) <=> s = a
        BY DEF Records, Record
      <3>2. s = a => Record("released", a).ticket = u.made + 1
        BY DEF Record
      <3> HIDE DEF u, u2
      <3> QED BY <1>1, <1>2, <2>2, <2>3, <2>4, <3>1, <3>2, NumberedAppend
    <2>6. Numbered(copier', "ready", s, v2)
      <3> DEFINE c1 == copier \o f
                 c2 == Append(c1, Copy(p, b))
                 r == Record("ready", b)
      <3>1. c1 \in Seq(Ops) /\ Numbered(c1, "ready", s, v)
        <4>1. CASE f = <<Wait("released", b)>>
          <5>1. ~Records(Wait("released", b), "ready", s)
            BY DEF Records, Wait
          <5>2. c1 = Append(copier, Wait("released", b))
            BY <1>1, <1>2, <4>1, TwoAppended
          <5> HIDE DEF v, c1
          <5> QED BY <1>1, <1>2, <2>2, <2>4, <5>1, <5>2, NumberedAppend, AppendMoves
        <4>2. CASE f = <<>>
          <5>1. c1 = copier
            BY <1>1, <1>2, <4>2, TwoAppended
          <5> QED BY <1>1, <2>4, <5>1
        <4> QED BY <4>1, <4>2 DEF Perhaps
      <3>2. copier' = Append(c2, r)
        <4>1. Copy(p, b) \in Ops /\ r \in Ops /\ c1 \in Seq(Ops) /\ copier' = c1 \o <<Copy(p, b), r>>
          BY <1>2, <3>1 DEF Given
        <4> HIDE DEF c1, r
        <4> QED BY <4>1, TwoAppended
      <3> HIDE DEF c1
      <3>3. c2 \in Seq(Ops) /\ Numbered(c2, "ready", s, v)
        <4>1. ~Records(Copy(p, b), "ready", s)
          BY DEF Records, Copy
        <4> HIDE DEF v
        <4> QED BY <1>2, <2>2, <2>4, <3>1, <4>1, NumberedAppend, AppendMoves
      <3> HIDE DEF c2
      <3>4. Records(r, "ready", s) <=> s = b
        BY DEF Records, Record
      <3>5. s = b => r.ticket = v.made + 1
        BY DEF Record
      <3>6. r \in Ops
        BY <1>2
      <3> HIDE DEF r, v, v2
      <3> QED BY <2>2, <2>3, <3>2, <3>3, <3>4, <3>5, <3>6, NumberedAppend
    <2> QED BY <2>5, <2>6
  <1> QED BY <1>4, <1>5 DEF TicketsInOrder

\* The copy is behind a wait for the last release of its slot, whatever still uses it.
LEMMA PrefetchKeeps ==
  ASSUME PipelineInv, NEW next \in Phases, Prefetch(next)
  PROVE  PipelineInv'
  <1> DEFINE q == compute
             c == copier
             a == active.slot
             b == 1 - a
             g == Grown(b, next)
             r == Record("released", a)
             waits == g[b].hasRelease
             w == Wait("released", b)
             o == Copy(next, b)
             e == Record("ready", b)
             v == IF waits THEN <<w>> ELSE <<>>
             t == Append(q, r)
  <1>1. /\ StateOK /\ RunnerFollows /\ PointersRestored /\ PrefetchedIsNext /\ TicketsInOrder /\ CopiesAwaited
        /\ UsesReleased /\ KernelsWillRead /\ q \in Seq(Ops) /\ c \in Seq(Ops)
        /\ QueueOK(q, "released") /\ QueueOK(c, "ready")
    BY DEF PipelineInv, StateOK, QueueOK
  <1>2. /\ next \in Mapped /\ host.at = "launch" /\ host.left = 0 /\ host.phase < Last /\ next = host.phase + 1
        /\ a # None /\ prefetched.slot = None /\ EnsureSlot(b, next)
        /\ slots' = Released(g) /\ compute' = t
        /\ copier' = (c \o v) \o <<o, e>>
        /\ events' = [events EXCEPT ![<<"released", a>>].made = @ + 1, ![<<"ready", b>>].made = @ + 1]
        /\ prefetched' = [phase |-> next, slot |-> b]
        /\ active' = [active EXCEPT !.released = TRUE]
        /\ host' = [host EXCEPT !.at = "close"]
        /\ UNCHANGED <<registry, content>>
    BY DEF Prefetch, PrefetchAfter, Prefetching, LastRelease, Other
  <1>3. a \in Slots /\ b \in Slots /\ b # a /\ b # None /\ \A s \in Slots : s = a \/ s = b
    <2>1. a \in Slots
      BY <1>1, <1>2, TypesFound
    <2> HIDE DEF a
    <2> QED BY <2>1 DEF Slots, None
  <1>4. /\ active.phase = host.phase /\ active.phase \in Phases /\ ~active.released /\ Releases /\ next # None
    BY <1>1, <1>2, TypesFound DEF RunnerFollows, Releases
  <1>5. /\ g \in [Slots -> [capacity : Nat, hasRelease : BOOLEAN]]
        /\ \A s \in Slots : \A i \in DOMAIN q : Records(q[i], "released", s) => g[s].hasRelease
    <2> HIDE DEF a
    <2> QED BY <1>2, <1>3, GrownSlots
  <1>6. /\ slots' \in [Slots -> [capacity : Nat, hasRelease : BOOLEAN]]
        /\ slots'[a].hasRelease /\ slots'[b] = g[b]
    <2>1. slots' = [g EXCEPT ![a].hasRelease = TRUE]
      BY <1>2, <1>4 DEF Released
    <2> HIDE DEF g, a, b
    <2> QED BY <1>3, <1>5, <2>1
  <1>7. (v = <<>> \/ v = <<w>>) /\ (waits => v # <<>>)
    <2> HIDE DEF w, waits
    <2> QED OBVIOUS
  <1>8. /\ r \in Ops /\ OpOK(r, "released") /\ r.op = "record" /\ r.event = "released" /\ r.slot = a
        /\ w \in Ops /\ OpOK(w, "ready") /\ w.op = "wait" /\ w.event = "released" /\ w.slot = b
        /\ w.ticket = events[<<"released", b>>].made
        /\ o \in Ops /\ OpOK(o, "ready") /\ o.op = "copy" /\ o.slot = b /\ o.phase = next
        /\ e \in Ops /\ OpOK(e, "ready") /\ e.op = "record" /\ e.event = "ready" /\ e.slot = b
    <2> HIDE DEF a, b
    <2> QED BY <1>1, <1>2, <1>3, OpsOK DEF Record, Wait, Copy
  <1> DEFINE d == copier'
  <1>9. /\ QueueOK(d, "ready") /\ Moves(c, d, 0) /\ Prefetches(c, d, w, o, e, v)
    <2>1. QueueOK(c, "ready") /\ d = Given(c, v, o, e) /\ Perhaps(v, w)
      BY <1>1, <1>2, <1>7 DEF Given, Perhaps
    <2> HIDE DEF w, o, e, v, c, d
    <2> QED BY <1>8, <2>1, PrefetchQueue
  <1>10. TicketsInOrder' /\ events' \in [Events -> [made : Nat, done : Nat]]
    <2>1. Perhaps(v, Wait("released", b)) /\ d = Given(c, v, Copy(next, b), Record("ready", b))
      BY <1>2, <1>7 DEF Perhaps, Given
    <2> HIDE DEF a, b, v
    <2> QED BY <1>1, <1>2, <1>3, <1>9, <2>1, PrefetchTickets
  <1>11. QueueOK(compute', "released")
    BY <1>1, <1>2, <1>8, AppendOK
  <1>12. /\ host' \in [at : {"idle", "begin", "launch", "close", "done"}, phase : Phases, left : Nat, images : Nat]
         /\ host'.left \in 0 .. Kernels /\ host'.images \in 0 .. Images /\ host'.at = "close" /\ host'.phase = host.phase
         /\ active' \in [phase : Phases \cup {None}, slot : Slots \cup {None}, released : BOOLEAN]
         /\ active'.phase = active.phase /\ active'.slot = a /\ active'.released
         /\ prefetched' \in [phase : Mapped \cup {None}, slot : Slots \cup {None}]
         /\ prefetched'.phase = next /\ prefetched'.slot = b
    <2> HIDE DEF b
    <2> QED BY <1>1, <1>2, <1>3, TypesFound
  <1>13. StateOK'
    BY <1>1, <1>2, <1>6, <1>9, <1>10, <1>11, <1>12 DEF StateOK, PipelineTypeOK
  <1>14. RunnerFollows' /\ PointersRestored' /\ PrefetchedIsNext'
    <2> HIDE DEF b
    <2> QED BY <1>1, <1>2, <1>3, <1>4, <1>12 DEF RunnerFollows, PointersRestored, PrefetchedIsNext
  <1> HIDE DEF r, w, o, e, g, a, b, waits, v, d
  <1>15. /\ \A i \in DOMAIN t : i \in DOMAIN q \/ i = Len(q) + 1
         /\ \A i \in DOMAIN q : t[i] = q[i] /\ i < Len(q) + 1 /\ i \in DOMAIN t /\ i \in Nat
         /\ t \in Seq(Ops) /\ Len(t) = Len(q) + 1 /\ t[Len(q) + 1] = r
         /\ Len(q) + 1 \in 1 .. Len(q) + 1 /\ Len(q) + 1 \in DOMAIN t /\ Len(q) \in Nat
         /\ Moves(q, t, 0)
    <2>1. Moves(q, t, 0)
      BY <1>1, <1>8, AppendMoves
    <2>2. \A i \in DOMAIN q : i \in DOMAIN t
      BY <2>1, GrownPlaces
    <2> QED BY <1>1, <1>8, <2>1, <2>2, LastPlace
  <1>16. \A k \in DOMAIN c : k \in DOMAIN d /\ d[k] = c[k] /\ k \in Nat
    BY <1>9, GrownPlaces
  <1>17. PICK k \in DOMAIN d, m \in DOMAIN d :
           /\ d[k] = o /\ d[m] = e /\ k < m
           /\ v # <<>> => \E h \in DOMAIN d : h < k /\ d[h] = w
           /\ \A h \in DOMAIN d : (h \in DOMAIN c /\ d[h] = c[h]) \/ d[h] = w \/ h = k \/ h = m
           /\ \A h \in DOMAIN d : k < h => h = m
    BY <1>9 DEF Prefetches
  <1>18. \A s : \A h \in DOMAIN d : Copies(d[h], s) => (h \in DOMAIN c /\ d[h] = c[h]) \/ (h = k /\ s = b)
    BY <1>8, <1>17 DEF Copies
  <1> HIDE DEF t
  \* What the compute stream does with the other slot is over before the copy.
  <1>19. ASSUME NEW i \in DOMAIN q, Uses(q[i], b)
         PROVE  OverBefore(t, d, b, i, k)
    <2> HIDE DEF q
    <2>1. PICK j \in DOMAIN q : i < j /\ Records(q[j], "released", b)
      BY <1>1, <1>3, <1>19 DEF UsesReleased, a, q
    <2>2. v # <<>>
      BY <1>3, <1>5, <1>7, <2>1 DEF waits
    <2>3. PICK h \in DOMAIN d : h < k /\ d[h] = w
      BY <1>17, <2>2
    <2>4. q[j].ticket <= events[<<"released", b>>].made
      BY <1>1, <1>3, <2>1 DEF TicketsInOrder, Numbered, q
    <2>5. Waits(d[h], "released", b) /\ t[j] = q[j] /\ j \in DOMAIN t
      BY <1>8, <1>15, <2>3 DEF Waits
    <2> QED BY <1>8, <2>1, <2>3, <2>4, <2>5 DEF OverBefore
  <1>20. UsesReleased'
    <2> SUFFICES ASSUME NEW s \in Slots
                 PROVE  /\ \A i \in DOMAIN t : Uses(t[i], s) => \E j \in DOMAIN t : i < j /\ Records(t[j], "released", s)
                        /\ \A i \in DOMAIN t : Records(t[i], "released", s) => slots'[s].hasRelease
      BY <1>2 DEF UsesReleased
    <2>1. ~Uses(r, s) /\ (Records(r, "released", s) <=> s = a)
      BY <1>8 DEF Uses, Waits, Records
    <2>2. s # a => \A i \in DOMAIN q : Uses(q[i], s) => \E j \in DOMAIN q : i < j /\ Records(q[j], "released", s)
      BY <1>1 DEF UsesReleased, a
    <2>3. \A i \in DOMAIN q : Records(q[i], "released", s) => g[s].hasRelease
      BY <1>5
    <2> HIDE DEF q
    <2>4. ASSUME NEW i \in DOMAIN t, Uses(t[i], s)
          PROVE  \E j \in DOMAIN t : i < j /\ Records(t[j], "released", s)
      <3>1. i \in DOMAIN q /\ Uses(q[i], s)
        BY <1>15, <2>1, <2>4
      <3> QED BY <1>15, <2>1, <2>2, <3>1
    <2>5. ASSUME NEW i \in DOMAIN t, Records(t[i], "released", s)
          PROVE  slots'[s].hasRelease
      <3>1. CASE s = a
        BY <1>6, <3>1
      <3>2. CASE s # a
        <4>1. i \in DOMAIN q /\ Records(q[i], "released", s)
          BY <1>15, <2>1, <2>5, <3>2
        <4> QED BY <1>3, <1>6, <2>3, <3>2, <4>1
      <3> QED BY <3>1, <3>2
    <2> QED BY <2>4, <2>5
  <1>21. \A s : \A i, j \in Nat : \A h : Awaits(q, c, s, i, h) /\ i <= j => Awaits(t, d, s, j, h)
    <2> HIDE DEF q, c
    <2> QED BY <1>15, <1>16 DEF Awaits
  <1>22. CopiesAwaited'
    <2> SUFFICES ASSUME NEW s \in Slots, s # b, NEW h \in DOMAIN d, Copies(d[h], s)
                 PROVE  Awaits(t, d, s, Len(t) + 1, h)
      BY <1>2, <1>12 DEF CopiesAwaited, d
    <2>1. h \in DOMAIN c /\ Copies(c[h], s)
      BY <1>18
    <2>2. Awaits(q, c, s, Len(q) + 1, h)
      BY <1>1, <1>2, <2>1, TypesFound DEF CopiesAwaited
    <2>3. Len(q) + 1 \in Nat /\ Len(t) + 1 \in Nat /\ Len(q) + 1 <= Len(t) + 1
      BY <1>15
    <2> QED BY <1>21, <2>2, <2>3
  <1>23. PrefetchedIsBrought'
    <2>1. Copies(d[k], b) /\ d[k].phase = next /\ Records(d[m], "ready", b)
      BY <1>8, <1>17 DEF Copies, Records
    <2>2. \A h \in DOMAIN d : k < h => ~Copies(d[h], b)
      BY <1>8, <1>17 DEF Copies
    <2>3. ~Copies(r, b)
      BY <1>8 DEF Copies
    <2>4. \A j \in DOMAIN t : Copies(t[j], b) => j \in DOMAIN q /\ Uses(q[j], b)
      BY <1>15, <2>3 DEF Copies, Uses
    <2>5. Brought(t, d, content, next, b)
      BY <1>17, <1>19, <2>1, <2>2, <2>4 DEF Brought
    <2> QED BY <1>2, <1>12, <2>5 DEF PrefetchedIsBrought, d
  <1>24. KernelsWillRead'
    <2> SUFFICES ASSUME NEW s \in Slots, NEW i \in DOMAIN t, t[i].op = "kernel", t[i].slot = s
                 PROVE  WillHold(t, d, content, t[i].phase, s, i)
      BY <1>2, <1>12 DEF KernelsWillRead, d
    <2>1. i \in DOMAIN q /\ t[i] = q[i]
      BY <1>8, <1>15
    <2>2. WillHold(q, c, content, q[i].phase, s, i)
      BY <1>1, <2>1 DEF KernelsWillRead
    <2>3. \A h \in DOMAIN d : h \notin DOMAIN c /\ Copies(d[h], s) => OverBefore(t, d, s, i, h)
      <3>1. Uses(q[i], s)
        BY <2>1 DEF Uses
      <3> QED BY <1>18, <1>19, <2>1, <3>1
    <2>4. i \in 1 .. Len(q) + 1
      BY <1>15, <2>1, Places, <1>1
    <2> HIDE DEF q, c
    <2> QED BY <1>9, <1>15, <2>1, <2>2, <2>3, <2>4, HoldGrows
  <1> QED BY <1>10, <1>13, <1>14, <1>20, <1>22, <1>23, <1>24 DEF PipelineInv
-----------------------------------------------------------------------------
(* The theorems.                                                            *)

\* At the start nothing is enqueued and no slot has memory.
LEMMA InitHolds == PipelineInit => PipelineInv
  <1> SUFFICES ASSUME PipelineInit
               PROVE  PipelineInv
    OBVIOUS
  <1>1. compute = <<>> /\ copier = <<>> /\ <<>> \in Seq(Ops) /\ DOMAIN compute = {} /\ DOMAIN copier = {}
    BY DEF PipelineInit
  <1>2. 0 \in Phases /\ 0 \in 0 .. Kernels /\ 0 \in 0 .. Images /\ None \notin Phases /\ None \notin Slots
    BY PipelineAssumption DEF Phases, Slots, None
  <1>3. QueueOK(compute, "released") /\ QueueOK(copier, "ready")
    BY <1>1 DEF QueueOK
  <1>4. PipelineTypeOK
    BY <1>2 DEF PipelineInit, PipelineTypeOK, Inactive, Nothing
  <1>5. StateOK
    BY <1>2, <1>3, <1>4 DEF StateOK, PipelineInit, Inactive, Nothing
  <1>6. RunnerFollows /\ PointersRestored /\ PrefetchedIsNext
    BY <1>2 DEF PipelineInit, Inactive, Nothing, RunnerFollows, PointersRestored, PrefetchedIsNext
  <1>7. TicketsInOrder
    <2>1. \A x \in Events : events[x].done = 0 /\ events[x].made = 0
      BY DEF PipelineInit
    <2> QED BY <1>1, <2>1 DEF TicketsInOrder, Numbered, Events
  <1>8. UsesReleased /\ CopiesAwaited
    BY <1>1 DEF UsesReleased, CopiesAwaited
  <1>9. PrefetchedIsBrought /\ KernelsWillRead
    BY <1>1, <1>2 DEF PipelineInit, PrefetchedIsBrought, KernelsWillRead, Nothing
  <1> QED BY <1>5, <1>6, <1>7, <1>8, <1>9 DEF PipelineInv

\* Every step of the host and of the streams keeps it.
LEMMA NextKeeps ==
  ASSUME PipelineInv, [PipelineNext]_pipeline
  PROVE  PipelineInv'
  <1>1. CASE ComputeStep
    BY <1>1, ComputeKeeps
  <1>2. CASE CopyStep
    BY <1>2, CopierKeeps
  <1>3. ASSUME NEW p \in Phases, BeginResident(p) \/ BeginPrefetched(p) \/ BeginCopying(p)
        PROVE  PipelineInv'
    <2>1. CASE BeginResident(p)
      BY <2>1, ResidentKeeps
    <2>2. CASE BeginPrefetched(p)
      BY <2>2, BeginPrefetchedKeeps
    <2>3. CASE BeginCopying(p)
      BY <2>3, BeginCopyingKeeps, BeginFailsKeeps
    <2> QED BY <1>3, <2>1, <2>2, <2>3
  <1>4. CASE Launch
    BY <1>4, LaunchKeeps
  <1>5. ASSUME NEW next \in Phases, PrefetchNothing(next) \/ Prefetch(next) \/ PrefetchFails(next)
        PROVE  PipelineInv'
    BY <1>5, NoPrefetchKeeps, PrefetchKeeps
  <1>6. CASE Close \/ LayerFails
    BY <1>6, CloseKeeps
  <1>7. CASE NewImage \/ BetweenPhases
    BY <1>7, RunnerMoves
  <1>8. CASE Release
    BY <1>8, ReleaseAllKeeps
  <1>9. CASE UNCHANGED pipeline
    BY <1>9 DEF pipeline, PipelineInv, StateOK, PipelineTypeOK, RunnerFollows, PointersRestored, PrefetchedIsNext,
            TicketsInOrder, UsesReleased, CopiesAwaited, PrefetchedIsBrought, KernelsWillRead
  <1> QED BY <1>1, <1>2, <1>3, <1>4, <1>5, <1>6, <1>7, <1>8, <1>9 DEF PipelineNext

(* Whatever the pace of the two streams, the uses of a slot are behind one  *)
(* another, and what each kernel will find there is already determined.     *)
THEOREM PipelineInvariant == PipelineSpec => []PipelineInv
  <1>1. PipelineInit => PipelineInv
    BY InitHolds
  <1>2. PipelineInv /\ [PipelineNext]_pipeline => PipelineInv'
    BY NextKeeps
  <1> QED BY <1>1, <1>2, PTL DEF PipelineSpec

(* A kernel reads the weights of its own phase: no copy of the other stream *)
(* has come into its slot before it, and the one it needs has.              *)
THEOREM KernelsRead == PipelineSpec => []KernelsReadTheirWeights
  <1>1. PipelineInv => KernelsReadTheirWeights
    <2> SUFFICES ASSUME PipelineInv, compute # <<>>, Head(compute).op = "kernel", Head(compute).slot # File
                 PROVE  content[Head(compute).slot] = Head(compute).phase
      BY DEF KernelsReadTheirWeights
    <2>1. compute \in Seq(Ops) /\ copier \in Seq(Ops) /\ KernelsWillRead
      BY DEF PipelineInv, StateOK, QueueOK
    <2>2. Head(compute) = compute[1] /\ 1 \in DOMAIN compute /\ compute[1] \in Ops
      BY <2>1, TailMoves
    <2> DEFINE s == compute[1].slot
    <2>3. s \in Slots
      BY <2>2 DEF Ops
    <2>4. WillHold(compute, copier, content, compute[1].phase, s, 1)
      BY <2>1, <2>2, <2>3 DEF KernelsWillRead
    <2>5. ~CopiedHere(compute, copier, compute[1].phase, s, 1)
      BY <2>1, Places DEF CopiedHere
    <2>6. ~CopiedThere(compute, copier, compute[1].phase, s, 1)
      BY <2>1, HeadsAreFree DEF CopiedThere
    <2> QED BY <2>2, <2>4, <2>5, <2>6 DEF WillHold, IsThere
  <1> QED BY <1>1, PipelineInvariant, PTL

(* However a phase is left, its tensors point to the file again, and what   *)
(* is prefetched is the phase that is begun next.                           *)
THEOREM PhasesAreRestored == PipelineSpec => []RegistryRestored
  <1>1. PipelineInv => RegistryRestored
    BY DEF PipelineInv, RegistryRestored
  <1> QED BY <1>1, PipelineInvariant, PTL

\* Memory is freed or allocated only for a slot that was released after its last use.
LEMMA CapacityChanges ==
  ASSUME PipelineInv, PipelineNext, NEW s \in Slots, slots'[s].capacity # slots[s].capacity
  PROVE  /\ s # active.slot \/ active.released
         /\ s # prefetched.slot \/ copier = <<>>
         /\ Free(s)
  <1>1. /\ StateOK /\ RunnerFollows /\ PrefetchedIsNext
        /\ slots \in [Slots -> [capacity : Nat, hasRelease : BOOLEAN]]
    BY DEF PipelineInv, StateOK
  <1>2. slots' # slots
    OBVIOUS
  <1>3. \A r \in Slots : Released(slots)[r].capacity = slots[r].capacity
    BY <1>1 DEF Released
  <1>4. slots' # Released(slots)
    BY <1>3
  <1>5. \A r \in Slots : \A p : Grown(r, p)[s].capacity # slots[s].capacity => ~Fits(r, p) /\ r = s
    BY <1>1 DEF Grown
  <1>6. ASSUME NEW p \in Phases, BeginCopying(p)
        PROVE  (s # active.slot \/ active.released) /\ s # prefetched.slot /\ Free(s)
    <2>1. prefetched.slot = None /\ active.slot = None /\ s # None /\ 0 \in Slots
      BY <1>1, <1>6, TypesFound DEF BeginCopying, Begins, RunnerFollows
    <2>2. Free(s)
      <3>1. CASE slots' = Grown(0, p) /\ EnsureSlot(0, p)
        BY <1>5, <2>1, <3>1 DEF EnsureSlot
      <3>2. CASE EnsureFails(0, p)
        <4>1. s = 0
          BY <1>1, <2>1, <3>2 DEF EnsureFails
        <4> QED BY <3>2, <4>1 DEF EnsureFails
      <3> QED BY <1>6, <3>1, <3>2 DEF BeginCopying
    <2> QED BY <2>1, <2>2
  <1>7. ASSUME NEW next \in Phases, Prefetch(next) \/ PrefetchFails(next)
        PROVE  (s # active.slot \/ active.released) /\ s # prefetched.slot /\ Free(s)
    <2>1. /\ active.slot \in Slots /\ Other \in Slots /\ Other # active.slot /\ prefetched.slot = None /\ s # None
      <3>1. active.slot \in Slots /\ prefetched.slot = None /\ None \notin Slots
        BY <1>1, <1>7, TypesFound DEF Prefetch, PrefetchAfter, PrefetchFails, Prefetching, PrefetchedIsNext
      <3> QED BY <3>1 DEF Other, Slots
    <2>2. s = Other /\ Free(s)
      <3>1. CASE Prefetch(next)
        <4>1. slots' = Released(Grown(Other, next)) /\ EnsureSlot(Other, next)
          BY <3>1 DEF Prefetch, PrefetchAfter
        <4>2. Released(Grown(Other, next))[s].capacity = Grown(Other, next)[s].capacity
          <5>1. next \in Phases /\ EnsureSlot(Other, next)
            BY <4>1
          <5>2. Grown(Other, next) \in [Slots -> [capacity : Nat, hasRelease : BOOLEAN]]
            BY <2>1, <5>1, GrownSlots
          <5> QED BY <5>2 DEF Released
        <4>3. Grown(Other, next)[s].capacity # slots[s].capacity
          BY <4>1, <4>2
        <4> QED BY <1>5, <2>1, <4>1, <4>3 DEF EnsureSlot
      <3>2. CASE PrefetchFails(next)
        <4>1. slots' = [Released(slots) EXCEPT ![Other].capacity = 0] /\ Free(Other)
          BY <3>2 DEF PrefetchFails
        <4>2. s # Other => slots'[s] = Released(slots)[s]
          <5>1. Released(slots) \in [Slots -> [capacity : Nat, hasRelease : BOOLEAN]]
            BY <1>1 DEF Released
          <5> QED BY <2>1, <4>1, <5>1
        <4> QED BY <1>3, <4>1, <4>2
      <3> QED BY <1>7, <3>1, <3>2
    <2> QED BY <2>1, <2>2
  <1>8. CASE Release
    <2>1. copier = <<>> /\ Free(s) /\ active.slot = None
      BY <1>1, <1>8 DEF Release, RunnerFollows
    <2>2. s # None
      BY <1>1, TypesFound
    <2> QED BY <2>1, <2>2
  <1>9. /\ ~ComputeStep /\ ~CopyStep /\ ~Launch /\ ~BetweenPhases /\ ~NewImage /\ ~Close /\ ~LayerFails
        /\ \A p : ~BeginResident(p) /\ ~BeginPrefetched(p) /\ ~PrefetchNothing(p)
    BY <1>2, <1>4 DEF ComputeStep, CopyStep, Launch, BetweenPhases, NewImage, Close, LayerFails, EndPhase,
                      BeginResident, BeginPrefetched, PrefetchNothing
  <1> QED BY <1>6, <1>7, <1>8, <1>9 DEF PipelineNext

(* The memory of a slot changes only when neither stream has anything left  *)
(* to do with it.                                                           *)
THEOREM SlotsAreIdle == PipelineSpec => SlotsFreedWhenIdle
  <1> DEFINE A == \A s \in Slots : slots'[s].capacity # slots[s].capacity =>
                    \A op \in Queued : op.op \in {"copy", "kernel"} => op.slot # s
  <1>1. PipelineInv /\ [PipelineNext]_pipeline => [A]_pipeline
    <2> SUFFICES ASSUME PipelineInv, PipelineNext, NEW s \in Slots, slots'[s].capacity # slots[s].capacity,
                        NEW op \in Queued, op.op \in {"copy", "kernel"}, op.slot = s
                 PROVE  FALSE
      OBVIOUS
    <2>1. (s # active.slot \/ active.released) /\ (s # prefetched.slot \/ copier = <<>>) /\ Free(s)
      BY CapacityChanges
    <2>2. /\ \A i \in DOMAIN compute : ~Uses(compute[i], s)
          /\ \A k \in DOMAIN copier : ~Copies(copier[k], s)
      BY <2>1, FreeIsIdle
    <2>3. CASE \E i \in DOMAIN compute : op = compute[i]
      BY <2>2, <2>3 DEF Uses
    <2>4. CASE \E k \in DOMAIN copier : op = copier[k]
      <3>1. PICK k \in DOMAIN copier : op = copier[k]
        BY <2>4
      <3>2. op.op = "kernel"
        BY <2>2, <3>1 DEF Copies
      <3>3. OpOK(op, "ready")
        BY <3>1 DEF PipelineInv, StateOK, QueueOK
      <3> QED BY <3>2, <3>3 DEF OpOK
    <2> QED BY <2>3, <2>4 DEF Queued
  <1>2. SlotsFreedWhenIdle <=> [][A]_pipeline
    BY DEF SlotsFreedWhenIdle
  <1> QED BY <1>1, <1>2, PipelineInvariant, PTL DEF PipelineSpec
=============================================================================
