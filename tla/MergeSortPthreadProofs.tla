---------------------- MODULE MergeSortPthreadProofs ----------------------
(***************************************************************************)
(* No two threads of the sort are ever at a copy or a merge of the same    *)
(* ints, and what main prints at the end is what was read, in order: for   *)
(* every number of ints and of threads and every threshold, as long as     *)
(* each thread has been started and reads what it was given.               *)
(*                                                                         *)
(* Part 1.  The calls of all threads form a tree: two calls of different   *)
(* threads are about ints apart, or one of them works on a half that the   *)
(* other has handed on (Pair).  Only a call that has handed on nothing     *)
(* touches its ints.  No thread has been given other data (AllGiven).      *)
(*                                                                         *)
(* Part 2.  merge takes the ints of its halves one by one (Walk), so that  *)
(* it returns all of them (MergeCounts), in order if the halves are        *)
(* (MergeAscending); mergeSort therefore sorts every segment.              *)
(*                                                                         *)
(* Part 3.  Each call finds in the arrays what its line needs: the ints as *)
(* they were read where it has still to sort, the sorted half where a call *)
(* or a thread has returned (CallSorts).  A call that writes has handed on *)
(* nothing, so that by Part 1 no other call finds other ints afterwards.   *)
(***************************************************************************)
EXTENDS MergeSortPthread, FiniteSetTheorems, SequenceTheorems, WellFoundedInduction, TLAPS

-----------------------------------------------------------------------------
(* Part 1: the tree of the calls.                                           *)

Threads == {main} \cup Thread

Frame == [seg : [lo : Nat, size : Nat],
          pc : {"left", "right", "join", "memcpy", "merge"},
          thread : {None} \cup Thread,
          shared : SUBSET Thread]

Within(a, b) == b.lo <= a.lo /\ a.lo + a.size <= b.lo + b.size

Apart(a, b) ==
  \/ a.size = 0 \/ b.size = 0
  \/ a.lo + a.size <= b.lo \/ b.lo + b.size <= a.lo

-----------------------------------------------------------------------------
(* What follows is about the calls F of all threads, the innermost first.   *)

(* Has call k of t lent its left half to a thread that is at work? *)
Lends(F, t, k) ==
  /\ F[t][k].pc \in {"right", "join"}
  /\ F[t][k].thread # None /\ F[F[t][k].thread] # <<>>

(* Segment a is in a half that call k of t has handed on: the left one to a *)
(* thread, or either one to the call above it.                              *)
Inside(F, a, t, k) ==
  \/ Within(a, LeftHalf(F[t][k].seg)) /\ (Lends(F, t, k) \/ (F[t][k].pc = "right" /\ k > 1))
  \/ Within(a, RightHalf(F[t][k].seg)) /\ F[t][k].pc = "join" /\ k > 1

(* A call that has got further than "left" has two ints at least, and no    *)
(* call has started its own thread.                                         *)
SizedCall(F, t, k) ==
  /\ F[t][k].pc # "left" => F[t][k].seg.size >= 2
  /\ F[t][k].pc = "left" => F[t][k].thread = None
  /\ F[t][k].thread # t

(* Call i of t is part of what call j has handed on for a half.             *)
Above(F, t, i, j) ==
  \/ /\ F[t][j].pc = "right"
     /\ Within(F[t][i].seg, LeftHalf(F[t][j].seg))
     /\ j = i + 1 => F[t][i].seg = LeftHalf(F[t][j].seg)
  \/ /\ F[t][j].pc = "join"
     /\ Within(F[t][i].seg, RightHalf(F[t][j].seg))
     /\ j = i + 1 => F[t][i].seg = RightHalf(F[t][j].seg)

(* The segment of the outermost call of t. *)
Outermost(F, t) == F[t][Len(F[t])].seg

(* The outermost call of a thread is on the half that was lent to it. *)
LentCall(F, t, k) == Lends(F, t, k) => Outermost(F, F[t][k].thread) = LeftHalf(F[t][k].seg)

(* A call above another one works on the half that this has called it for.  *)
GoodCall(F, t, k) ==
  /\ SizedCall(F, t, k)
  /\ LentCall(F, t, k)
  /\ \A i \in 1 .. k - 1 : Above(F, t, i, k)

(* Call i of t and call j of u do not get in each other's way.              *)
Pair(F, t, i, u, j) ==
  \/ Apart(F[t][i].seg, F[u][j].seg)
  \/ Inside(F, F[u][j].seg, t, i)
  \/ Inside(F, F[t][i].seg, u, j)

Good(F) ==
  /\ \A t \in Threads : \A k \in 1 .. Len(F[t]) : GoodCall(F, t, k)
  /\ \A t \in Threads : \A u \in Threads \ {t} :
       \A i \in 1 .. Len(F[t]) : \A j \in 1 .. Len(F[u]) : Pair(F, t, i, u, j)

-----------------------------------------------------------------------------
(* The halves of a segment. *)
LEMMA Halves ==
  ASSUME NEW s \in [lo : Nat, size : Nat]
  PROVE  /\ LeftHalf(s) \in [lo : Nat, size : Nat] /\ RightHalf(s) \in [lo : Nat, size : Nat]
         /\ LeftHalf(s).lo = s.lo
         /\ RightHalf(s).lo = s.lo + LeftHalf(s).size
         /\ LeftHalf(s).size + RightHalf(s).size = s.size
         /\ Within(LeftHalf(s), s) /\ Within(RightHalf(s), s)
         /\ s.size >= 2 => LeftHalf(s).size < s.size /\ RightHalf(s).size < s.size
<1> DEFINE h == left_size(s)
<1>1. s.lo \in Nat /\ s.size \in Nat
  OBVIOUS
<1>2. h \in 0 .. s.size /\ (s.size >= 2 => h \in 1 .. s.size - 1)
  BY <1>1 DEF left_size
<1>3. /\ LeftHalf(s).lo = s.lo /\ LeftHalf(s).size = h
      /\ RightHalf(s).lo = s.lo + h /\ RightHalf(s).size = s.size - h
  BY DEF LeftHalf, RightHalf
<1> HIDE DEF h
<1>4. LeftHalf(s) \in [lo : Nat, size : Nat] /\ RightHalf(s) \in [lo : Nat, size : Nat]
  <2>1. s.lo + h \in Nat /\ s.size - h \in Nat /\ h \in Nat
    BY <1>1, <1>2
  <2> QED
    BY <1>1, <2>1 DEF LeftHalf, RightHalf, h
<1> QED
  BY <1>1, <1>2, <1>3, <1>4 DEF Within

(* The index of a call other than the first, before another call was added. *)
LEMMA OneLess ==
  ASSUME NEW n \in Nat, NEW j \in 1 .. n + 1, NEW i \in 1 .. j - 1, i > 1
  PROVE  i - 1 \in 1 .. (j - 1) - 1 /\ i - 1 \in 1 .. n /\ (i - 1) + 1 = i
  OBVIOUS

(* The sequence with a new first element on top of a changed one.           *)
LEMMA PushSeq ==
  ASSUME NEW S, NEW s \in Seq(S), s # <<>>, NEW a \in S, NEW b \in S
  PROVE  /\ <<a>> \o (<<b>> \o Tail(s)) \in Seq(S)
         /\ Len(<<a>> \o (<<b>> \o Tail(s))) = Len(s) + 1
         /\ (<<a>> \o (<<b>> \o Tail(s)))[1] = a
         /\ (<<a>> \o (<<b>> \o Tail(s)))[2] = b
         /\ \A k \in 3 .. Len(s) + 1 : (<<a>> \o (<<b>> \o Tail(s)))[k] = s[k - 1]
  OBVIOUS

(* The sequence with its first element changed. *)
LEMMA RetopSeq ==
  ASSUME NEW S, NEW s \in Seq(S), s # <<>>, NEW b \in S
  PROVE  /\ <<b>> \o Tail(s) \in Seq(S)
         /\ Len(<<b>> \o Tail(s)) = Len(s)
         /\ (<<b>> \o Tail(s))[1] = b
         /\ \A k \in 2 .. Len(s) : (<<b>> \o Tail(s))[k] = s[k]
  OBVIOUS

(* The sequence without its first element. *)
LEMMA PopSeq ==
  ASSUME NEW S, NEW s \in Seq(S), s # <<>>
  PROVE  /\ Tail(s) \in Seq(S) /\ Len(Tail(s)) = Len(s) - 1
         /\ Tail(s) # <<>> <=> Len(s) > 1
         /\ \A k \in 1 .. Len(s) - 1 : Tail(s)[k] = s[k + 1]
<1>1. /\ Tail(s) \in Seq(S) /\ Len(Tail(s)) = Len(s) - 1 /\ Len(s) \in Nat \ {0}
      /\ \A k \in 1 .. Len(s) - 1 : Tail(s)[k] = s[k + 1]
  OBVIOUS
<1>2. Tail(s) = <<>> <=> Len(s) - 1 = 0
  <2>1. Tail(s) = <<>> <=> Len(Tail(s)) = 0
    BY <1>1, EmptySeq
  <2> QED
    BY <1>1, <2>1
<1>3. Len(s) - 1 = 0 <=> ~(Len(s) > 1)
  BY <1>1
<1> QED
  BY <1>1, <1>2, <1>3

-----------------------------------------------------------------------------
Segments == [lo : Nat, size : Nat]

(* The segment of a call is a segment. *)
LEMMA FrameSeg ==
  ASSUME NEW F \in [Threads -> Seq(Frame)], NEW t \in Threads, NEW k \in 1 .. Len(F[t])
  PROVE  /\ F[t][k] \in Frame /\ F[t][k].seg \in Segments
         /\ LeftHalf(F[t][k].seg) \in Segments /\ RightHalf(F[t][k].seg) \in Segments
<1>1. F[t][k] \in Frame
  OBVIOUS
<1>2. F[t][k].seg \in Segments
  BY <1>1 DEF Frame, Segments
<1> QED
  BY <1>1, <1>2, Halves DEF Segments

(* What lies in a part of b lies in b, and apart from what b is apart from. *)
LEMMA Parts ==
  ASSUME NEW a \in Segments, NEW b \in Segments, NEW c \in Segments, Within(a, b)
  PROVE  /\ Within(b, c) => Within(a, c)
         /\ Apart(b, c) => Apart(a, c) /\ Apart(c, a)
         /\ a.size <= b.size
         /\ Apart(b, a) \/ Apart(a, b) => a.size = 0
  BY DEF Segments, Within, Apart

(* A part of what is inside a half is inside it too. *)
LEMMA InsidePart ==
  ASSUME NEW F \in [Threads -> Seq(Frame)], NEW u \in Threads, NEW j \in 1 .. Len(F[u]),
         NEW a \in Segments, NEW b \in Segments, Within(a, b), Inside(F, b, u, j)
  PROVE  Inside(F, a, u, j)
  BY FrameSeg, Parts DEF Inside

(* What is inside a half of a call is smaller than its segment. *)
LEMMA InsideSmaller ==
  ASSUME NEW F \in [Threads -> Seq(Frame)], Good(F), NEW u \in Threads, NEW j \in 1 .. Len(F[u]),
         NEW a \in Segments, Inside(F, a, u, j)
  PROVE  a.size < F[u][j].seg.size
<1> DEFINE s == F[u][j].seg
<1>1. s \in Segments /\ F[u][j].pc # "left"
  BY FrameSeg DEF Inside, Lends
<1>2. s.size >= 2
  BY <1>1 DEF Good, GoodCall, SizedCall
<1>3. Within(a, LeftHalf(s)) \/ Within(a, RightHalf(s))
  BY DEF Inside
<1> HIDE DEF s
<1>4. /\ LeftHalf(s) \in Segments /\ RightHalf(s) \in Segments
      /\ LeftHalf(s).size < s.size /\ RightHalf(s).size < s.size
  <2>1. s \in [lo : Nat, size : Nat]
    BY <1>1 DEF Segments
  <2>2. s.size \in Nat
    BY <2>1
  <2> QED
    BY <1>2, <2>1, <2>2, Halves DEF Segments
<1>5. a.size <= LeftHalf(s).size \/ a.size <= RightHalf(s).size
  BY <1>3, <1>4, Parts
<1>6. a.size < s.size
  BY <1>1, <1>4, <1>5 DEF Segments
<1> QED
  BY <1>6 DEF s

(* No other thread works on ints of an innermost call that has handed on    *)
(* nothing.                                                                 *)
LEMMA Alone ==
  ASSUME NEW F \in [Threads -> Seq(Frame)], Good(F), NEW t \in Threads, F[t] # <<>>,
         \A a : ~Inside(F, a, t, 1),
         NEW u \in Threads \ {t}, NEW j \in 1 .. Len(F[u]),
         Within(F[u][j].seg, F[t][1].seg)
  PROVE  F[u][j].seg.size = 0
<1>1. 1 \in 1 .. Len(F[t])
  OBVIOUS
<1> DEFINE p == F[t][1].seg
           g == F[u][j].seg
<1>2. p \in Segments /\ g \in Segments
  BY <1>1, FrameSeg
<1>3. Apart(p, g) \/ Inside(F, p, u, j)
  BY <1>1 DEF Good, Pair
<1>4. CASE Apart(p, g)
  BY <1>2, <1>4, Parts
<1>5. CASE Inside(F, p, u, j)
  <2>1. p.size < g.size /\ g.size <= p.size
    BY <1>2, <1>5, InsideSmaller, Parts
  <2> QED
    BY <1>2, <2>1 DEF Segments
<1> QED
  BY <1>3, <1>4, <1>5

-----------------------------------------------------------------------------
(* The thread that a call has started is a thread. *)
LEMMA Started ==
  ASSUME NEW f \in Frame, f.thread # None
  PROVE  f.thread \in Threads
<1>1. f.thread \in {None} \cup Thread
  BY DEF Frame
<1> QED
  BY <1>1 DEF Threads

(* What Good says of single calls. *)
LEMMA CallAt ==
  ASSUME NEW F, Good(F), NEW t \in Threads, NEW k \in 1 .. Len(F[t])
  PROVE  /\ SizedCall(F, t, k) /\ LentCall(F, t, k)
         /\ \A i \in 1 .. k - 1 : Above(F, t, i, k)
  BY DEF Good, GoodCall

(* What Good says of two calls of different threads. *)
LEMMA PairAt ==
  ASSUME NEW F, Good(F), NEW t \in Threads, NEW u \in Threads, u # t,
         NEW i \in 1 .. Len(F[t]), NEW j \in 1 .. Len(F[u])
  PROVE  Pair(F, t, i, u, j)
  BY DEF Good

(* The calls are good if those of t are, and those of the others.           *)
LEMMA GoodIf ==
  ASSUME NEW F, NEW t \in Threads,
         \A k \in 1 .. Len(F[t]) : GoodCall(F, t, k),
         \A w \in Threads \ {t} : \A k \in 1 .. Len(F[w]) : GoodCall(F, w, k),
         \A w \in Threads \ {t} : \A i \in 1 .. Len(F[t]) : \A j \in 1 .. Len(F[w]) : Pair(F, t, i, w, j),
         \A v \in Threads \ {t} : \A w \in Threads \ {t} : v # w =>
           \A i \in 1 .. Len(F[v]) : \A j \in 1 .. Len(F[w]) : Pair(F, v, i, w, j)
  PROVE  Good(F)
<1>1. ASSUME NEW u \in Threads, NEW w \in Threads \ {u},
             NEW i \in 1 .. Len(F[u]), NEW j \in 1 .. Len(F[w])
      PROVE  Pair(F, u, i, w, j)
  <2>1. CASE u = t
    BY <2>1
  <2>2. CASE w = t
    <3>1. Pair(F, w, j, u, i)
      BY <2>2
    <3> QED
      BY <3>1 DEF Pair, Apart
  <2>3. CASE u # t /\ w # t
    BY <2>3
  <2> QED
    BY <2>1, <2>2, <2>3
<1>2. ASSUME NEW w \in Threads, NEW k \in 1 .. Len(F[w])
      PROVE  GoodCall(F, w, k)
  <2>1. CASE w = t
    BY <2>1
  <2>2. CASE w # t
    BY <2>2
  <2> QED
    BY <2>1, <2>2
<1> QED
  BY <1>1, <1>2 DEF Good

(* A call that stays what it is, under calls of the same segments as        *)
(* before, stays good; d calls above it are gone.                           *)
LEMMA StaysGood ==
  ASSUME NEW F \in [Threads -> Seq(Frame)], Good(F), NEW G, NEW w \in Threads, NEW d \in {0, 1},
         NEW k \in Nat \ {0}, k + d \in 1 .. Len(F[w]),
         G[w][k] = F[w][k + d],
         \A i \in 1 .. k - 1 : G[w][i].seg = F[w][i + d].seg,
         Lends(G, w, k) => Lends(F, w, k + d),
         \A x \in Threads : F[x] # <<>> /\ G[x] # <<>> => Outermost(G, x) = Outermost(F, x)
  PROVE  GoodCall(G, w, k)
<1>1. /\ SizedCall(F, w, k + d) /\ LentCall(F, w, k + d)
      /\ \A i \in 1 .. (k + d) - 1 : Above(F, w, i, k + d)
  BY CallAt
<1>2. SizedCall(G, w, k)
  BY <1>1 DEF SizedCall
<1>3. ASSUME NEW i \in 1 .. k - 1
      PROVE  Above(G, w, i, k)
  <2>1. i + d \in 1 .. (k + d) - 1 /\ (k = i + 1 <=> k + d = (i + d) + 1)
    OBVIOUS
  <2>2. Above(F, w, i + d, k + d)
    BY <1>1, <2>1
  <2> QED
    BY <2>1, <2>2 DEF Above
<1>4. ASSUME Lends(G, w, k)
      PROVE  Outermost(G, G[w][k].thread) = LeftHalf(G[w][k].seg)
  <2> DEFINE x == F[w][k + d].thread
  <2>1. Lends(F, w, k + d) /\ x \in Threads
    BY <1>4, FrameSeg, Started DEF Lends
  <2>2. F[x] # <<>> /\ G[x] # <<>>
    BY <1>4, <2>1 DEF Lends
  <2>3. Outermost(F, x) = LeftHalf(F[w][k + d].seg)
    BY <1>1, <2>1 DEF LentCall
  <2> QED
    BY <2>1, <2>2, <2>3
<1> QED
  BY <1>2, <1>3, <1>4 DEF GoodCall, LentCall

(* The calls of a thread that does nothing stay good.                       *)
LEMMA OthersGood ==
  ASSUME NEW F \in [Threads -> Seq(Frame)], Good(F), NEW G, NEW w \in Threads, G[w] = F[w],
         NEW k \in 1 .. Len(G[w]),
         Lends(G, w, k) => Lends(F, w, k),
         \A x \in Threads : F[x] # <<>> /\ G[x] # <<>> => Outermost(G, x) = Outermost(F, x)
  PROVE  GoodCall(G, w, k)
<1>1. k \in Nat \ {0} /\ k + 0 = k /\ k + 0 \in 1 .. Len(F[w]) /\ \A i \in 1 .. k - 1 : i + 0 = i
  OBVIOUS
<1>2. /\ G[w][k] = F[w][k + 0] /\ (Lends(G, w, k) => Lends(F, w, k + 0))
      /\ \A i \in 1 .. k - 1 : G[w][i].seg = F[w][i + 0].seg
  BY <1>1
<1> QED
  BY <1>1, <1>2, StaysGood

(* The innermost call of t calls mergeSort for a half of its segment.       *)
LEMMA PushGood ==
  ASSUME NEW F \in [Threads -> Seq(Frame)], Good(F), NEW t \in Threads, F[t] # <<>>,
         NEW c \in Frame, NEW p \in Frame,
         p.seg = F[t][1].seg, p.thread = F[t][1].thread, p.seg.size >= 2,
         c.pc = "left", c.thread = None,
         \/ F[t][1].pc = "left" /\ p.pc = "right" /\ c.seg = LeftHalf(p.seg)
         \/ F[t][1].pc = "right" /\ p.pc = "join" /\ c.seg = RightHalf(p.seg),
         NEW G, G = [F EXCEPT ![t] = <<c>> \o (<<p>> \o Tail(F[t]))]
  PROVE  G \in [Threads -> Seq(Frame)] /\ Good(G)
<1> DEFINE n == Len(F[t])
<1>1. F[t] \in Seq(Frame) /\ n \in Nat /\ n >= 1
  OBVIOUS
<1>2. /\ G[t] \in Seq(Frame) /\ Len(G[t]) = n + 1
      /\ G[t][1] = c /\ G[t][2] = p
      /\ \A k \in 3 .. n + 1 : G[t][k] = F[t][k - 1]
  BY <1>1, PushSeq
<1>3. G \in [Threads -> Seq(Frame)] /\ \A w \in Threads \ {t} : G[w] = F[w]
  BY <1>2
<1>4. \A k \in 2 .. n : G[t][k + 1] = F[t][k]
  BY <1>1, <1>2
<1> HIDE DEF n
<1>5. \A w \in Threads : G[w] # <<>> <=> F[w] # <<>>
  BY <1>1, <1>2, <1>3
<1>6. /\ \A w \in Threads \ {t} : \A k \in 1 .. Len(F[w]) : Lends(G, w, k) <=> Lends(F, w, k)
      /\ \A k \in 1 .. n : Lends(G, t, k + 1) <=> Lends(F, t, k)
      /\ ~Lends(G, t, 1)
  <2>1. ASSUME NEW w \in Threads \ {t}, NEW k \in 1 .. Len(F[w])
        PROVE  Lends(G, w, k) <=> Lends(F, w, k)
    <3>1. F[w][k] \in Frame /\ G[w][k] = F[w][k]
      BY <1>3, FrameSeg
    <3> QED
      BY <1>5, <3>1, Started DEF Lends
  <2>2. ASSUME NEW k \in 2 .. n
        PROVE  Lends(G, t, k + 1) <=> Lends(F, t, k)
    <3>1. F[t][k] \in Frame /\ G[t][k + 1] = F[t][k]
      BY <1>1, <1>4, FrameSeg DEF n
    <3> QED
      BY <1>5, <3>1, Started DEF Lends
  <2>3. Lends(G, t, 2) <=> Lends(F, t, 1)
    <3>1. F[t][1].pc = "left" => F[t][1].thread = None
      <4>1. 1 \in 1 .. Len(F[t])
        BY <1>1 DEF n
      <4>2. SizedCall(F, t, 1)
        BY <4>1, CallAt
      <4> QED
        BY <4>2 DEF SizedCall
    <3>2. CASE F[t][1].pc = "left"
      BY <1>2, <3>1, <3>2 DEF Lends
    <3>3. CASE F[t][1].pc # "left"
      <4>1. F[t][1] \in Frame /\ G[t][2].thread = F[t][1].thread
        BY <1>1, <1>2, FrameSeg DEF n
      <4>2. G[t][2].pc \in {"right", "join"} /\ F[t][1].pc \in {"right", "join"}
        BY <1>2, <3>3
      <4> QED
        BY <1>5, <4>1, <4>2, Started DEF Lends
    <3> QED
      BY <3>2, <3>3
  <2>4. ~Lends(G, t, 1)
    BY <1>2 DEF Lends
  <2>5. ASSUME NEW k \in 1 .. n
        PROVE  Lends(G, t, k + 1) <=> Lends(F, t, k)
    <3>1. (k = 1 /\ k + 1 = 2) \/ k \in 2 .. n
      BY <1>1
    <3> QED
      BY <2>2, <2>3, <3>1, Zenon
  <2> QED
    BY <2>1, <2>4, <2>5
<1>7. \A w \in Threads \ {t} : \A k \in 1 .. Len(F[w]) : \A a :
        Inside(F, a, w, k) => Inside(G, a, w, k)
  BY <1>3, <1>6 DEF Inside
<1>8. \A k \in 1 .. n : G[t][k + 1].seg = F[t][k].seg /\ (k > 1 => G[t][k + 1] = F[t][k])
  <2>1. TAKE k \in 1 .. n
  <2>2. (k = 1 /\ k + 1 = 2 /\ ~(k > 1)) \/ k \in 2 .. n
    BY <1>1
  <2>3. CASE k = 1 /\ k + 1 = 2 /\ ~(k > 1)
    <3>1. G[t][k + 1] = p /\ F[t][k] = F[t][1]
      BY <1>2, <2>3, Zenon
    <3> QED
      BY <2>3, <3>1, Zenon
  <2>4. CASE k \in 2 .. n
    <3>1. G[t][k + 1] = F[t][k]
      BY <1>4, <2>4
    <3> QED
      BY <3>1, Zenon
  <2> QED
    BY <2>2, <2>3, <2>4
<1>9. \A k \in 1 .. n : \A a : Inside(F, a, t, k) => Inside(G, a, t, k + 1)
  <2>1. TAKE k \in 1 .. n
  <2>2. TAKE a
  <2>3. CASE k = 1
    BY <1>1, <1>6, <1>8, <2>3 DEF Inside
  <2>4. CASE k > 1
    <3>1. k + 1 > 1
      BY <2>4
    <3> QED
      BY <1>6, <1>8, <2>4, <3>1 DEF Inside
  <2> QED
    BY <1>1, <2>3, <2>4
<1>10. \A i \in 1 .. n + 1 : i = 1 \/ \E k \in 1 .. n : i = k + 1
  <2>1. \A i \in 1 .. n + 1 : i # 1 => i - 1 \in 1 .. n /\ i = (i - 1) + 1
    BY <1>1
  <2> QED
    BY <2>1
<1>11. c.seg \in Segments /\ p.seg \in Segments /\ Within(c.seg, p.seg)
  <2>1. p.seg \in [lo : Nat, size : Nat]
    BY DEF Frame
  <2> QED
    BY <2>1, Halves DEF Segments
<1>12. ASSUME NEW i \in 1 .. Len(G[t])
       PROVE  SizedCall(G, t, i)
  <2>1. CASE i = 1
    BY <1>2, <2>1, SortAssumption DEF SizedCall, None, Threads, Thread, main
  <2>2. CASE i = 2
    <3>1. p.thread # t
      BY <1>1, CallAt DEF SizedCall, n
    <3> QED
      BY <1>2, <2>2, <3>1 DEF SizedCall
  <2>3. CASE i \in 3 .. n + 1
    <3>1. i - 1 \in 1 .. n /\ G[t][i] = F[t][i - 1]
      BY <1>1, <1>2, <2>3, SMTT(30)
    <3> QED
      BY <3>1, CallAt DEF SizedCall, n
  <2>4. i = 1 \/ i = 2 \/ i \in 3 .. n + 1
    BY <1>1, <1>2
  <2> QED
    BY <2>1, <2>2, <2>3, <2>4
<1>13. ASSUME NEW j \in 1 .. Len(G[t]), NEW i \in 1 .. j - 1
       PROVE  Above(G, t, i, j)
  <2>1. CASE j = 2 /\ i = 1
    <3>1. Within(c.seg, c.seg)
      BY <1>11 DEF Segments, Within
    <3> QED
      BY <1>2, <2>1, <3>1 DEF Above
  <2>2. CASE j > 2
    <3>1. j - 1 \in 2 .. n /\ (j - 1) + 1 = j
      BY <1>1, <1>2, <2>2
    <3>2. G[t][j] = F[t][j - 1]
      BY <1>4, <3>1
    <3>3. CASE i = 1
      <4>1. Above(F, t, 1, j - 1)
        BY <1>1, <3>1, CallAt DEF n
      <4>2. /\ F[t][j - 1].seg \in Segments
            /\ LeftHalf(F[t][j - 1].seg) \in Segments /\ RightHalf(F[t][j - 1].seg) \in Segments
        BY <1>1, <3>1, FrameSeg, SMTT(30) DEF n
      <4>3. /\ Within(p.seg, LeftHalf(F[t][j - 1].seg)) => Within(c.seg, LeftHalf(F[t][j - 1].seg))
            /\ Within(p.seg, RightHalf(F[t][j - 1].seg)) => Within(c.seg, RightHalf(F[t][j - 1].seg))
        BY <1>11, <4>2, Parts
      <4>4. j # i + 1
        BY <2>2, <3>3
      <4> QED
        BY <1>2, <3>2, <3>3, <4>1, <4>3, <4>4 DEF Above
    <3>4. CASE i > 1
      <4>1. i - 1 \in 1 .. (j - 1) - 1 /\ i - 1 \in 1 .. n /\ (i - 1) + 1 = i
        <5>1. j \in 1 .. n + 1
          BY <1>2
        <5> QED
          BY <1>1, <3>4, <5>1, OneLess
      <4>2. G[t][i].seg = F[t][i - 1].seg
        BY <1>8, <4>1
      <4>3. Above(F, t, i - 1, j - 1)
        <5>1. j - 1 \in 1 .. Len(F[t])
          BY <1>1, <3>1 DEF n
        <5> QED
          BY <4>1, <5>1, CallAt
      <4>4. j = i + 1 <=> j - 1 = (i - 1) + 1
        BY <4>1
      <4> QED
        BY <3>2, <4>2, <4>3, <4>4 DEF Above
    <3> QED
      BY <3>3, <3>4
  <2>3. (j = 2 /\ i = 1) \/ j > 2
    BY <1>1, <1>2
  <2> QED
    BY <2>1, <2>2, <2>3
<1>14. ASSUME NEW x \in Threads, F[x] # <<>>
       PROVE  Outermost(G, x) = Outermost(F, x)
  <2>1. CASE x = t
    <3>1. n \in 1 .. n
      BY <1>1
    <3> QED
      BY <1>2, <1>8, <2>1, <3>1 DEF n, Outermost
  <2> QED
    BY <1>3, <2>1 DEF Outermost
<1>15. ASSUME NEW k \in 1 .. Len(G[t])
       PROVE  LentCall(G, t, k)
  <2> SUFFICES ASSUME Lends(G, t, k)
               PROVE  Outermost(G, G[t][k].thread) = LeftHalf(G[t][k].seg)
    BY DEF LentCall
  <2>1. PICK i \in 1 .. n : k = i + 1
    BY <1>2, <1>6, <1>10
  <2>2. i \in 1 .. Len(F[t]) /\ Lends(F, t, i)
    BY <1>6, <2>1 DEF n
  <2>3. G[t][k].thread = F[t][i].thread /\ G[t][k].seg = F[t][i].seg
    BY <1>1, <1>2, <1>8, <2>1
  <2> DEFINE x == F[t][i].thread
  <2>4. x \in Threads /\ F[x] # <<>>
    BY <2>2, FrameSeg, Started DEF Lends
  <2>5. Outermost(F, x) = LeftHalf(F[t][i].seg)
    BY <2>2, CallAt DEF LentCall
  <2> QED
    BY <1>14, <2>3, <2>4, <2>5
<1>16. ASSUME NEW w \in Threads \ {t}, NEW i \in 1 .. Len(G[t]), NEW j \in 1 .. Len(G[w])
       PROVE  Pair(G, t, i, w, j)
  <2> G[w] = F[w] /\ j \in 1 .. Len(F[w])
    BY <1>3
  <2>1. CASE i = 1
    <3>1. Pair(F, t, 1, w, j)
      <4>1. 1 \in 1 .. Len(F[t]) /\ w # t
        BY <1>1 DEF n
      <4> QED
        BY <4>1, PairAt
    <3>2. F[w][j].seg \in Segments
      BY FrameSeg
    <3>3. CASE Apart(p.seg, F[w][j].seg)
      BY <1>2, <1>3, <1>11, <2>1, <3>2, <3>3, Parts DEF Pair
    <3>4. CASE Inside(F, p.seg, w, j)
      BY <1>2, <1>3, <1>7, <1>11, <2>1, <3>4, InsidePart DEF Pair
    <3>5. CASE Inside(F, F[w][j].seg, t, 1)
      <4>1. F[t][1].pc = "right" /\ Within(F[w][j].seg, LeftHalf(p.seg))
        BY <1>1, <3>5, CallAt DEF SizedCall, Inside, Lends, n
      <4>2. c.seg = RightHalf(p.seg)
        BY <4>1
      <4>3. /\ LeftHalf(p.seg).lo = p.seg.lo
            /\ RightHalf(p.seg).lo = p.seg.lo + LeftHalf(p.seg).size
            /\ LeftHalf(p.seg) \in Segments
        BY <1>11, Halves DEF Segments
      <4>4. Apart(c.seg, F[w][j].seg)
        BY <1>11, <3>2, <4>1, <4>2, <4>3 DEF Segments, Within, Apart
      <4> QED
        BY <1>2, <2>1, <4>4 DEF Pair
    <3> QED
      BY <3>1, <3>3, <3>4, <3>5 DEF Pair
  <2>2. ASSUME NEW k \in 1 .. n, i = k + 1
        PROVE  Pair(G, t, i, w, j)
    <3>1. Pair(F, t, k, w, j)
      BY PairAt DEF n
    <3> QED
      BY <1>3, <1>7, <1>8, <1>9, <2>2, <3>1 DEF Pair
  <2> QED
    BY <1>2, <1>10, <2>1, <2>2
<1>17. ASSUME NEW u \in Threads \ {t}, NEW w \in Threads \ {t}, u # w,
              NEW i \in 1 .. Len(G[u]), NEW j \in 1 .. Len(G[w])
       PROVE  Pair(G, u, i, w, j)
  <2>1. G[u] = F[u] /\ G[w] = F[w]
    BY <1>3
  <2>2. Pair(F, u, i, w, j)
    BY <1>17, <2>1, PairAt
  <2> QED
    BY <1>7, <2>1, <2>2 DEF Pair
<1>18. ASSUME NEW w \in Threads \ {t}, NEW k \in 1 .. Len(G[w])
       PROVE  GoodCall(G, w, k)
  <2>1. G[w] = F[w] /\ (Lends(G, w, k) => Lends(F, w, k))
    BY <1>3, <1>6
  <2> QED
    BY <1>14, <2>1, OthersGood
<1> QED
  BY <1>3, <1>12, <1>13, <1>15, <1>16, <1>17, <1>18, GoodIf DEF GoodCall

(* A call that has lent nothing and has none above it has handed on nothing. *)
LEMMA Idle ==
  ASSUME NEW F, NEW t, ~Lends(F, t, 1)
  PROVE  \A a : ~Inside(F, a, t, 1)
  BY DEF Inside

(* The innermost call of t goes on, without any other thread at work for it *)
(* before or after.                                                         *)
LEMMA GotoGood ==
  ASSUME NEW F \in [Threads -> Seq(Frame)], Good(F), NEW t \in Threads, F[t] # <<>>,
         ~Lends(F, t, 1),
         NEW p \in Frame, p.seg = F[t][1].seg, p.seg.size >= 2, p.pc # "left",
         p.thread # t, p.pc = "right" /\ p.thread # None => F[p.thread] = <<>>, p.pc # "join",
         NEW G, G = [F EXCEPT ![t] = <<p>> \o Tail(F[t])]
  PROVE  G \in [Threads -> Seq(Frame)] /\ Good(G)
<1>1. F[t] \in Seq(Frame) /\ Len(F[t]) \in Nat /\ Len(F[t]) >= 1 /\ 1 \in 1 .. Len(F[t])
  OBVIOUS
<1>2. /\ G[t] \in Seq(Frame) /\ Len(G[t]) = Len(F[t])
      /\ G[t][1] = p /\ \A k \in 2 .. Len(F[t]) : G[t][k] = F[t][k]
  BY <1>1, RetopSeq
<1>3. G \in [Threads -> Seq(Frame)] /\ \A w \in Threads \ {t} : G[w] = F[w]
  BY <1>2
<1>4. \A w \in Threads : Len(G[w]) = Len(F[w]) /\ (G[w] # <<>> <=> F[w] # <<>>)
  BY <1>1, <1>2, <1>3
<1>5. \A w \in Threads : \A k \in 1 .. Len(F[w]) :
        /\ G[w][k].seg = F[w][k].seg
        /\ (w # t \/ k # 1) => G[w][k] = F[w][k]
  BY <1>2, <1>3
<1>6. ~Lends(G, t, 1)
  <2>1. p.thread # None => p.thread \in Threads
    BY Started
  <2> QED
    BY <1>2, <1>4, <2>1 DEF Lends
<1>7. \A w \in Threads : \A k \in 1 .. Len(F[w]) : Lends(G, w, k) <=> Lends(F, w, k)
  <2>1. ASSUME NEW w \in Threads, NEW k \in 1 .. Len(F[w]), w # t \/ k # 1
        PROVE  Lends(G, w, k) <=> Lends(F, w, k)
    <3>1. F[w][k] \in Frame /\ G[w][k] = F[w][k]
      BY <1>5, <2>1, FrameSeg
    <3> QED
      BY <1>4, <3>1, Started DEF Lends
  <2> QED
    BY <1>6, <2>1
<1>8. \A w \in Threads : \A k \in 1 .. Len(F[w]) : \A a : Inside(G, a, w, k) <=> Inside(F, a, w, k)
  <2>1. ASSUME NEW w \in Threads, NEW k \in 1 .. Len(F[w]), w # t \/ k # 1, NEW a
        PROVE  Inside(G, a, w, k) <=> Inside(F, a, w, k)
    <3>1. G[w][k] = F[w][k]
      BY <1>5, <2>1
    <3> QED
      BY <1>7, <3>1 DEF Inside
  <2> QED
    BY <1>6, <2>1, Idle
<1>9. \A w \in Threads : F[w] # <<>> => Outermost(G, w) = Outermost(F, w)
  <2>1. ASSUME NEW w \in Threads, F[w] # <<>>
        PROVE  Outermost(G, w) = Outermost(F, w)
    <3>1. Len(F[w]) \in 1 .. Len(F[w])
      BY <2>1
    <3> QED
      BY <1>4, <1>5, <3>1 DEF Outermost
  <2> QED
    BY <2>1
<1>10. ASSUME NEW w \in Threads, NEW k \in 1 .. Len(G[w]), w # t \/ k # 1
       PROVE  GoodCall(G, w, k)
  <2>1. k \in Nat \ {0} /\ k + 0 = k /\ k + 0 \in 1 .. Len(F[w])
    BY <1>4
  <2>2. ASSUME NEW i \in 1 .. k - 1
        PROVE  G[w][i].seg = F[w][i + 0].seg
    <3>1. i \in 1 .. Len(F[w]) /\ i + 0 = i
      BY <2>1
    <3> QED
      BY <1>5, <3>1
  <2>3. G[w][k] = F[w][k + 0] /\ (Lends(G, w, k) => Lends(F, w, k + 0))
    <3>1. k \in 1 .. Len(F[w])
      BY <2>1
    <3>2. G[w][k] = F[w][k] /\ (Lends(G, w, k) <=> Lends(F, w, k))
      BY <1>5, <1>7, <1>10, <3>1
    <3> QED
      BY <2>1, <3>2
  <2> QED
    BY <1>9, <2>1, <2>2, <2>3, StaysGood
<1>11. GoodCall(G, t, 1)
  BY <1>2, <1>6 DEF GoodCall, SizedCall, LentCall
<1>12. ASSUME NEW u \in Threads, NEW w \in Threads \ {u},
              NEW i \in 1 .. Len(G[u]), NEW j \in 1 .. Len(G[w])
       PROVE  Pair(G, u, i, w, j)
  <2>1. i \in 1 .. Len(F[u]) /\ j \in 1 .. Len(F[w])
    BY <1>4
  <2>2. Pair(F, u, i, w, j)
    BY <2>1, PairAt
  <2>3. G[u][i].seg = F[u][i].seg /\ G[w][j].seg = F[w][j].seg
    BY <1>5, <2>1
  <2>4. /\ Inside(G, F[w][j].seg, u, i) <=> Inside(F, F[w][j].seg, u, i)
        /\ Inside(G, F[u][i].seg, w, j) <=> Inside(F, F[u][i].seg, w, j)
    BY <1>8, <2>1
  <2> QED
    BY <2>2, <2>3, <2>4 DEF Pair
<1> QED
  BY <1>3, <1>10, <1>11, <1>12 DEF Good

(* The innermost call of t returns. *)
LEMMA ReturnGood ==
  ASSUME NEW F \in [Threads -> Seq(Frame)], Good(F), NEW t \in Threads, F[t] # <<>>,
         ~Lends(F, t, 1),
         NEW G, G = [F EXCEPT ![t] = Tail(F[t])]
  PROVE  G \in [Threads -> Seq(Frame)] /\ Good(G)
<1> DEFINE n == Len(F[t])
           q == F[t][1].seg
<1>1. F[t] \in Seq(Frame) /\ n \in Nat /\ n >= 1 /\ 1 \in 1 .. n
  OBVIOUS
<1>2. /\ G[t] \in Seq(Frame) /\ Len(G[t]) = n - 1
      /\ \A k \in 1 .. n - 1 : G[t][k] = F[t][k + 1]
  BY <1>1, PopSeq
<1>3. G \in [Threads -> Seq(Frame)] /\ \A w \in Threads \ {t} : G[w] = F[w]
  BY <1>2
<1>4. G[t] # <<>> <=> n > 1
  BY <1>1, PopSeq
<1>5. \A w \in Threads : /\ G[w] # <<>> => F[w] # <<>>
                         /\ (w # t \/ n > 1) /\ F[w] # <<>> => G[w] # <<>>
  BY <1>1, <1>3, <1>4
<1> HIDE DEF n
<1>6. \A w \in Threads : F[w] # <<>> /\ G[w] # <<>> => Outermost(G, w) = Outermost(F, w)
  <2>1. ASSUME G[t] # <<>>
        PROVE  Outermost(G, t) = Outermost(F, t)
    <3>1. n - 1 \in 1 .. n - 1 /\ (n - 1) + 1 = n
      BY <1>1, <1>4, <2>1
    <3>2. G[t][n - 1] = F[t][n]
      BY <1>2, <3>1
    <3> QED
      BY <1>2, <3>2 DEF Outermost, n
  <2>2. ASSUME NEW w \in Threads \ {t}
        PROVE  Outermost(G, w) = Outermost(F, w)
    BY <1>3 DEF Outermost
  <2> QED
    BY <2>1, <2>2
<1>7. /\ \A w \in Threads \ {t} : \A k \in 1 .. Len(F[w]) :
           /\ Lends(G, w, k) => Lends(F, w, k)
           /\ Lends(F, w, k) => Lends(G, w, k) \/ (n = 1 /\ F[w][k].thread = t)
      /\ \A k \in 1 .. n - 1 : Lends(G, t, k) <=> Lends(F, t, k + 1)
  <2>1. ASSUME NEW w \in Threads \ {t}, NEW k \in 1 .. Len(F[w])
        PROVE  /\ Lends(G, w, k) => Lends(F, w, k)
               /\ Lends(F, w, k) => Lends(G, w, k) \/ (n = 1 /\ F[w][k].thread = t)
    <3>1. F[w][k] \in Frame /\ G[w][k] = F[w][k] /\ (n = 1 \/ n > 1)
      BY <1>1, <1>3, FrameSeg
    <3> QED
      BY <1>5, <3>1, Started DEF Lends
  <2>2. ASSUME NEW k \in 1 .. n - 1
        PROVE  Lends(G, t, k) <=> Lends(F, t, k + 1)
    <3>1. k + 1 \in 1 .. Len(F[t]) /\ n > 1
      BY <1>1 DEF n
    <3>2. F[t][k + 1] \in Frame /\ G[t][k] = F[t][k + 1]
      BY <1>2, <3>1, FrameSeg
    <3> QED
      BY <1>5, <3>1, <3>2, Started DEF Lends
  <2> QED
    BY <2>1, <2>2
<1>8. ASSUME NEW k \in 1 .. Len(G[t])
      PROVE  GoodCall(G, t, k)
  <2>1. k \in Nat \ {0} /\ k + 1 \in 1 .. Len(F[t]) /\ k \in 1 .. n - 1
    BY <1>1, <1>2 DEF n
  <2>2. ASSUME NEW i \in 1 .. k - 1
        PROVE  G[t][i].seg = F[t][i + 1].seg
    <3>1. i \in 1 .. n - 1
      BY <1>1, <2>1
    <3> QED
      BY <1>2, <3>1
  <2>3. G[t][k] = F[t][k + 1] /\ (Lends(G, t, k) => Lends(F, t, k + 1))
    BY <1>2, <1>7, <2>1
  <2> QED
    BY <1>6, <2>1, <2>2, <2>3, StaysGood
<1>9. ASSUME NEW w \in Threads \ {t}, NEW k \in 1 .. Len(G[w])
      PROVE  GoodCall(G, w, k)
  <2>1. G[w] = F[w] /\ k \in 1 .. Len(F[w])
    BY <1>3
  <2>2. Lends(G, w, k) => Lends(F, w, k)
    BY <1>7, <2>1
  <2> QED
    BY <1>6, <2>1, <2>2, OthersGood
(* The segment of the call that returns is free for others. *)
<1>10. ASSUME NEW w \in Threads \ {t}, NEW j \in 1 .. Len(F[w]), Within(F[w][j].seg, q)
       PROVE  \A a : Apart(F[w][j].seg, a) /\ Apart(a, F[w][j].seg)
  <2>1. F[w][j].seg.size = 0
    BY <1>10, Idle, Alone
  <2> QED
    BY <2>1 DEF Apart
<1>11. ASSUME NEW w \in Threads \ {t}, NEW k \in 1 .. Len(G[t]), NEW j \in 1 .. Len(G[w])
       PROVE  Pair(G, t, k, w, j)
  <2>1. G[w] = F[w] /\ j \in 1 .. Len(F[w])
    BY <1>3
  <2>2. k \in 1 .. n - 1 /\ k + 1 \in 1 .. Len(F[t]) /\ n > 1 /\ G[t][k] = F[t][k + 1] /\ k + 1 > 1
    BY <1>1, <1>2 DEF n
  <2>3. Pair(F, t, k + 1, w, j)
    BY <2>1, <2>2, PairAt
  <2>4. CASE Apart(F[t][k + 1].seg, F[w][j].seg)
    BY <2>1, <2>2, <2>4 DEF Pair
  <2>5. CASE Inside(F, F[t][k + 1].seg, w, j)
    <3>1. Lends(F, w, j) => Lends(G, w, j)
      <4>1. n # 1
        BY <2>2
      <4> QED
        BY <1>7, <2>1, <4>1
    <3> QED
      BY <2>1, <2>2, <2>5, <3>1 DEF Pair, Inside
  <2>6. CASE Inside(F, F[w][j].seg, t, k + 1)
    <3>1. Lends(F, t, k + 1) => Lends(G, t, k)
      BY <1>7, <2>2
    <3>2. CASE k > 1
      BY <2>1, <2>2, <2>6, <3>1, <3>2 DEF Pair, Inside
    <3>3. CASE k = 1
      <4>1. k + 1 = 2 /\ 1 \in 1 .. (k + 1) - 1 /\ k + 1 = 1 + 1
        BY <3>3
      <4>2. Above(F, t, 1, k + 1)
        BY <2>2, <4>1, CallAt
      <4>3. \/ F[t][k + 1].pc = "right" /\ q = LeftHalf(F[t][k + 1].seg)
            \/ F[t][k + 1].pc = "join" /\ q = RightHalf(F[t][k + 1].seg)
        BY <4>1, <4>2 DEF Above
      <4>4. CASE Within(F[w][j].seg, q)
        BY <1>10, <2>1, <4>4 DEF Pair
      <4>5. CASE ~Within(F[w][j].seg, q)
        <5>1. Within(F[w][j].seg, LeftHalf(F[t][k + 1].seg)) /\ Lends(F, t, k + 1)
          BY <2>6, <4>3, <4>5 DEF Inside
        <5> QED
          BY <2>1, <2>2, <3>1, <5>1 DEF Pair, Inside
      <4> QED
        BY <4>4, <4>5
    <3> QED
      BY <2>2, <3>2, <3>3
  <2> QED
    BY <2>3, <2>4, <2>5, <2>6 DEF Pair
<1>12. ASSUME NEW u \in Threads \ {t}, NEW w \in Threads \ {t},
              NEW i \in 1 .. Len(F[u]), NEW j \in 1 .. Len(F[w]),
              Inside(F, F[w][j].seg, u, i)
       PROVE  Inside(G, F[w][j].seg, u, i) \/ Within(F[w][j].seg, q)
  <2>1. G[u] = F[u]
    BY <1>3
  <2>2. CASE Lends(F, u, i) => Lends(G, u, i)
    BY <1>12, <2>1, <2>2 DEF Inside
  <2>3. CASE Lends(F, u, i) /\ ~Lends(G, u, i)
    <3>1. n = 1 /\ F[u][i].thread = t
      BY <1>7, <2>3
    <3>2. q = LeftHalf(F[u][i].seg)
      <4>1. Outermost(F, t) = LeftHalf(F[u][i].seg)
        BY <2>3, <3>1, CallAt DEF LentCall
      <4> QED
        BY <3>1, <4>1 DEF Outermost, n
    <3> QED
      BY <1>12, <2>1, <3>2 DEF Inside
  <2> QED
    BY <2>2, <2>3
<1>13. ASSUME NEW u \in Threads \ {t}, NEW w \in Threads \ {t}, u # w,
              NEW i \in 1 .. Len(G[u]), NEW j \in 1 .. Len(G[w])
       PROVE  Pair(G, u, i, w, j)
  <2>1. G[u] = F[u] /\ G[w] = F[w] /\ i \in 1 .. Len(F[u]) /\ j \in 1 .. Len(F[w])
    BY <1>3
  <2>2. Pair(F, u, i, w, j)
    BY <1>13, <2>1, PairAt
  <2> QED
    BY <1>10, <1>12, <2>1, <2>2 DEF Pair
<1> QED
  BY <1>3, <1>8, <1>9, <1>11, <1>13, GoodIf

(* The innermost call of t has started u, and no other call has. *)
StartedBy(F, u, t) ==
  /\ F[t][1].thread = u
  /\ \A w \in Threads : \A k \in 1 .. Len(F[w]) : F[w][k].thread = u => w = t /\ k = 1

(* Thread u, which the innermost call of t has started, begins to work.     *)
LEMMA BeginGood ==
  ASSUME NEW F \in [Threads -> Seq(Frame)], Good(F), NEW t \in Threads, F[t] # <<>>,
         NEW u \in Threads, u # t, F[u] = <<>>,
         F[t][1].pc = "right", u # None,
         StartedBy(F, u, t),
         NEW c \in Frame, c.pc = "left", c.thread = None, c.seg = LeftHalf(F[t][1].seg),
         NEW G, G = [F EXCEPT ![u] = <<c>>]
  PROVE  G \in [Threads -> Seq(Frame)] /\ Good(G)
<1> DEFINE p == F[t][1].seg
<1>1. F[t] \in Seq(Frame) /\ 1 \in 1 .. Len(F[t])
  OBVIOUS
<1>2. /\ G \in [Threads -> Seq(Frame)] /\ G[u] = <<c>> /\ Len(G[u]) = 1 /\ G[u][1] = c
      /\ G[u] # <<>> /\ \A w \in Threads \ {u} : G[w] = F[w]
  OBVIOUS
<1>3. p \in Segments /\ c.seg \in Segments /\ Within(c.seg, p) /\ Within(c.seg, LeftHalf(p))
  <2>1. F[t][1] \in Frame
    BY <1>1, FrameSeg
  <2>2. p \in [lo : Nat, size : Nat]
    BY <2>1 DEF Frame
  <2>3. c.seg = LeftHalf(p)
    OBVIOUS
  <2> HIDE DEF p
  <2>4. LeftHalf(p) \in Segments /\ Within(LeftHalf(p), p) /\ p \in Segments
    BY <2>2, Halves DEF Segments
  <2>5. Within(LeftHalf(p), LeftHalf(p))
    BY <2>4 DEF Segments, Within
  <2> QED
    BY <2>3, <2>4, <2>5
<1>4. ~Lends(F, t, 1) /\ Lends(G, t, 1)
  BY <1>2 DEF Lends, StartedBy
<1>5. \A w \in Threads \ {u} : \A k \in 1 .. Len(F[w]) : w # t \/ k # 1 => (Lends(G, w, k) <=> Lends(F, w, k))
  <2>1. ASSUME NEW w \in Threads \ {u}, NEW k \in 1 .. Len(F[w]), w # t \/ k # 1
        PROVE  Lends(G, w, k) <=> Lends(F, w, k)
    <3>1. F[w][k] \in Frame /\ G[w][k] = F[w][k] /\ F[w][k].thread # u
      BY <1>2, <2>1, FrameSeg DEF StartedBy
    <3> QED
      BY <1>2, <3>1, Started DEF Lends
  <2> QED
    BY <2>1
<1>6. \A x \in Threads : F[x] # <<>> /\ G[x] # <<>> => Outermost(G, x) = Outermost(F, x)
  BY <1>2 DEF Outermost
<1>7. GoodCall(G, u, 1)
  BY <1>2, SortAssumption DEF GoodCall, SizedCall, LentCall, Lends, None, Threads, Thread, main
<1>8. GoodCall(G, t, 1)
  <2>1. SizedCall(F, t, 1)
    BY <1>1, CallAt
  <2>2. G[t] = F[t] /\ Outermost(G, u) = c.seg
    BY <1>2 DEF Outermost
  <2> QED
    BY <2>1, <2>2 DEF GoodCall, SizedCall, LentCall, StartedBy
<1>9. ASSUME NEW w \in Threads \ {u}, NEW k \in 1 .. Len(G[w])
      PROVE  GoodCall(G, w, k)
  <2>1. G[w] = F[w] /\ k \in 1 .. Len(F[w])
    BY <1>2
  <2>2. CASE w = t /\ k = 1
    BY <1>8, <2>2
  <2>3. CASE w # t \/ k # 1
    <3>1. Lends(G, w, k) => Lends(F, w, k)
      BY <1>5, <2>1, <2>3
    <3> QED
      BY <1>6, <2>1, <3>1, OthersGood
  <2> QED
    BY <2>2, <2>3
<1>10. \A w \in Threads \ {u} : \A k \in 1 .. Len(F[w]) : \A a : Inside(F, a, w, k) => Inside(G, a, w, k)
  <2>1. ASSUME NEW w \in Threads \ {u}, NEW k \in 1 .. Len(F[w]), NEW a, Inside(F, a, w, k)
        PROVE  Inside(G, a, w, k)
    <3>1. Lends(F, w, k) => Lends(G, w, k)
      BY <1>4, <1>5
    <3> QED
      BY <1>2, <2>1, <3>1 DEF Inside
  <2> QED
    BY <2>1
<1>11. ASSUME NEW w \in Threads \ {u}, NEW i \in 1 .. Len(G[u]), NEW j \in 1 .. Len(G[w])
       PROVE  Pair(G, u, i, w, j)
  <2>1. i = 1 /\ G[u][i].seg = c.seg /\ G[w] = F[w] /\ j \in 1 .. Len(F[w])
    BY <1>2
  <2>2. CASE w = t /\ j = 1
    BY <1>2, <1>3, <1>4, <2>1, <2>2 DEF Pair, Inside
  <2>3. CASE w = t /\ j # 1
    <3>1. 1 \in 1 .. j - 1 /\ j > 1
      BY <1>1, <2>1, <2>3
    <3>2. Above(F, t, 1, j)
      BY <2>1, <2>3, <3>1, CallAt
    <3>3. Inside(F, p, t, j)
      BY <3>1, <3>2 DEF Above, Inside
    <3>4. Inside(F, c.seg, t, j)
      BY <1>3, <2>1, <2>3, <3>3, InsidePart
    <3> QED
      BY <1>10, <2>1, <2>3, <3>4 DEF Pair
  <2>4. CASE w # t
    <3>1. Pair(F, t, 1, w, j)
      BY <1>1, <2>1, <2>4, PairAt
    <3>2. F[w][j].seg \in Segments
      BY <2>1, FrameSeg
    <3>3. CASE Apart(p, F[w][j].seg)
      BY <1>3, <2>1, <3>2, <3>3, Parts DEF Pair
    <3>4. CASE Inside(F, p, w, j)
      <4>1. Inside(F, c.seg, w, j)
        BY <1>3, <2>1, <3>4, InsidePart
      <4> QED
        BY <1>10, <2>1, <4>1 DEF Pair
    <3>5. ~Inside(F, F[w][j].seg, t, 1)
      BY <1>4, Idle
    <3> QED
      BY <3>1, <3>3, <3>4, <3>5 DEF Pair
  <2> QED
    BY <2>2, <2>3, <2>4
<1>12. ASSUME NEW v \in Threads \ {u}, NEW w \in Threads \ {u}, v # w,
              NEW i \in 1 .. Len(G[v]), NEW j \in 1 .. Len(G[w])
       PROVE  Pair(G, v, i, w, j)
  <2>1. G[v] = F[v] /\ G[w] = F[w] /\ i \in 1 .. Len(F[v]) /\ j \in 1 .. Len(F[w])
    BY <1>2
  <2>2. Pair(F, v, i, w, j)
    BY <1>12, <2>1, PairAt
  <2> QED
    BY <1>10, <2>1, <2>2 DEF Pair
<1>13. ASSUME NEW k \in 1 .. Len(G[u])
       PROVE  GoodCall(G, u, k)
  <2>1. k = 1
    BY <1>2
  <2> QED
    BY <1>7, <2>1
<1>14. \A k \in 1 .. Len(G[u]) : GoodCall(G, u, k)
  BY <1>13
<1>15. \A w \in Threads \ {u} : \A k \in 1 .. Len(G[w]) : GoodCall(G, w, k)
  BY <1>9
<1>16. \A w \in Threads \ {u} : \A i \in 1 .. Len(G[u]) : \A j \in 1 .. Len(G[w]) : Pair(G, u, i, w, j)
  BY <1>11
<1>17. \A v \in Threads \ {u} : \A w \in Threads \ {u} : v # w =>
         \A i \in 1 .. Len(G[v]) : \A j \in 1 .. Len(G[w]) : Pair(G, v, i, w, j)
  BY <1>12
<1>18. Good(G)
  BY <1>14, <1>15, <1>16, <1>17, GoodIf
<1> QED
  BY <1>2, <1>18

-----------------------------------------------------------------------------
(* The calls of every thread; one that is created is as good as called.     *)
Frames == [t \in Threads |-> IF state[t] = "created" THEN <<Call(data[t], {})>> ELSE stack[t]]

Types ==
  /\ input \in Input
  /\ stack \in [Threads -> Seq(Frame)]
  /\ data \in [Thread -> Segments]
  /\ state \in [Threads -> {"new", "created", "running", "ended"}]
  /\ state[main] # "created"
  /\ sound \in BOOLEAN

(* Only a thread that runs has calls, and a call only knows threads started. *)
Stacks ==
  \A t \in Threads :
    /\ state[t] # "running" => stack[t] = <<>>
    /\ \A k \in 1 .. Len(stack[t]) : stack[t][k].thread # None => state[stack[t][k].thread] # "new"

IInv == Types /\ Stacks /\ (sound => Good(Frames))

(* A call is one. *)
LEMMA CallIsFrame ==
  ASSUME NEW s \in Segments, NEW shared \in SUBSET Thread
  PROVE  /\ Call(s, shared) \in Frame
         /\ Call(s, shared).seg = s /\ Call(s, shared).pc = "left" /\ Call(s, shared).thread = None
  BY DEF Call, Frame, Segments

(* They are calls, as their type says. *)
LEMMA FramesType ==
  ASSUME Types
  PROVE  Frames \in [Threads -> Seq(Frame)]
<1>1. ASSUME NEW t \in Threads
      PROVE  (IF state[t] = "created" THEN <<Call(data[t], {})>> ELSE stack[t]) \in Seq(Frame)
  <2>1. CASE state[t] = "created"
    <3>1. data[t] \in Segments
      BY <2>1 DEF Types, Threads
    <3>2. Call(data[t], {}) \in Frame
      BY <3>1, CallIsFrame
    <3> QED
      BY <2>1, <3>2
  <2>2. CASE state[t] # "created"
    BY <2>2 DEF Types
  <2> QED
    BY <2>1, <2>2
<1> QED
  BY <1>1 DEF Frames

(* The innermost call of a thread that runs. *)
LEMMA TopCall ==
  ASSUME Types, NEW t \in Threads, NEW pc, At(t, pc)
  PROVE  /\ stack[t] \in Seq(Frame) /\ Frames[t] = stack[t] /\ stack[t] # <<>>
         /\ top(t) = stack[t][1] /\ top(t) \in Frame /\ top(t).pc = pc
         /\ top(t).seg \in Segments /\ LeftHalf(top(t).seg) \in Segments /\ RightHalf(top(t).seg) \in Segments
         /\ top(t).shared \in SUBSET Thread /\ top(t).thread \in {None} \cup Thread
<1>1. stack[t] \in Seq(Frame) /\ stack[t] # <<>> /\ state[t] = "running" /\ top(t).pc = pc
  BY DEF Types, At
<1>2. Frames[t] = stack[t]
  BY <1>1 DEF Frames
<1>3. top(t) = stack[t][1] /\ top(t) \in Frame
  BY <1>1 DEF top
<1>4. /\ top(t).seg \in [lo : Nat, size : Nat]
      /\ top(t).shared \in SUBSET Thread /\ top(t).thread \in {None} \cup Thread
  BY <1>3 DEF Frame
<1> QED
  BY <1>1, <1>2, <1>3, <1>4, Halves DEF Segments

(* A thread that runs has the calls s instead; if another thread's data      *)
(* change the sort is not sound.                                            *)
LEMMA ThreadGoesOn ==
  ASSUME IInv, NEW t \in Threads, state[t] = "running",
         NEW s \in Seq(Frame), stack' = [stack EXCEPT ![t] = s],
         \A k \in 1 .. Len(s) : s[k].thread # None => state[s[k].thread] # "new",
         UNCHANGED <<input, state>>,
         data' \in [Thread -> Segments], sound' \in BOOLEAN,
         sound' => sound /\ data' = data /\ Good([Frames EXCEPT ![t] = s])
  PROVE  IInv'
<1>1. Types'
  BY DEF IInv, Types
<1>2. Stacks'
  BY DEF IInv, Types, Stacks
<1>3. sound' => Good(Frames)'
  <2> HAVE sound'
  <2>1. Frames' = [Frames EXCEPT ![t] = s]
    BY DEF Frames, IInv, Types
  <2> QED
    BY <2>1
<1> QED
  BY <1>1, <1>2, <1>3 DEF IInv

(* What is known of a call that has lent nothing, by the line it is at.     *)
LEMMA LendsNothing ==
  ASSUME IInv, NEW t \in Threads, NEW pc, At(t, pc),
         \/ pc \notin {"right", "join"}
         \/ top(t).thread # None => state[top(t).thread] = "ended"
  PROVE  ~Lends(Frames, t, 1)
<1>1. Frames[t][1] = top(t) /\ top(t).pc = pc /\ top(t) \in Frame
  BY TopCall DEF IInv
<1>2. CASE pc \notin {"right", "join"}
  BY <1>1, <1>2 DEF Lends
<1>3. CASE top(t).thread # None => state[top(t).thread] = "ended"
  <2> SUFFICES ASSUME top(t).thread # None
               PROVE  Frames[top(t).thread] = <<>>
    BY <1>1 DEF Lends
  <2>1. top(t).thread \in Threads
    BY <1>1, Started
  <2> QED
    BY <1>3, <2>1 DEF Frames, IInv, Stacks
<1> QED
  BY <1>2, <1>3

(* The innermost call of t goes on at another line and calls mergeSort.     *)
LEMMA CallKeeps ==
  ASSUME IInv, NEW t \in Threads, NEW pc, At(t, pc), NEW next,
         NEW half \in Segments, NEW shared \in SUBSET Thread,
         \/ pc = "left" /\ next = "right" /\ half = LeftHalf(top(t).seg) /\ top(t).seg.size >= 2
         \/ pc = "right" /\ next = "join" /\ half = RightHalf(top(t).seg),
         stack' = [stack EXCEPT ![t] = <<Call(half, shared)>> \o goto(t, next)],
         UNCHANGED <<input, data, state, sound>>
  PROVE  IInv'
<1> DEFINE c == Call(half, shared)
           p == [top(t) EXCEPT !.pc = next]
           s == <<c>> \o (<<p>> \o Tail(stack[t]))
<1>1. /\ stack[t] \in Seq(Frame) /\ Frames[t] = stack[t] /\ stack[t] # <<>>
      /\ top(t) = stack[t][1] /\ top(t) \in Frame /\ top(t).pc = pc
  BY TopCall DEF IInv
<1>2. c \in Frame /\ c.seg = half /\ c.pc = "left" /\ c.thread = None
  BY CallIsFrame
<1>3. p \in Frame /\ p.seg = top(t).seg /\ p.thread = top(t).thread /\ p.pc = next
  BY <1>1 DEF Frame
<1>4. Frames \in [Threads -> Seq(Frame)]
  BY FramesType DEF IInv
<1> HIDE DEF c, p
<1>5. /\ s \in Seq(Frame) /\ Len(s) = Len(stack[t]) + 1 /\ s[1] = c /\ s[2] = p
      /\ \A k \in 3 .. Len(stack[t]) + 1 : s[k] = stack[t][k - 1]
  BY <1>1, <1>2, <1>3, PushSeq
<1>6. stack' = [stack EXCEPT ![t] = s]
  BY DEF goto, c, p
<1> HIDE DEF s
<1>7. ASSUME NEW k \in 1 .. Len(s), s[k].thread # None
      PROVE  state[s[k].thread] # "new"
  <2>1. k = 1 \/ k = 2 \/ k \in 3 .. Len(stack[t]) + 1
    BY <1>1, <1>5
  <2>2. CASE k = 1
    BY <1>2, <1>5, <1>7, <2>2
  <2>3. CASE k = 2
    <3>1. 1 \in 1 .. Len(stack[t]) /\ s[k].thread = stack[t][1].thread
      BY <1>1, <1>3, <1>5, <2>3
    <3> QED
      BY <1>7, <3>1 DEF IInv, Stacks
  <2>4. CASE k \in 3 .. Len(stack[t]) + 1
    <3>1. k - 1 \in 1 .. Len(stack[t]) /\ s[k] = stack[t][k - 1]
      BY <1>1, <1>5, <2>4
    <3> QED
      BY <1>7, <3>1 DEF IInv, Stacks
  <2> QED
    BY <2>1, <2>2, <2>3, <2>4
<1>8. ASSUME sound
      PROVE  Good([Frames EXCEPT ![t] = s])
  <2> DEFINE F == Frames
             G == [F EXCEPT ![t] = <<c>> \o (<<p>> \o Tail(F[t]))]
  <2>1. Good(F) /\ F \in [Threads -> Seq(Frame)] /\ F[t] # <<>> /\ F[t][1] = top(t)
    BY <1>1, <1>4, <1>8 DEF IInv
  <2>2. p.seg.size >= 2
    <3>1. CASE pc = "left"
      BY <1>3, <3>1
    <3>2. CASE pc # "left"
      <4>1. 1 \in 1 .. Len(F[t])
        BY <1>1
      <4> QED
        BY <1>1, <1>3, <2>1, <3>2, <4>1, CallAt DEF SizedCall
    <3> QED
      BY <3>1, <3>2
  <2>3. \/ F[t][1].pc = "left" /\ p.pc = "right" /\ c.seg = LeftHalf(p.seg)
        \/ F[t][1].pc = "right" /\ p.pc = "join" /\ c.seg = RightHalf(p.seg)
    BY <1>1, <1>2, <1>3, <2>1
  <2>4. p.seg = F[t][1].seg /\ p.thread = F[t][1].thread
    BY <1>3, <2>1
  <2>5. G = [Frames EXCEPT ![t] = s]
    BY <1>1 DEF s
  <2> HIDE DEF F
  <2>6. Good(G)
    BY <1>2, <1>3, <2>1, <2>2, <2>3, <2>4, PushGood
  <2> QED
    BY <2>5, <2>6
<1> QED
  BY <1>5, <1>6, <1>7, <1>8, ThreadGoesOn DEF At, IInv, Types

(* The innermost call of t goes on at another line, and no thread works for *)
(* it.                                                                      *)
LEMMA GotoKeeps ==
  ASSUME IInv, NEW t \in Threads, NEW pc, At(t, pc), NEW next \in {"memcpy", "merge"},
         pc \notin {"left", "right"},
         pc # "join" \/ (top(t).thread # None => state[top(t).thread] = "ended"),
         stack' = [stack EXCEPT ![t] = goto(t, next)],
         UNCHANGED <<input, data, state, sound>>
  PROVE  IInv'
<1> DEFINE p == [top(t) EXCEPT !.pc = next]
           s == <<p>> \o Tail(stack[t])
<1>1. /\ stack[t] \in Seq(Frame) /\ Frames[t] = stack[t] /\ stack[t] # <<>>
      /\ top(t) = stack[t][1] /\ top(t) \in Frame /\ top(t).pc = pc
  BY TopCall DEF IInv
<1>2. p \in Frame /\ p.seg = top(t).seg /\ p.thread = top(t).thread /\ p.pc = next
  BY <1>1 DEF Frame
<1>3. Frames \in [Threads -> Seq(Frame)] /\ ~Lends(Frames, t, 1)
  BY FramesType, LendsNothing DEF IInv
<1> HIDE DEF p
<1>4. /\ s \in Seq(Frame) /\ Len(s) = Len(stack[t]) /\ s[1] = p
      /\ \A k \in 2 .. Len(stack[t]) : s[k] = stack[t][k]
  BY <1>1, <1>2, RetopSeq
<1>5. stack' = [stack EXCEPT ![t] = s]
  BY DEF goto, p
<1> HIDE DEF s
<1>6. ASSUME NEW k \in 1 .. Len(s), s[k].thread # None
      PROVE  state[s[k].thread] # "new"
  <2>1. k \in 1 .. Len(stack[t]) /\ s[k].thread = stack[t][k].thread
    BY <1>1, <1>2, <1>4
  <2> QED
    BY <1>6, <2>1 DEF IInv, Stacks
<1>7. ASSUME sound
      PROVE  Good([Frames EXCEPT ![t] = s])
  <2> DEFINE F == Frames
             G == [F EXCEPT ![t] = <<p>> \o Tail(F[t])]
  <2>1. Good(F) /\ F \in [Threads -> Seq(Frame)] /\ F[t] # <<>> /\ F[t][1] = top(t) /\ ~Lends(F, t, 1)
    BY <1>1, <1>3, <1>7 DEF IInv
  <2>2. p.seg.size >= 2 /\ p.thread # t /\ p.pc \notin {"left", "right", "join"} /\ p.seg = F[t][1].seg
    <3>1. 1 \in 1 .. Len(F[t])
      BY <1>1
    <3> QED
      BY <1>1, <1>2, <2>1, <3>1, CallAt DEF SizedCall
  <2>3. G = [Frames EXCEPT ![t] = s]
    BY <1>1 DEF s
  <2> HIDE DEF F
  <2>4. Good(G)
    BY <1>2, <2>1, <2>2, GotoGood
  <2> QED
    BY <2>3, <2>4
<1> QED
  BY <1>4, <1>5, <1>6, <1>7, ThreadGoesOn DEF At, IInv, Types

(* The innermost call of t returns. *)
LEMMA ReturnKeeps ==
  ASSUME IInv, NEW t \in Threads, NEW pc \in {"left", "merge"}, At(t, pc),
         stack' = [stack EXCEPT ![t] = Tail(stack[t])],
         UNCHANGED <<input, data, state, sound>>
  PROVE  IInv'
<1> DEFINE s == Tail(stack[t])
<1>1. stack[t] \in Seq(Frame) /\ Frames[t] = stack[t] /\ stack[t] # <<>>
  BY TopCall DEF IInv
<1>2. Frames \in [Threads -> Seq(Frame)] /\ ~Lends(Frames, t, 1)
  BY FramesType, LendsNothing DEF IInv
<1>3. s \in Seq(Frame) /\ Len(s) = Len(stack[t]) - 1 /\ \A k \in 1 .. Len(stack[t]) - 1 : s[k] = stack[t][k + 1]
  BY <1>1, PopSeq
<1> HIDE DEF s
<1>4. ASSUME NEW k \in 1 .. Len(s), s[k].thread # None
      PROVE  state[s[k].thread] # "new"
  <2>1. k + 1 \in 1 .. Len(stack[t]) /\ s[k] = stack[t][k + 1]
    BY <1>1, <1>3
  <2> QED
    BY <1>4, <2>1 DEF IInv, Stacks
<1>5. ASSUME sound
      PROVE  Good([Frames EXCEPT ![t] = s])
  <2> DEFINE F == Frames
             G == [F EXCEPT ![t] = Tail(F[t])]
  <2>1. Good(F) /\ F \in [Threads -> Seq(Frame)] /\ F[t] # <<>> /\ ~Lends(F, t, 1)
    BY <1>1, <1>2, <1>5 DEF IInv
  <2>2. G = [Frames EXCEPT ![t] = s]
    BY <1>1 DEF s
  <2> HIDE DEF F
  <2>3. Good(G)
    BY <2>1, ReturnGood
  <2> QED
    BY <2>2, <2>3
<1>6. stack' = [stack EXCEPT ![t] = s]
  BY DEF s
<1> QED
  BY <1>3, <1>4, <1>5, <1>6, ThreadGoesOn DEF At, IInv, Types

(* A new thread is given the left half. *)
LEMMA StartKeeps ==
  ASSUME IInv, NEW t \in Threads, StartThread(t)
  PROVE  IInv'
<1> DEFINE seg == top(t).seg
           shared == top(t).shared
<1>1. PICK u \in Thread :
       /\ \A w \in Thread : state[w] = "new" <=> w >= u
       /\ state' = [state EXCEPT ![u] = "created"]
       /\ data' = [w \in Thread |-> IF w \in shared \cup {u} THEN LeftHalf(seg) ELSE data[w]]
       /\ stack' = [stack EXCEPT ![t] =
                      <<[Head(goto(t, "right")) EXCEPT !.thread = u, !.shared = shared \cup {u}]>> \o Tail(@)]
       /\ sound' = (sound /\ \A w \in shared : state[w] # "created")
  BY DEF StartThread
<1>2. At(t, "left") /\ seg.size > 1 /\ UNCHANGED input
  BY DEF StartThread
<1>3. /\ stack[t] \in Seq(Frame) /\ Frames[t] = stack[t] /\ stack[t] # <<>>
      /\ top(t) = stack[t][1] /\ top(t) \in Frame /\ top(t).pc = "left"
      /\ seg \in Segments /\ LeftHalf(seg) \in Segments /\ shared \in SUBSET Thread
  BY <1>2, TopCall DEF IInv
<1> DEFINE q == [top(t) EXCEPT !.pc = "right"]
           p == [q EXCEPT !.thread = u, !.shared = shared \cup {u}]
           s == <<p>> \o Tail(stack[t])
           c == Call(LeftHalf(seg), {})
<1>4. p \in Frame /\ p.seg = seg /\ p.thread = u /\ p.pc = "right"
  BY <1>3 DEF Frame
<1>5. c \in Frame /\ c.seg = LeftHalf(seg) /\ c.pc = "left" /\ c.thread = None
  BY <1>3, CallIsFrame
<1>6. /\ u \in Threads /\ u # t /\ u # main /\ state[u] = "new" /\ stack[u] = <<>> /\ Frames[u] = <<>>
      /\ u # None /\ state[t] = "running"
  <2>1. u \in Threads /\ u # main /\ u # None /\ u >= u
    BY SortAssumption DEF Threads, Thread, None, main
  <2>2. state[u] = "new" /\ state[t] = "running"
    BY <1>1, <1>2, <2>1 DEF At
  <2>3. stack[u] = <<>> /\ Frames[u] = <<>>
    BY <2>1, <2>2 DEF IInv, Stacks, Frames
  <2> QED
    BY <2>1, <2>2, <2>3
<1>7. stack' = [stack EXCEPT ![t] = s]
  <2>1. Head(goto(t, "right")) = q
    BY <1>3 DEF goto
  <2> QED
    BY <1>1, <2>1
<1> HIDE DEF p, c
<1>8. /\ s \in Seq(Frame) /\ Len(s) = Len(stack[t]) /\ s[1] = p
      /\ \A k \in 2 .. Len(stack[t]) : s[k] = stack[t][k]
  BY <1>3, <1>4, RetopSeq
<1> HIDE DEF s
<1>9. Types'
  <2>1. state' \in [Threads -> {"new", "created", "running", "ended"}] /\ state'[main] # "created"
    BY <1>1, <1>6 DEF IInv, Types
  <2>2. stack' \in [Threads -> Seq(Frame)]
    BY <1>7, <1>8 DEF IInv, Types
  <2>3. data' \in [Thread -> Segments]
    BY <1>1, <1>3 DEF IInv, Types
  <2>4. sound' \in BOOLEAN
    BY <1>1 DEF IInv, Types
  <2> QED
    BY <1>2, <2>1, <2>2, <2>3, <2>4 DEF IInv, Types
<1>10. Stacks'
  <2>1. ASSUME NEW w \in Threads
        PROVE  (state[w] # "running" => stack[w] = <<>>)'
    BY <1>1, <1>6, <1>7 DEF IInv, Types, Stacks
  <2>2. ASSUME NEW w \in Threads, NEW k \in 1 .. Len(stack'[w]), stack'[w][k].thread # None
        PROVE  state'[stack'[w][k].thread] # "new"
    <3>1. CASE w = t /\ k = 1
      BY <1>1, <1>4, <1>6, <1>7, <1>8, <3>1 DEF IInv, Types
    <3>2. CASE w # t \/ k # 1
      <4>1. k \in 1 .. Len(stack[w]) /\ stack'[w][k] = stack[w][k]
        BY <1>3, <1>7, <1>8, <3>2 DEF IInv, Types
      <4>2. state[stack[w][k].thread] # "new" /\ stack[w][k] \in Frame
        BY <2>2, <4>1 DEF IInv, Types, Stacks
      <4>3. stack[w][k].thread \in Threads
        BY <2>2, <4>1, <4>2, Started
      <4> QED
        BY <1>1, <4>1, <4>2, <4>3 DEF IInv, Types
    <3> QED
      BY <3>1, <3>2
  <2> QED
    BY <2>1, <2>2 DEF Stacks
<1>11. ASSUME sound'
       PROVE  Good(Frames)'
  <2> DEFINE F == Frames
             E == [F EXCEPT ![t] = <<p>> \o Tail(F[t])]
             G == [E EXCEPT ![u] = <<c>>]
  <2>1. /\ Good(F) /\ F \in [Threads -> Seq(Frame)] /\ F[t] # <<>> /\ F[t][1] = top(t)
        /\ ~Lends(F, t, 1) /\ F[u] = <<>>
    BY <1>1, <1>2, <1>3, <1>6, <1>11, FramesType, LendsNothing DEF IInv
  <2>2. Frames' = G
    <3>1. ASSUME NEW w \in Threads
          PROVE  (IF state'[w] = "created" THEN <<Call(data'[w], {})>> ELSE stack'[w]) = G[w]
      <4>1. CASE w = u
        <5>1. state'[u] = "created" /\ data'[u] = LeftHalf(seg)
          BY <1>1, <1>6 DEF IInv, Types
        <5>2. G[u] = <<c>>
          BY <1>6, <2>1
        <5> QED
          BY <4>1, <5>1, <5>2 DEF c
      <4>2. CASE w = t
        <5>1. E[t] = s /\ G[t] = s
          BY <1>3, <1>6, <2>1 DEF s
        <5>2. state'[t] = "running" /\ stack'[t] = s
          BY <1>1, <1>6, <1>7 DEF IInv, Types
        <5> QED
          BY <4>2, <5>1, <5>2
      <4>3. CASE w # u /\ w # t
        <5>1. G[w] = Frames[w] /\ state'[w] = state[w] /\ stack'[w] = stack[w]
          BY <1>1, <1>7, <2>1, <4>3 DEF IInv, Types
        <5>2. CASE state[w] = "created"
          <6>1. w \in Thread /\ w \notin shared
            BY <1>1, <1>11, <5>2 DEF IInv, Types, Threads
          <6>2. data'[w] = data[w]
            BY <1>1, <4>3, <6>1
          <6> QED
            BY <5>1, <5>2, <6>2 DEF Frames
        <5>3. CASE state[w] # "created"
          BY <5>1, <5>3 DEF Frames
        <5> QED
          BY <5>2, <5>3
      <4> QED
        BY <4>1, <4>2, <4>3
    <3> QED
      BY <3>1, <2>1 DEF Frames
  <2>3. \A w \in Threads : \A k \in 1 .. Len(F[w]) : F[w][k].thread # u
    <3>1. ASSUME NEW w \in Threads, NEW k \in 1 .. Len(F[w])
          PROVE  F[w][k].thread # u
      <4>1. CASE state[w] = "created"
        <5>1. F[w] = <<Call(data[w], {})>>
          BY <4>1 DEF Frames
        <5>2. F[w][k].thread = None
          BY <5>1 DEF Call
        <5> QED
          BY <1>6, <5>2
      <4>2. CASE state[w] # "created"
        <5>1. F[w] = stack[w]
          BY <4>2 DEF Frames
        <5>2. F[w][k].thread # None => state[F[w][k].thread] # "new"
          BY <5>1 DEF IInv, Stacks
        <5> QED
          BY <1>6, <5>2
      <4> QED
        BY <4>1, <4>2
    <3> QED
      BY <3>1
  <2>4. F[t] = stack[t]
    BY <1>3
  <2> HIDE DEF F
  <2>5. E[t] = s /\ \A w \in Threads \ {t} : E[w] = F[w]
    BY <2>1, <2>4 DEF s
  <2>6. E[t] # <<>> /\ E[u] = <<>> /\ E[t][1] = p /\ Len(E[t]) = Len(F[t])
    <3>1. s # <<>>
      BY <1>3, <1>8
    <3> QED
      BY <1>6, <1>8, <2>1, <2>4, <2>5, <3>1
  <2>7. E \in [Threads -> Seq(Frame)] /\ Good(E)
    <3>1. p.seg = F[t][1].seg /\ p.seg.size >= 2 /\ p.thread # t
      BY <1>2, <1>3, <1>4, <1>6, <2>1, SMTT(30) DEF Segments
    <3> QED
      BY <1>4, <1>6, <2>1, <3>1, GotoGood
  <2>8. StartedBy(E, u, t)
    <3>1. ASSUME NEW w \in Threads, NEW k \in 1 .. Len(E[w]), w # t \/ k # 1
          PROVE  E[w][k].thread # u
      <4>1. k \in 1 .. Len(F[w]) /\ E[w][k] = F[w][k]
        BY <1>3, <1>8, <2>4, <2>5, <2>6, <3>1
      <4> QED
        BY <2>3, <4>1
    <3> QED
      BY <1>4, <2>6, <3>1 DEF StartedBy
  <2> HIDE DEF E
  <2>9. Good(G)
    <3>1. c.seg = LeftHalf(E[t][1].seg) /\ E[t][1].pc = "right"
      BY <1>4, <1>5, <2>6
    <3> QED
      BY <1>5, <1>6, <2>6, <2>7, <2>8, <3>1, BeginGood
  <2> QED
    BY <2>2, <2>9
<1> QED
  BY <1>9, <1>10, <1>11 DEF IInv

(* Every step keeps the invariant. *)
LEMMA StepKeeps ==
  ASSUME IInv, NEW t \in Threads, Step(t)
  PROVE  IInv'
<1>1. CASE ReturnSmall(t)
  BY <1>1, ReturnKeeps DEF ReturnSmall
<1>2. CASE CallLeft(t)
  <2>1. At(t, "left") /\ LeftHalf(top(t).seg) \in Segments /\ top(t).seg.size >= 2
    BY <1>2, TopCall, SortAssumption DEF CallLeft, IInv
  <2>2. {} \in SUBSET Thread
    OBVIOUS
  <2> QED
    BY <1>2, <2>1, <2>2, CallKeeps DEF CallLeft
<1>3. CASE StartThread(t)
  BY <1>3, StartKeeps
<1>4. CASE StartFails(t)
  <2> DEFINE s == goto(t, "right")
  <2>1. /\ stack[t] \in Seq(Frame) /\ stack[t] # <<>> /\ top(t) = stack[t][1] /\ top(t) \in Frame
        /\ LeftHalf(top(t).seg) \in Segments /\ state[t] = "running"
    BY <1>4, TopCall DEF StartFails, IInv, At
  <2>2. [top(t) EXCEPT !.pc = "right"] \in Frame /\ [top(t) EXCEPT !.pc = "right"].thread = top(t).thread
    BY <2>1 DEF Frame
  <2>3. /\ s \in Seq(Frame) /\ Len(s) = Len(stack[t]) /\ s[1] = [top(t) EXCEPT !.pc = "right"]
        /\ \A k \in 2 .. Len(stack[t]) : s[k] = stack[t][k]
    BY <2>1, <2>2, RetopSeq DEF goto
  <2> HIDE DEF s
  <2>4. ASSUME NEW k \in 1 .. Len(s), s[k].thread # None
        PROVE  state[s[k].thread] # "new"
    <3>1. k \in 1 .. Len(stack[t]) /\ (k = 1 \/ k \in 2 .. Len(stack[t]))
      BY <2>1, <2>3
    <3>2. s[k].thread = stack[t][k].thread
      BY <2>1, <2>2, <2>3, <3>1
    <3> QED
      BY <2>4, <3>1, <3>2 DEF IInv, Stacks
  <2>5. /\ data' \in [Thread -> Segments] /\ sound' \in BOOLEAN /\ ~sound'
        /\ stack' = [stack EXCEPT ![t] = s] /\ UNCHANGED <<input, state>>
    BY <1>4, <2>1 DEF StartFails, IInv, Types, s
  <2> QED
    BY <2>1, <2>3, <2>4, <2>5, ThreadGoesOn
<1>5. CASE CallRight(t)
  <2>1. PICK shared \in {{}, top(t).shared} :
          stack' = [stack EXCEPT ![t] = <<Call(RightHalf(top(t).seg), shared)>> \o goto(t, "join")]
    BY <1>5 DEF CallRight
  <2>2. At(t, "right") /\ RightHalf(top(t).seg) \in Segments /\ shared \in SUBSET Thread
    BY <1>5, TopCall DEF CallRight, IInv
  <2> QED
    BY <1>5, <2>1, <2>2, CallKeeps DEF CallRight
<1>6. CASE Join(t)
  <2>1. /\ At(t, "join") /\ "memcpy" \in {"memcpy", "merge"} /\ "join" \notin {"left", "right"}
        /\ top(t).thread # None => state[top(t).thread] = "ended"
        /\ stack' = [stack EXCEPT ![t] = goto(t, "memcpy")]
        /\ UNCHANGED <<input, data, state, sound>>
    BY <1>6 DEF Join
  <2> QED
    BY <2>1, GotoKeeps
<1>7. CASE Memcpy(t)
  <2>1. /\ At(t, "memcpy") /\ "merge" \in {"memcpy", "merge"} /\ "memcpy" \notin {"left", "right"}
        /\ "memcpy" # "join"
        /\ stack' = [stack EXCEPT ![t] = goto(t, "merge")]
        /\ UNCHANGED <<input, data, state, sound>>
    BY <1>7 DEF Memcpy
  <2> QED
    BY <2>1, GotoKeeps
<1>8. CASE Merge(t)
  BY <1>8, ReturnKeeps DEF Merge
<1>9. CASE End(t)
  <2>1. Frames' = Frames
    BY <1>9 DEF End, Frames, IInv, Types
  <2>2. Types' /\ Stacks'
    BY <1>9 DEF End, IInv, Types, Stacks
  <2> QED
    BY <1>9, <2>1, <2>2 DEF End, IInv
<1> QED
  BY <1>1, <1>2, <1>3, <1>4, <1>5, <1>6, <1>7, <1>8, <1>9 DEF Step

(* A thread that reads its argument makes the call that it was counted for. *)
LEMMA ThreadFuncKeeps ==
  ASSUME IInv, NEW t \in Thread, thread_func(t)
  PROVE  IInv'
<1>1. t \in Threads /\ t # main /\ data[t] \in Segments /\ state[t] = "created"
  BY SortAssumption DEF Threads, Thread, main, IInv, Types, thread_func
<1>2. Call(data[t], {}) \in Frame /\ Call(data[t], {}).thread = None
  BY <1>1, CallIsFrame
<1>3. Types'
  BY <1>1, <1>2 DEF thread_func, IInv, Types
<1>4. Stacks'
  BY <1>1, <1>2 DEF thread_func, IInv, Types, Stacks
<1>5. Frames' = Frames
  BY <1>1 DEF thread_func, Frames, IInv, Types
<1> QED
  BY <1>3, <1>4, <1>5 DEF thread_func, IInv

(* A call that joins nobody goes on, or the program does something else.    *)
LEMMA JoinNobodyKeeps ==
  ASSUME IInv, NEW t \in Threads, JoinNobody(t)
  PROVE  IInv'
<1>1. /\ At(t, "join") /\ top(t).thread = None
      /\ UNCHANGED <<input, data, state, sound>>
  BY DEF JoinNobody, JoinsNobody
<1>2. CASE stack' = [stack EXCEPT ![t] = goto(t, "memcpy")]
  <2>1. "memcpy" \in {"memcpy", "merge"} /\ "join" \notin {"left", "right"}
    OBVIOUS
  <2> QED
    BY <1>1, <1>2, <2>1, GotoKeeps
<1>3. CASE UNCHANGED stack
  BY <1>1, <1>3 DEF IInv, Types, Stacks, Frames
<1> QED
  BY <1>2, <1>3 DEF JoinNobody

(* A thread has read an argument in parts. *)
LEMMA TornReadKeeps ==
  ASSUME IInv, NEW t \in Thread, TornRead(t)
  PROVE  IInv'
<1>1. UNCHANGED <<input, stack, data, state, sound>>
  BY DEF TornRead
<1> QED
  BY <1>1 DEF IInv, Types, Stacks, Frames

(* What is read is not endless. *)
LEMMA AllIsSegment ==
  ASSUME input \in Input
  PROVE  All \in Segments
<1>1. PICK n \in 0 .. N : DOMAIN input = 0 .. n - 1
  BY SortAssumption
<1>2. IsFiniteSet(DOMAIN input)
  BY <1>1, SortAssumption, FS_Interval
<1>3. Cardinality(DOMAIN input) \in Nat
  BY <1>2, FS_CardinalityType
<1> QED
  BY <1>3 DEF All, Segments

(* At first only main has a call. *)
LEMMA InitGood == Init => IInv
<1> SUFFICES ASSUME Init
             PROVE  IInv
  OBVIOUS
<1>1. main \in Threads /\ main \notin Thread /\ [lo |-> 0, size |-> 0] \in Segments
  BY DEF Threads, Thread, main, Segments
<1> DEFINE c == Call(All, {})
<1>2. c \in Frame /\ c.seg = All /\ c.pc = "left" /\ c.thread = None
  BY AllIsSegment, CallIsFrame DEF Init
<1> HIDE DEF c
<1>3. \A t \in Threads : stack[t] = IF t = main THEN <<c>> ELSE <<>>
  BY DEF Init, Threads, c
<1>4. Types
  BY <1>1, <1>2, <1>3 DEF Types, Init, Threads, c
<1>5. ASSUME NEW t \in Threads, NEW k \in 1 .. Len(stack[t])
      PROVE  t = main /\ k = 1 /\ stack[t][k] = c
  <2>1. CASE t = main
    <3>1. stack[t] = <<c>>
      BY <1>3, <2>1
    <3> QED
      BY <2>1, <3>1
  <2>2. CASE t # main
    <3>1. stack[t] = <<>>
      BY <1>3, <2>2
    <3> QED
      BY <3>1
  <2> QED
    BY <2>1, <2>2
<1>6. \A t \in Threads : Frames[t] = stack[t]
  BY DEF Frames, Init, Threads
<1>7. Stacks
  <2>1. \A t \in Threads : state[t] # "running" => stack[t] = <<>>
    BY <1>3 DEF Init, Threads
  <2> QED
    BY <1>2, <1>5, <2>1 DEF Stacks
<1>8. Good(Frames)
  <2>1. ASSUME NEW t \in Threads, NEW k \in 1 .. Len(Frames[t])
        PROVE  t = main /\ k = 1 /\ Frames[t][k] = c
    BY <1>5, <1>6
  <2>2. ASSUME NEW t \in Threads, NEW k \in 1 .. Len(Frames[t])
        PROVE  GoodCall(Frames, t, k)
    BY <1>2, <2>1 DEF GoodCall, SizedCall, LentCall, Lends, None, main
  <2> QED
    BY <2>1, <2>2 DEF Good
<1> QED
  BY <1>4, <1>7, <1>8 DEF IInv

(* The calls of all threads stay a tree, as long as the sort is sound.      *)
THEOREM InvariantHolds == Spec => []IInv
<1>1. IInv /\ [Next]_vars => IInv'
  <2>1. ASSUME IInv, Next
        PROVE  IInv'
    BY <2>1, StepKeeps, JoinNobodyKeeps, ThreadFuncKeeps, TornReadKeeps DEF Next, Threads
  <2>2. ASSUME IInv, UNCHANGED vars
        PROVE  IInv'
    BY <2>2 DEF vars, IInv, Types, Stacks, Frames
  <2> QED
    BY <2>1, <2>2
<1> QED
  BY <1>1, InitGood, PTL DEF Spec

-----------------------------------------------------------------------------
(* A sound sort is one that the model follows to its end.                   *)

(* A call that is to join a thread has started it, and a thread that has    *)
(* still to read its argument will find in d what the call has given it.    *)
Given(d, st, f) ==
  /\ f.pc \in {"right", "join"} /\ f.seg.size > Threshold => f.thread # None
  /\ f.thread # None /\ st[f.thread] = "created" => d[f.thread] = LeftHalf(f.seg)

AllGiven == \A t \in Threads : \A k \in 1 .. Len(stack[t]) : Given(data, state, stack[t][k])

Followed == astray \in BOOLEAN /\ (sound => ~astray /\ AllGiven)

(* Call g has started as much as call f, which has not got further. *)
Continues(g, f) ==
  /\ g.seg = f.seg /\ g.thread = f.thread
  /\ g.pc \in {"right", "join"} /\ g.seg.size > Threshold => f.pc \in {"right", "join"}

(* Thread t has the calls s instead. *)
LEMMA GivenGoesOn ==
  ASSUME IInv, AllGiven, NEW t \in Threads, NEW s, stack' = [stack EXCEPT ![t] = s],
         \A j \in 1 .. Len(s) :
           \/ s[j].pc = "left" /\ s[j].thread = None
           \/ \E k \in 1 .. Len(stack[t]) : Continues(s[j], stack[t][k]),
         UNCHANGED data, \A u \in Thread : state'[u] = "created" => state[u] = "created"
  PROVE  AllGiven'
<1>1. stack \in [Threads -> Seq(Frame)]
  BY DEF IInv, Types
<1>2. ASSUME NEW v \in Threads, NEW k \in 1 .. Len(stack[v])
      PROVE  Given(data, state, stack[v][k]) /\ stack[v][k].thread \in {None} \cup Thread
  <2>1. stack[v][k] \in Frame
    BY <1>1
  <2> QED
    BY <2>1 DEF AllGiven, Frame
<1>3. ASSUME NEW f, Given(data, state, f), NEW g, Continues(g, f), f.thread \in {None} \cup Thread
      PROVE  Given(data', state', g)
  BY <1>3 DEF Given, Continues
<1>4. ASSUME NEW w \in Threads, NEW j \in 1 .. Len(stack'[w])
      PROVE  Given(data', state', stack'[w][j])
  <2>1. CASE w # t
    <3>1. stack'[w] = stack[w]
      BY <1>1, <2>1
    <3>2. Given(data, state, stack[w][j]) /\ stack[w][j].thread \in {None} \cup Thread
      BY <1>2, <3>1
    <3>3. Continues(stack[w][j], stack[w][j])
      BY DEF Continues
    <3> QED
      BY <1>3, <3>1, <3>2, <3>3
  <2>2. CASE w = t
    <3>1. stack'[w] = s
      BY <1>1, <2>2
    <3>2. CASE s[j].pc = "left" /\ s[j].thread = None
      BY <3>1, <3>2 DEF Given
    <3>3. CASE \E k \in 1 .. Len(stack[t]) : Continues(s[j], stack[t][k])
      <4>1. PICK k \in 1 .. Len(stack[t]) : Continues(s[j], stack[t][k])
        BY <3>3
      <4>2. Given(data, state, stack[t][k]) /\ stack[t][k].thread \in {None} \cup Thread
        BY <1>2
      <4> QED
        BY <1>3, <3>1, <4>1, <4>2
    <3> QED
      BY <3>1, <3>2, <3>3
  <2> QED
    BY <2>1, <2>2
<1> QED
  BY <1>4 DEF AllGiven

(* The innermost call of t has got further and has started nothing more,    *)
(* maybe with the new call c on top of it.                                  *)
LEMMA GivenGoto ==
  ASSUME IInv, AllGiven, NEW t \in Threads, NEW pc, At(t, pc), NEW next,
         next \in {"memcpy", "merge"} \/ pc = "right" \/ (next = "right" /\ top(t).seg.size <= Threshold),
         next \in {"right", "join", "memcpy", "merge"},
         NEW c, c.pc = "left" /\ c.thread = None /\ c \in Frame,
         stack' \in {[stack EXCEPT ![t] = goto(t, next)], [stack EXCEPT ![t] = <<c>> \o goto(t, next)]},
         UNCHANGED <<data, state>>
  PROVE  AllGiven'
<1> DEFINE p == [top(t) EXCEPT !.pc = next]
<1>1. /\ stack[t] \in Seq(Frame) /\ stack[t] # <<>> /\ top(t) = stack[t][1] /\ top(t) \in Frame
      /\ top(t).pc = pc
  BY TopCall DEF IInv
<1>2. p \in Frame /\ p.seg = top(t).seg /\ p.thread = top(t).thread /\ p.pc = next
  BY <1>1 DEF Frame
<1>3. top(t).seg.size \in Nat
  BY <1>1 DEF Frame
<1>4. Continues(p, stack[t][1])
  BY <1>1, <1>2, <1>3, SortAssumption DEF Continues
<1>5. goto(t, next) = <<p>> \o Tail(stack[t])
  BY DEF goto
<1> HIDE DEF p
<1>6. ASSUME NEW k \in 2 .. Len(stack[t])
      PROVE  Continues(stack[t][k], stack[t][k])
  BY DEF Continues
<1>7. 1 \in 1 .. Len(stack[t])
  BY <1>1
<1>8. CASE stack' = [stack EXCEPT ![t] = goto(t, next)]
  <2> DEFINE s == <<p>> \o Tail(stack[t])
  <2>1. Len(s) = Len(stack[t]) /\ s[1] = p /\ \A k \in 2 .. Len(stack[t]) : s[k] = stack[t][k]
    BY <1>1, <1>2, RetopSeq
  <2>2. stack' = [stack EXCEPT ![t] = s]
    BY <1>5, <1>8
  <2> HIDE DEF s
  <2>3. ASSUME NEW j \in 1 .. Len(s)
        PROVE  \E k \in 1 .. Len(stack[t]) : Continues(s[j], stack[t][k])
    <3>1. j = 1 \/ j \in 2 .. Len(stack[t])
      BY <2>1
    <3>2. j \in 1 .. Len(stack[t])
      BY <2>1
    <3> QED
      BY <1>4, <1>6, <1>7, <2>1, <3>1, <3>2
  <2> QED
    BY <2>2, <2>3, GivenGoesOn
<1>9. CASE stack' = [stack EXCEPT ![t] = <<c>> \o goto(t, next)]
  <2> DEFINE s == <<c>> \o (<<p>> \o Tail(stack[t]))
  <2>1. /\ Len(s) = Len(stack[t]) + 1 /\ s[1] = c /\ s[2] = p
        /\ \A k \in 3 .. Len(stack[t]) + 1 : s[k] = stack[t][k - 1]
    BY <1>1, <1>2, PushSeq
  <2>2. stack' = [stack EXCEPT ![t] = s]
    BY <1>5, <1>9
  <2> HIDE DEF s
  <2>3. ASSUME NEW j \in 2 .. Len(s)
        PROVE  \E k \in 1 .. Len(stack[t]) : Continues(s[j], stack[t][k])
    <3>1. Len(stack[t]) \in Nat
      BY <1>1
    <3>2. j = 2 \/ (j \in 3 .. Len(stack[t]) + 1 /\ j - 1 \in 2 .. Len(stack[t]) /\ j - 1 \in 1 .. Len(stack[t]))
      BY <2>1, <3>1
    <3> QED
      BY <1>4, <1>6, <1>7, <2>1, <3>2
  <2>4. ASSUME NEW j \in 1 .. Len(s)
        PROVE  j = 1 \/ j \in 2 .. Len(s)
    OBVIOUS
  <2> QED
    BY <2>1, <2>2, <2>3, <2>4, GivenGoesOn
<1> QED
  BY <1>8, <1>9

(* The innermost call of t returns. *)
LEMMA GivenReturn ==
  ASSUME IInv, AllGiven, NEW t \in Threads, stack[t] # <<>>,
         stack' = [stack EXCEPT ![t] = Tail(stack[t])], UNCHANGED <<data, state>>
  PROVE  AllGiven'
<1> DEFINE s == Tail(stack[t])
<1>1. stack[t] \in Seq(Frame)
  BY DEF IInv, Types
<1>2. Len(s) = Len(stack[t]) - 1 /\ \A k \in 1 .. Len(stack[t]) - 1 : s[k] = stack[t][k + 1]
  BY <1>1, PopSeq
<1>3. Len(stack[t]) \in Nat
  BY <1>1
<1> HIDE DEF s
<1>4. ASSUME NEW j \in 1 .. Len(s)
      PROVE  \E k \in 1 .. Len(stack[t]) : Continues(s[j], stack[t][k])
  <2>1. j + 1 \in 1 .. Len(stack[t]) /\ s[j] = stack[t][j + 1]
    BY <1>2, <1>3
  <2> QED
    BY <2>1 DEF Continues
<1>5. stack' = [stack EXCEPT ![t] = s]
  BY DEF s
<1> QED
  BY <1>4, <1>5, GivenGoesOn

(* A new thread is given the left half; no thread has still to read what is *)
(* written over.                                                            *)
LEMMA GivenStart ==
  ASSUME IInv, AllGiven, NEW t \in Threads, StartThread(t), sound'
  PROVE  AllGiven'
<1> DEFINE seg == top(t).seg
           shared == top(t).shared
<1>1. PICK u \in Thread :
       /\ \A w \in Thread : state[w] = "new" <=> w >= u
       /\ state' = [state EXCEPT ![u] = "created"]
       /\ data' = [w \in Thread |-> IF w \in shared \cup {u} THEN LeftHalf(seg) ELSE data[w]]
       /\ stack' = [stack EXCEPT ![t] =
                      <<[Head(goto(t, "right")) EXCEPT !.thread = u, !.shared = shared \cup {u}]>> \o Tail(@)]
       /\ \A w \in shared : state[w] # "created"
  BY DEF StartThread
<1>2. /\ stack[t] \in Seq(Frame) /\ stack[t] # <<>> /\ top(t) = stack[t][1] /\ top(t) \in Frame
      /\ shared \in SUBSET Thread
  BY TopCall DEF IInv, StartThread
<1> DEFINE q == [top(t) EXCEPT !.pc = "right"]
           p == [q EXCEPT !.thread = u, !.shared = shared \cup {u}]
           s == <<p>> \o Tail(stack[t])
<1>3. p \in Frame /\ p.seg = seg /\ p.thread = u
  BY <1>2 DEF Frame
<1>4. u # None /\ state[u] = "new"
  BY <1>1, SortAssumption DEF Thread, None
<1>5. stack' = [stack EXCEPT ![t] = s]
  <2>1. Head(goto(t, "right")) = q
    BY <1>2 DEF goto
  <2> QED
    BY <1>1, <2>1
<1>6. Given(data', state', p)
  BY <1>1, <1>3, <1>4 DEF Given
<1> HIDE DEF p
<1>7. Len(s) = Len(stack[t]) /\ s[1] = p /\ \A k \in 2 .. Len(stack[t]) : s[k] = stack[t][k]
  BY <1>2, <1>3, RetopSeq
<1> HIDE DEF s
<1>8. stack \in [Threads -> Seq(Frame)] /\ state \in [Threads -> {"new", "created", "running", "ended"}]
  BY DEF IInv, Types
<1>9. ASSUME NEW v \in Threads, NEW k \in 1 .. Len(stack[v])
      PROVE  Given(data', state', stack[v][k])
  <2>1. stack[v][k] \in Frame
    BY <1>8
  <2> DEFINE f == stack[v][k]
  <2>2. Given(data, state, f) /\ f.thread \in {None} \cup Thread
    BY <2>1 DEF AllGiven, Frame
  <2>3. f.thread # None => f.thread # u
    BY <1>4 DEF IInv, Stacks
  <2> HIDE DEF f
  <2>4. ASSUME f.thread # None, state'[f.thread] = "created"
        PROVE  data'[f.thread] = LeftHalf(f.seg)
    <3>1. f.thread \in Thread /\ f.thread \in Threads /\ f.thread # u
      BY <2>2, <2>3, <2>4 DEF Threads
    <3>2. state[f.thread] = "created"
      BY <1>1, <1>8, <2>4, <3>1
    <3> QED
      BY <1>1, <2>2, <2>4, <3>1, <3>2 DEF Given
  <2>5. Given(data', state', f)
    BY <2>2, <2>4 DEF Given
  <2> QED
    BY <2>5 DEF f
<1>10. ASSUME NEW w \in Threads, NEW j \in 1 .. Len(stack'[w])
       PROVE  Given(data', state', stack'[w][j])
  <2>1. CASE w # t
    <3>1. stack'[w] = stack[w]
      BY <1>5, <1>8, <2>1
    <3> QED
      BY <1>9, <3>1
  <2>2. CASE w = t
    <3>1. stack'[w] = s
      BY <1>5, <1>8, <2>2
    <3>2. j = 1 \/ (j \in 2 .. Len(stack[t]) /\ j \in 1 .. Len(stack[t]))
      BY <1>2, <1>7, <3>1
    <3> QED
      BY <1>6, <1>7, <1>9, <3>1, <3>2
  <2> QED
    BY <2>1, <2>2
<1> QED
  BY <1>10 DEF AllGiven

(* Every step of a thread keeps what the threads have been given. *)
LEMMA StepGiven ==
  ASSUME IInv, AllGiven, NEW t \in Threads, Step(t), sound'
  PROVE  AllGiven'
<1>1. {} \in SUBSET Thread
  OBVIOUS
<1>2. CASE ReturnSmall(t)
  BY <1>2, GivenReturn DEF ReturnSmall, At
<1>3. CASE CallLeft(t)
  <2> DEFINE c == Call(LeftHalf(top(t).seg), {})
  <2>1. c \in Frame /\ c.pc = "left" /\ c.thread = None
    BY <1>1, <1>3, TopCall, CallIsFrame DEF CallLeft, IInv
  <2>2. /\ At(t, "left") /\ "right" \in {"right", "join", "memcpy", "merge"} /\ top(t).seg.size <= Threshold
        /\ stack' = [stack EXCEPT ![t] = <<c>> \o goto(t, "right")] /\ UNCHANGED <<data, state>>
    BY <1>3, SortAssumption DEF CallLeft
  <2> HIDE DEF c
  <2> QED
    BY <2>1, <2>2, GivenGoto
<1>4. CASE StartThread(t)
  BY <1>4, GivenStart
<1>5. CASE StartFails(t)
  BY <1>5 DEF StartFails
<1>6. CASE CallRight(t)
  <2>1. PICK shared \in {{}, top(t).shared} :
          stack' = [stack EXCEPT ![t] = <<Call(RightHalf(top(t).seg), shared)>> \o goto(t, "join")]
    BY <1>6 DEF CallRight
  <2> DEFINE c == Call(RightHalf(top(t).seg), shared)
  <2>2. At(t, "right") /\ UNCHANGED <<data, state>>
    BY <1>6 DEF CallRight
  <2>3. c \in Frame /\ c.pc = "left" /\ c.thread = None
    BY <1>1, <2>1, <2>2, TopCall, CallIsFrame DEF IInv
  <2>4. "join" \in {"right", "join", "memcpy", "merge"} /\ stack' = [stack EXCEPT ![t] = <<c>> \o goto(t, "join")]
    BY <2>1
  <2> HIDE DEF c
  <2> QED
    BY <2>2, <2>3, <2>4, GivenGoto
<1>7. ASSUME NEW pc, NEW next \in {"memcpy", "merge"}, At(t, pc),
             stack' = [stack EXCEPT ![t] = goto(t, next)], UNCHANGED <<data, state>>
      PROVE  AllGiven'
  <2> DEFINE c == Call(LeftHalf(top(t).seg), {})
  <2>1. c \in Frame /\ c.pc = "left" /\ c.thread = None
    BY <1>1, <1>7, TopCall, CallIsFrame DEF IInv
  <2> HIDE DEF c
  <2> QED
    BY <1>7, <2>1, GivenGoto
<1>8. CASE Join(t)
  BY <1>7, <1>8 DEF Join
<1>9. CASE Memcpy(t)
  BY <1>7, <1>9 DEF Memcpy
<1>10. CASE Merge(t)
  BY <1>10, GivenReturn DEF Merge, At
<1>11. CASE End(t)
  <2>1. UNCHANGED <<stack, data>> /\ state' = [state EXCEPT ![t] = "ended"]
    BY <1>11 DEF End
  <2>2. state \in [Threads -> {"new", "created", "running", "ended"}]
    BY DEF IInv, Types
  <2>3. ASSUME NEW w \in Threads, NEW k \in 1 .. Len(stack[w])
        PROVE  Given(data', state', stack[w][k])
    <3>1. state'[stack[w][k].thread] = "created" => state[stack[w][k].thread] = "created"
      BY <2>1, <2>2
    <3> QED
      BY <2>1, <2>3, <3>1 DEF AllGiven, Given
  <2> QED
    BY <2>1, <2>3 DEF AllGiven
<1> QED
  BY <1>2, <1>3, <1>4, <1>5, <1>6, <1>8, <1>9, <1>10, <1>11 DEF Step

(* As long as the sort is sound the program goes nowhere that the model     *)
(* does not follow it: what NoRace and SortedAtEnd say of a sound sort is   *)
(* not said of one that the model has left.                                 *)
THEOREM NeverAstray == Spec => []Followed
<1>1. Init => Followed
  <2> SUFFICES ASSUME Init
               PROVE  Followed
    OBVIOUS
  <2>1. ASSUME NEW t \in Threads, NEW k \in 1 .. Len(stack[t])
        PROVE  stack[t][k].pc = "left" /\ stack[t][k].thread = None
    <3>1. stack[t] = IF t = main THEN <<Call(All, {})>> ELSE <<>>
      BY DEF Init, Threads
    <3>2. t = main /\ k = 1
      <4>1. t = main
        <5>1. CASE t # main
          <6>1. stack[t] = <<>>
            BY <3>1, <5>1
          <6> QED
            BY <6>1
        <5> QED
          BY <5>1
      <4>2. stack[t] = <<Call(All, {})>>
        BY <3>1, <4>1
      <4> QED
        BY <4>1, <4>2
    <3> QED
      BY <3>1, <3>2 DEF Call
  <2> QED
    BY <2>1 DEF Followed, AllGiven, Given, Init
<1>2. ASSUME IInv, Followed, [Next]_vars
      PROVE  Followed'
  <2>1. CASE \E t \in Threads : Step(t)
    <3>1. PICK t \in Threads : Step(t)
      BY <2>1
    <3>2. UNCHANGED astray /\ (sound' => sound)
      <4>1. CASE StartThread(t)
        <5>1. UNCHANGED astray /\ sound' = (sound /\ \A w \in top(t).shared : state[w] # "created")
          BY <4>1 DEF StartThread
        <5> QED
          BY <5>1
      <4>2. CASE StartFails(t)
        BY <4>2 DEF StartFails
      <4>3. CASE UNCHANGED <<sound, astray>>
        BY <4>3
      <4>4. ReturnSmall(t) \/ CallLeft(t) \/ CallRight(t) \/ Join(t) \/ Memcpy(t) \/ Merge(t) \/ End(t)
              => UNCHANGED <<sound, astray>>
        BY DEF ReturnSmall, CallLeft, CallRight, Join, Memcpy, Merge, End
      <4> QED
        BY <3>1, <4>1, <4>2, <4>3, <4>4 DEF Step
    <3>3. sound' => AllGiven'
      BY <1>2, <3>1, <3>2, StepGiven DEF Followed
    <3> QED
      BY <1>2, <3>2, <3>3 DEF Followed
  <2>2. CASE \E t \in Threads : JoinNobody(t)
    <3>1. PICK t \in Threads : JoinNobody(t)
      BY <2>2
    <3>2. /\ At(t, "join") /\ top(t).seg.size > Threshold /\ top(t).thread = None /\ sound' = sound
          /\ astray' \in {TRUE, astray}
      BY <3>1 DEF JoinNobody, JoinsNobody
    <3>3. top(t) = stack[t][1] /\ 1 \in 1 .. Len(stack[t]) /\ top(t).pc = "join"
      BY <1>2, <3>2, TopCall DEF IInv
    <3>4. ~sound
      BY <1>2, <3>2, <3>3 DEF Followed, AllGiven, Given
    <3> QED
      BY <1>2, <3>2, <3>4 DEF Followed
  <2>3. CASE \E t \in Thread : thread_func(t)
    <3>1. PICK t \in Thread : thread_func(t)
      BY <2>3
    <3> DEFINE s == <<Call(data[t], {})>>
    <3>2. /\ t \in Threads /\ stack' = [stack EXCEPT ![t] = s] /\ state' = [state EXCEPT ![t] = "running"]
          /\ UNCHANGED <<data, sound, astray>>
      BY <3>1 DEF thread_func, Threads
    <3>3. \A j \in 1 .. Len(s) : s[j].pc = "left" /\ s[j].thread = None
      BY DEF Call
    <3> HIDE DEF s
    <3>4. \A u \in Thread : state'[u] = "created" => state[u] = "created"
      BY <1>2, <3>2 DEF IInv, Types, Threads
    <3>5. sound => AllGiven'
      BY <1>2, <3>2, <3>3, <3>4, GivenGoesOn DEF Followed
    <3> QED
      BY <1>2, <3>2, <3>5 DEF Followed
  <2>4. CASE \E t \in Thread : TornRead(t)
    <3>1. PICK t \in Thread, u \in Threads : state[t] = "created" /\ \E f \in ToSet(stack[u]) :
            f.thread = t /\ data[t] # LeftHalf(f.seg)
      BY <2>4 DEF TornRead, Threads
    <3>2. PICK k \in 1 .. Len(stack[u]) : stack[u][k].thread = t /\ data[t] # LeftHalf(stack[u][k].seg)
      BY <1>2, <3>1 DEF ToSet, IInv, Types
    <3>3. t # None
      BY SortAssumption DEF Thread, None
    <3>4. ~sound
      BY <1>2, <3>1, <3>2, <3>3 DEF Followed, AllGiven, Given
    <3>5. sound' = sound /\ astray' = TRUE
      BY <2>4 DEF TornRead
    <3> QED
      BY <3>4, <3>5 DEF Followed
  <2>5. CASE UNCHANGED vars
    BY <1>2, <2>5 DEF vars, Followed, AllGiven
  <2> QED
    BY <1>2, <2>1, <2>2, <2>3, <2>4, <2>5 DEF Next, Threads
<1> QED
  BY <1>1, <1>2, InvariantHolds, PTL DEF Spec

(* What a thread touches, nobody else is at work on. *)
LEMMA TouchesAlone ==
  ASSUME IInv, NEW t \in Threads, NEW k, k \in Touches(t)
  PROVE  /\ Frames[t] # <<>> /\ 1 \in 1 .. Len(Frames[t]) /\ \A a : ~Inside(Frames, a, t, 1)
         /\ Frames[t][1].seg \in Segments /\ k \in Cells(Frames[t][1].seg)
<1>1. PICK pc \in {"left", "memcpy", "merge"} : At(t, pc)
  BY DEF Touches
<1>2. /\ stack[t] \in Seq(Frame) /\ Frames[t] = stack[t] /\ stack[t] # <<>> /\ top(t) = stack[t][1]
      /\ top(t).seg \in Segments
  BY <1>1, TopCall DEF IInv
<1>3. ~Lends(Frames, t, 1)
  BY <1>1, LendsNothing
<1>4. k \in Cells(top(t).seg)
  BY DEF Touches
<1> QED
  BY <1>2, <1>3, <1>4, Idle

(* No data race: for every number of ints and threads, no two threads are   *)
(* at a copy or a merge of the same ints.                                   *)
THEOREM NeverRaces == Spec => []NoRace
<1>1. ASSUME IInv, sound, NEW t \in Threads, NEW u \in Threads, t # u,
             NEW k, k \in Touches(t), k \in Touches(u)
      PROVE  FALSE
  <2> DEFINE a == Frames[t][1].seg
             b == Frames[u][1].seg
  <2>1. /\ a \in Segments /\ b \in Segments /\ k \in Cells(a) /\ k \in Cells(b)
        /\ 1 \in 1 .. Len(Frames[t]) /\ 1 \in 1 .. Len(Frames[u])
        /\ ~Inside(Frames, b, t, 1) /\ ~Inside(Frames, a, u, 1)
    BY <1>1, TouchesAlone
  <2>2. Apart(a, b)
    BY <1>1, <2>1, PairAt DEF IInv, Pair
  <2> HIDE DEF a, b
  <2> QED
    BY <2>1, <2>2 DEF Segments, Apart, Cells
<1>2. IInv /\ Followed => NoRace
  BY <1>1 DEF NoRace, Threads, Followed
<1> QED
  BY <1>2, InvariantHolds, NeverAstray, PTL

-----------------------------------------------------------------------------
(* Part 2: what merge and mergeSort compute.                                *)

(* The natural numbers are well-founded. *)
LEMMA LessIsWellFounded ==
  \E R : IsWellFoundedOn(R, Nat) /\ \A x, y \in Nat : y < x => <<y, x>> \in R
<1> DEFINE R == OpToRel(<, Nat)
<1>1. \A x, y \in Nat : y < x => <<y, x>> \in R
  BY DEF OpToRel
<1>2. IsWellFoundedOn(R, Nat)
  BY NatLessThanWellFounded
<1> HIDE DEF R
<1> QED
  BY <1>1, <1>2

(* A set of natural numbers has a least element.                            *)
LEMMA Least ==
  ASSUME NEW T \in SUBSET Nat, T # {}
  PROVE  \E x \in T : \A y \in T : x <= y
<1>1. PICK R : /\ IsWellFoundedOn(R, Nat)
               /\ \A x, y \in Nat : y < x => <<y, x>> \in R
  BY LessIsWellFounded
<1>2. \E x \in T : \A y \in T : ~ (<<y, x>> \in R)
  BY <1>1, WFMin
<1>3. PICK x \in T : \A y \in T : ~ (<<y, x>> \in R)
  BY <1>2
<1>4. \A y \in T : ~ (y < x)
  BY <1>1, <1>3, Zenon
<1> QED
  BY <1>4

-----------------------------------------------------------------------------
(* How many of the first k ints of l, of the left half, come before the     *)
(* others: what merge computes as it goes on.                               *)
Walk(l, r, n, t) ==
  /\ t \in [0 .. n -> 0 .. Len(l)] /\ t[0] = 0
  /\ \A k \in 0 .. n : k - t[k] \in 0 .. Len(r)
  /\ \A k \in 1 .. n :
       t[k] = IF TakesLeft(l, r, t[k - 1], k - 1 - t[k - 1]) THEN t[k - 1] + 1 ELSE t[k - 1]

(* One step of it stays within the halves.                                  *)
LEMMA TakesWithin ==
  ASSUME NEW l \in Seq(Int), NEW r \in Seq(Int), NEW k \in 1 .. Len(l) + Len(r),
         NEW i \in 0 .. Len(l), k - 1 - i \in 0 .. Len(r)
  PROVE  /\ TakesLeft(l, r, i, k - 1 - i) => i + 1 \in 0 .. Len(l)
         /\ ~TakesLeft(l, r, i, k - 1 - i) => k - i \in 1 .. Len(r)
<1>1. Len(l) \in Nat /\ Len(r) \in Nat
  OBVIOUS
<1>2. TakesLeft(l, r, i, k - 1 - i) => i < Len(l)
  BY DEF TakesLeft
<1>3. ASSUME ~TakesLeft(l, r, i, k - 1 - i) PROVE i = Len(l) \/ k - 1 - i < Len(r)
  BY <1>1, <1>3 DEF TakesLeft
<1> HIDE DEF TakesLeft
<1> QED
  BY <1>1, <1>2, <1>3

(* There is a walk of any length: the recursion of merge defines one.       *)
LEMMA WalkExists ==
  ASSUME NEW l \in Seq(Int), NEW r \in Seq(Int)
  PROVE  \A n \in 0 .. Len(l) + Len(r) : \E t : Walk(l, r, n, t)
<1> DEFINE Bad == {n \in 0 .. Len(l) + Len(r) : ~\E t : Walk(l, r, n, t)}
<1>1. Len(l) \in Nat /\ Len(r) \in Nat
  OBVIOUS
<1> SUFFICES ASSUME Bad # {} PROVE FALSE
  OBVIOUS
<1>2. Bad \in SUBSET Nat
  BY <1>1
<1>3. PICK n \in Bad : \A m \in Bad : n <= m
  <2> HIDE DEF Bad
  <2> QED
    BY <1>2, Least
<1>4. n \in 0 .. Len(l) + Len(r) /\ ~\E t : Walk(l, r, n, t)
  OBVIOUS
<1>5. CASE n = 0
  <2> DEFINE t == [k \in 0 .. 0 |-> 0]
  <2>1. t \in [0 .. 0 -> 0 .. Len(l)] /\ t[0] = 0
    BY <1>1
  <2>2. \A k \in 0 .. 0 : k - t[k] \in 0 .. Len(r)
    BY <1>1
  <2>3. \A k \in 1 .. 0 : FALSE
    OBVIOUS
  <2> HIDE DEF t
  <2>4. Walk(l, r, 0, t)
    BY <2>1, <2>2, <2>3 DEF Walk
  <2> QED
    BY <1>4, <1>5, <2>4
<1>6. CASE n > 0
  <2>1. n - 1 \in 0 .. Len(l) + Len(r) /\ n - 1 < n /\ n \in Nat
    BY <1>1, <1>4, <1>6
  <2>2. n - 1 \notin Bad
    <3>1. ~(n <= n - 1)
      BY <2>1
    <3> HIDE DEF Bad
    <3> QED
      BY <1>3, <3>1
  <2>3. PICK s : Walk(l, r, n - 1, s)
    BY <2>1, <2>2
  <2> HIDE DEF Bad
  <2> DEFINE i == s[n - 1]
             x == IF TakesLeft(l, r, i, n - 1 - i) THEN i + 1 ELSE i
             t == [k \in 0 .. n |-> IF k = n THEN x ELSE s[k]]
  <2>4. /\ s \in [0 .. n - 1 -> 0 .. Len(l)] /\ s[0] = 0
        /\ \A k \in 0 .. n - 1 : k - s[k] \in 0 .. Len(r)
        /\ \A k \in 1 .. n - 1 :
             s[k] = IF TakesLeft(l, r, s[k - 1], k - 1 - s[k - 1]) THEN s[k - 1] + 1 ELSE s[k - 1]
    BY <2>3 DEF Walk
  <2>5. n - 1 \in 0 .. n - 1 /\ i \in 0 .. Len(l) /\ n - 1 - i \in 0 .. Len(r)
    BY <2>1, <2>4
  <2> HIDE DEF i
  <2>6. x \in 0 .. Len(l) /\ n - x \in 0 .. Len(r)
    <3>1. n \in 1 .. Len(l) + Len(r)
      BY <1>1, <1>4, <1>6
    <3>2. CASE TakesLeft(l, r, i, n - 1 - i)
      <4>1. i + 1 \in 0 .. Len(l) /\ x = i + 1
        BY <2>5, <3>1, <3>2, TakesWithin
      <4> HIDE DEF x
      <4> QED
        BY <1>1, <2>1, <2>5, <4>1
    <3>3. CASE ~TakesLeft(l, r, i, n - 1 - i)
      <4>1. n - i \in 1 .. Len(r) /\ x = i
        BY <2>5, <3>1, <3>3, TakesWithin
      <4> HIDE DEF x
      <4> QED
        BY <1>1, <2>1, <2>5, <4>1
    <3> QED
      BY <3>2, <3>3
  <2>7. t \in [0 .. n -> 0 .. Len(l)] /\ t[n] = x /\ \A k \in 0 .. n - 1 : t[k] = s[k]
    <3> HIDE DEF x
    <3>1. \A k \in 0 .. n : k # n => k \in 0 .. n - 1
      BY <2>1
    <3>2. \A k \in 0 .. n - 1 : k # n /\ k \in 0 .. n
      BY <2>1
    <3>3. \A k \in 0 .. n : (IF k = n THEN x ELSE s[k]) \in 0 .. Len(l)
      BY <2>4, <2>6, <3>1
    <3>4. n \in 0 .. n
      BY <2>1
    <3> QED
      BY <3>2, <3>3, <3>4
  <2>8. x = IF TakesLeft(l, r, t[n - 1], n - 1 - t[n - 1]) THEN t[n - 1] + 1 ELSE t[n - 1]
    <3>1. t[n - 1] = i
      BY <2>5, <2>7 DEF i
    <3> QED
      BY <3>1
  <2> HIDE DEF x, t
  <2>9. Walk(l, r, n, t)
    <3>1. ASSUME NEW k \in 0 .. n PROVE k - t[k] \in 0 .. Len(r)
      <4>1. CASE k = n
        BY <2>6, <2>7, <4>1
      <4>2. CASE k # n
        <5>1. k \in 0 .. n - 1
          BY <2>1, <4>2
        <5> QED
          BY <2>4, <2>7, <5>1
      <4> QED
        BY <4>1, <4>2
    <3>2. ASSUME NEW k \in 1 .. n
          PROVE  t[k] = IF TakesLeft(l, r, t[k - 1], k - 1 - t[k - 1]) THEN t[k - 1] + 1 ELSE t[k - 1]
      <4>1. CASE k = n
        BY <2>7, <2>8, <4>1
      <4>2. CASE k # n
        <5>1. k \in 1 .. n - 1 /\ k \in 0 .. n - 1 /\ k - 1 \in 0 .. n - 1
          BY <2>1, <4>2
        <5>2. t[k] = s[k] /\ t[k - 1] = s[k - 1]
          BY <2>7, <5>1
        <5> QED
          BY <2>4, <5>1, <5>2
      <4> QED
        BY <4>1, <4>2
    <3>3. t[0] = 0
      <4>1. 0 \in 0 .. n - 1
        BY <2>1
      <4> QED
        BY <2>4, <2>7, <4>1
    <3> QED
      BY <2>7, <3>1, <3>2, <3>3 DEF Walk
  <2> QED
    BY <1>4, <2>9
<1> QED
  BY <1>4, <1>5, <1>6

(* What merge(l, r) is: the ints of l and of r, along such a walk.          *)
Merged(l, r, t, m) ==
  /\ m = [k \in 1 .. Len(l) + Len(r) |-> IF t[k] > t[k - 1] THEN l[t[k]] ELSE r[k - t[k]]]
  /\ Walk(l, r, Len(l) + Len(r), t)

(* merge takes the walk: left_taken is the function its equation describes. *)
LEMMA MergeWalks ==
  ASSUME NEW l \in Seq(Int), NEW r \in Seq(Int)
  PROVE  \E t : Merged(l, r, t, merge(l, r))
<1> DEFINE n == Len(l) + Len(r)
           left_taken[k \in 0 .. n] ==
             IF k = 0 THEN 0
             ELSE IF TakesLeft(l, r, left_taken[k - 1], k - 1 - left_taken[k - 1])
                  THEN left_taken[k - 1] + 1
                  ELSE left_taken[k - 1]
           Onward(t, k) == IF TakesLeft(l, r, t[k - 1], k - 1 - t[k - 1]) THEN t[k - 1] + 1 ELSE t[k - 1]
<1>1. Len(l) \in Nat /\ Len(r) \in Nat /\ n \in Nat
  OBVIOUS
<1>2. PICK s : Walk(l, r, n, s)
  <2>1. n \in 0 .. n
    BY <1>1
  <2> QED
    BY <2>1, WalkExists
<1>3. s = [k \in 0 .. n |-> IF k = 0 THEN 0 ELSE Onward(s, k)]
  <2> HIDE DEF n
  <2>1. s \in [0 .. n -> 0 .. Len(l)] /\ s[0] = 0 /\ \A k \in 1 .. n : s[k] = Onward(s, k)
    BY <1>2 DEF Walk
  <2> HIDE DEF Onward
  <2>2. \A k \in 0 .. n : s[k] = IF k = 0 THEN 0 ELSE Onward(s, k)
    <3> SUFFICES ASSUME NEW k \in 0 .. n
                 PROVE  s[k] = IF k = 0 THEN 0 ELSE Onward(s, k)
      OBVIOUS
    <3>1. k = 0 \/ k \in 1 .. n
      BY <1>1
    <3>2. CASE k = 0
      BY <2>1, <3>2
    <3>3. CASE k # 0
      <4>1. s[k] = Onward(s, k)
        <5>1. k \in 1 .. n
          BY <3>1, <3>3
        <5> QED
          BY <2>1, <5>1, Zenon
      <4> QED
        BY <3>3, <4>1
    <3> QED
      BY <3>2, <3>3
  <2> QED
    BY <2>1, <2>2
<1>4. left_taken = [k \in 0 .. n |-> IF k = 0 THEN 0 ELSE Onward(left_taken, k)]
  <2> HIDE DEF n
  <2> QED
    BY <1>3
<1>5. merge(l, r) = [k \in 1 .. n |->
        IF left_taken[k] > left_taken[k - 1] THEN l[left_taken[k]] ELSE r[k - left_taken[k]]]
  BY DEF merge
<1> HIDE DEF left_taken
<1>6. Walk(l, r, n, left_taken)
  <2> DEFINE Bad == {k \in 0 .. n : left_taken[k] # s[k]}
  <2> HIDE DEF n
  <2>1. Bad = {}
    <3> SUFFICES ASSUME Bad # {} PROVE FALSE
      OBVIOUS
    <3>1. Bad \in SUBSET Nat
      BY <1>1
    <3>2. PICK k \in Bad : \A m \in Bad : k <= m
      <4> HIDE DEF Bad
      <4> QED
        BY <3>1, Least
    <3>3. k \in 0 .. n /\ left_taken[k] # s[k]
      OBVIOUS
    <3>4. left_taken[k] = IF k = 0 THEN 0 ELSE Onward(left_taken, k)
      <4> HIDE DEF Step
      <4> QED
        BY <1>4, <3>3
    <3>5. s[k] = IF k = 0 THEN 0 ELSE Onward(s, k)
      <4> HIDE DEF Step
      <4> QED
        BY <1>3, <3>3
    <3>6. CASE k = 0
      BY <3>3, <3>4, <3>5, <3>6
    <3>7. CASE k # 0
      <4>1. k - 1 \in 0 .. n /\ ~(k <= k - 1)
        BY <1>1, <3>3, <3>7
      <4>2. k - 1 \notin Bad
        <5> HIDE DEF Bad
        <5> QED
          BY <3>2, <4>1
      <4>3. left_taken[k - 1] = s[k - 1]
        BY <4>1, <4>2
      <4>4. Onward(left_taken, k) = Onward(s, k)
        BY <4>3
      <4> HIDE DEF Step
      <4> QED
        BY <3>3, <3>4, <3>5, <3>7, <4>4
    <3> QED
      BY <3>6, <3>7
  <2>2. \A k \in 0 .. n : left_taken[k] = s[k]
    BY <2>1
  <2>3. left_taken = s
    <3>1. s = [k \in 0 .. n |-> s[k]]
      BY <1>3
    <3>2. left_taken = [k \in 0 .. n |-> left_taken[k]]
      BY <1>4
    <3> QED
      BY <2>2, <3>1, <3>2
  <2> QED
    BY <1>2, <2>3
<1>7. Merged(l, r, left_taken, merge(l, r))
  BY <1>5, <1>6 DEF Merged
<1> QED
  BY <1>7

(* Where an int of the result comes from. *)
LEMMA MergedFrom ==
  ASSUME NEW l \in Seq(Int), NEW r \in Seq(Int), NEW t, NEW m, Merged(l, r, t, m),
         NEW k \in 1 .. Len(l) + Len(r)
  PROVE  /\ t[k - 1] \in 0 .. Len(l) /\ k - 1 - t[k - 1] \in 0 .. Len(r)
         /\ t[k] \in 0 .. Len(l) /\ k - t[k] \in 0 .. Len(r)
         /\ \/ /\ TakesLeft(l, r, t[k - 1], k - 1 - t[k - 1])
               /\ t[k] = t[k - 1] + 1 /\ t[k] \in 1 .. Len(l) /\ m[k] = l[t[k]]
            \/ /\ ~TakesLeft(l, r, t[k - 1], k - 1 - t[k - 1])
               /\ t[k] = t[k - 1] /\ k - t[k] \in 1 .. Len(r) /\ m[k] = r[k - t[k]]
<1> DEFINE n == Len(l) + Len(r)
<1>1. Len(l) \in Nat /\ Len(r) \in Nat /\ n \in Nat
  OBVIOUS
<1>2. k \in 0 .. n /\ k - 1 \in 0 .. n
  BY <1>1
<1>3. m[k] = IF t[k] > t[k - 1] THEN l[t[k]] ELSE r[k - t[k]]
  BY DEF Merged
<1> HIDE DEF n
<1>4. /\ t[k - 1] \in 0 .. Len(l) /\ k - 1 - t[k - 1] \in 0 .. Len(r)
      /\ t[k] \in 0 .. Len(l) /\ k - t[k] \in 0 .. Len(r)
      /\ t[k] = IF TakesLeft(l, r, t[k - 1], k - 1 - t[k - 1]) THEN t[k - 1] + 1 ELSE t[k - 1]
  <2>1. Walk(l, r, n, t) /\ k \in 1 .. n
    BY DEF Merged, n
  <2> QED
    BY <1>2, <2>1 DEF Walk
<1>5. CASE TakesLeft(l, r, t[k - 1], k - 1 - t[k - 1])
  <2>1. t[k] = t[k - 1] + 1
    BY <1>4, <1>5
  <2>2. t[k] \in 1 .. Len(l) /\ t[k] > t[k - 1]
    BY <1>1, <1>4, <2>1, SMTT(30)
  <2> QED
    BY <1>3, <1>4, <1>5, <2>1, <2>2
<1>6. CASE ~TakesLeft(l, r, t[k - 1], k - 1 - t[k - 1])
  <2>1. t[k] = t[k - 1]
    BY <1>4, <1>6
  <2>2. k - t[k - 1] \in 1 .. Len(r)
    BY <1>4, <1>6, TakesWithin
  <2>3. ~(t[k] > t[k - 1])
    BY <1>1, <1>4, <2>1
  <2> QED
    BY <1>3, <1>4, <1>6, <2>1, <2>2, <2>3
<1> QED
  BY <1>5, <1>6

-----------------------------------------------------------------------------
(* A sequence of some ints is a sequence of ints. *)
LEMMA SeqOfInts ==
  ASSUME NEW S \in SUBSET Int, NEW c \in Seq(S)
  PROVE  c \in Seq(Int) /\ Len(c) \in Nat
<1>1. Len(c) \in Nat /\ c = [k \in 1 .. Len(c) |-> c[k]] /\ \A k \in 1 .. Len(c) : c[k] \in S
  OBVIOUS
<1>2. \A k \in 1 .. Len(c) : c[k] \in Int
  BY <1>1
<1>3. PICK n \in Nat : n = Len(c)
  BY <1>1
<1>4. c \in [1 .. n -> Int]
  BY <1>1, <1>2, <1>3
<1> QED
  BY <1>1, <1>4

(* merge returns the ints of both halves, ... *)
LEMMA MergeRange ==
  ASSUME NEW S \in SUBSET Int, NEW l \in Seq(S), NEW r \in Seq(S)
  PROVE  merge(l, r) \in Seq(S) /\ Len(merge(l, r)) = Len(l) + Len(r)
<1>1. l \in Seq(Int) /\ r \in Seq(Int) /\ Len(l) + Len(r) \in Nat
  BY SeqOfInts
<1>2. PICK t : Merged(l, r, t, merge(l, r))
  BY <1>1, MergeWalks
<1> DEFINE m == merge(l, r)
           n == Len(l) + Len(r)
<1>3. m = [k \in 1 .. n |-> m[k]]
  BY <1>2 DEF Merged
<1> HIDE DEF m
<1>4. ASSUME NEW k \in 1 .. n PROVE m[k] \in S
  <2>1. \/ t[k] \in 1 .. Len(l) /\ m[k] = l[t[k]]
        \/ k - t[k] \in 1 .. Len(r) /\ m[k] = r[k - t[k]]
    BY <1>1, <1>2, MergedFrom DEF m
  <2> QED
    BY <2>1
<1> HIDE DEF n
<1>5. m \in [1 .. n -> S]
  BY <1>3, <1>4
<1>6. n \in Nat
  BY <1>1 DEF n
<1>7. m \in Seq(S) /\ Len(m) = n
  BY <1>5, <1>6
<1> QED
  BY <1>7 DEF m, n

Ascending(c) == \A k \in 1 .. Len(c) - 1 : c[k] <= c[k + 1]

(* ... in order if they are in order, ... *)
LEMMA MergeAscending ==
  ASSUME NEW l \in Seq(Int), NEW r \in Seq(Int), Ascending(l), Ascending(r)
  PROVE  Ascending(merge(l, r))
<1> DEFINE m == merge(l, r)
           n == Len(l) + Len(r)
<1>1. PICK t : Merged(l, r, t, m)
  BY MergeWalks
<1>2. m \in Seq(Int) /\ Len(m) = n /\ Len(l) \in Nat /\ Len(r) \in Nat
  <2>1. Int \in SUBSET Int /\ Len(l) \in Nat /\ Len(r) \in Nat
    OBVIOUS
  <2>2. merge(l, r) \in Seq(Int) /\ Len(merge(l, r)) = Len(l) + Len(r)
    BY <2>1, MergeRange
  <2> QED
    BY <2>1, <2>2
<1> HIDE DEF m
<1>3. ASSUME NEW k \in 1 .. n - 1 PROVE m[k] <= m[k + 1]
  <2> DEFINE i == t[k - 1]
             j == k - 1 - t[k - 1]
  <2>1. k \in 1 .. n /\ k + 1 \in 1 .. n /\ (k + 1) - 1 = k /\ k \in Int
    BY <1>2
  <2>2. /\ i \in 0 .. Len(l) /\ j \in 0 .. Len(r)
        /\ \/ TakesLeft(l, r, i, j) /\ t[k] = i + 1 /\ t[k] \in 1 .. Len(l) /\ m[k] = l[t[k]]
           \/ ~TakesLeft(l, r, i, j) /\ t[k] = i /\ k - t[k] \in 1 .. Len(r) /\ m[k] = r[k - t[k]]
    BY <1>1, <2>1, MergedFrom
  <2>3. /\ t[k] \in 0 .. Len(l) /\ k - t[k] \in 0 .. Len(r)
        /\ \/ TakesLeft(l, r, t[k], k - t[k]) /\ t[k] + 1 \in 1 .. Len(l) /\ m[k + 1] = l[t[k] + 1]
           \/ /\ ~TakesLeft(l, r, t[k], k - t[k]) /\ (k + 1) - t[k] \in 1 .. Len(r)
              /\ m[k + 1] = r[(k + 1) - t[k]]
    <3>1. PICK q \in 1 .. n : q = k + 1 /\ q - 1 = k
      BY <2>1
    <3>2. /\ t[q - 1] \in 0 .. Len(l) /\ q - 1 - t[q - 1] \in 0 .. Len(r)
          /\ \/ /\ TakesLeft(l, r, t[q - 1], q - 1 - t[q - 1])
                /\ t[q] = t[q - 1] + 1 /\ t[q] \in 1 .. Len(l) /\ m[q] = l[t[q]]
             \/ /\ ~TakesLeft(l, r, t[q - 1], q - 1 - t[q - 1])
                /\ t[q] = t[q - 1] /\ q - t[q] \in 1 .. Len(r) /\ m[q] = r[q - t[q]]
      BY <1>1, MergedFrom
    <3>3. /\ t[k] \in 0 .. Len(l) /\ k - t[k] \in 0 .. Len(r)
          /\ \/ /\ TakesLeft(l, r, t[k], k - t[k])
                /\ t[q] = t[k] + 1 /\ t[q] \in 1 .. Len(l) /\ m[q] = l[t[q]]
             \/ /\ ~TakesLeft(l, r, t[k], k - t[k])
                /\ t[q] = t[k] /\ q - t[q] \in 1 .. Len(r) /\ m[q] = r[q - t[q]]
      BY <3>1, <3>2
    <3> QED
      BY <3>1, <3>3
  <2>4. k - 1 - i = j
    OBVIOUS
  <2> HIDE DEF i, j, n
  <2>5. CASE TakesLeft(l, r, i, j)
    <3>1. t[k] = i + 1 /\ k - t[k] = j /\ m[k] = l[i + 1] /\ i + 1 \in 1 .. Len(l)
      <4>1. t[k] = i + 1 /\ t[k] \in 1 .. Len(l) /\ m[k] = l[t[k]] /\ i \in 0 .. Len(l)
        BY <2>2, <2>5
      <4>2. k - (i + 1) = j
        BY <2>1, <2>4, <4>1
      <4> QED
        BY <4>1, <4>2
    <3>2. CASE TakesLeft(l, r, t[k], k - t[k])
      <4>1. i + 1 \in 1 .. Len(l) - 1 /\ m[k + 1] = l[(i + 1) + 1]
        BY <1>2, <2>2, <2>3, <3>1, <3>2
      <4> QED
        BY <3>1, <4>1 DEF Ascending
    <3>3. CASE ~TakesLeft(l, r, t[k], k - t[k])
      <4>1. j < Len(r) /\ m[k + 1] = r[j + 1]
        <5>1. (k + 1) - t[k] = j + 1
          BY <2>1, <2>2, <3>1
        <5> QED
          BY <1>2, <2>2, <2>3, <3>3, <5>1
      <4>2. l[i + 1] <= r[j + 1]
        BY <2>5, <4>1 DEF TakesLeft
      <4> QED
        BY <3>1, <4>1, <4>2
    <3> QED
      BY <3>2, <3>3
  <2>6. CASE ~TakesLeft(l, r, i, j)
    <3>1. t[k] = i /\ k - t[k] = j + 1 /\ m[k] = r[j + 1] /\ j + 1 \in 1 .. Len(r)
      <4>1. t[k] = i /\ k - t[k] \in 1 .. Len(r) /\ m[k] = r[k - t[k]] /\ i \in 0 .. Len(l)
        BY <2>2, <2>6
      <4>2. k - i = j + 1
        BY <2>1, <2>4, <4>1
      <4> QED
        BY <4>1, <4>2
    <3>2. CASE TakesLeft(l, r, t[k], k - t[k])
      <4>1. i < Len(l) /\ m[k + 1] = l[i + 1] /\ i + 1 \in 1 .. Len(l)
        BY <1>2, <2>2, <2>3, <3>1, <3>2
      <4>2. ~(l[i + 1] <= r[j + 1])
        BY <2>6, <4>1 DEF TakesLeft
      <4>3. l[i + 1] \in Int /\ r[j + 1] \in Int
        BY <3>1, <4>1
      <4> QED
        BY <3>1, <4>1, <4>2, <4>3
    <3>3. CASE ~TakesLeft(l, r, t[k], k - t[k])
      <4>1. (k + 1) - t[k] = (j + 1) + 1 /\ (j + 1) + 1 \in 1 .. Len(r)
        BY <2>1, <2>2, <2>3, <3>1, <3>3
      <4>2. m[k + 1] = r[(j + 1) + 1] /\ j + 1 \in 1 .. Len(r) - 1
        BY <1>2, <2>2, <2>3, <3>1, <3>3, <4>1
      <4> QED
        BY <3>1, <4>2 DEF Ascending
    <3> QED
      BY <3>2, <3>3
  <2> QED
    BY <2>5, <2>6
<1>4. Ascending(m)
  BY <1>2, <1>3 DEF Ascending
<1> QED
  BY <1>4 DEF m

-----------------------------------------------------------------------------
(* The places among the first k of c where v is. *)
Places(c, k, v) == {q \in 1 .. k : c[q] = v}

(* One place more is searched for v. *)
LEMMA OneMore ==
  ASSUME NEW c, NEW v, NEW k \in Nat
  PROVE  /\ IsFiniteSet(Places(c, k, v)) /\ Cardinality(Places(c, k, v)) \in Nat
         /\ Cardinality(Places(c, 0, v)) = 0
         /\ Cardinality(Places(c, k + 1, v))
              = Cardinality(Places(c, k, v)) + (IF c[k + 1] = v THEN 1 ELSE 0)
<1>1. IsFiniteSet(1 .. k)
  BY FS_Interval
<1>2. IsFiniteSet(Places(c, k, v))
  <2>1. Places(c, k, v) \subseteq 1 .. k
    BY DEF Places
  <2> QED
    BY <1>1, <2>1, FS_Subset
<1>3. Cardinality(Places(c, k, v)) \in Nat
  BY <1>2, FS_CardinalityType
<1>4. Cardinality(Places(c, 0, v)) = 0
  <2>1. Places(c, 0, v) = {}
    BY DEF Places
  <2> QED
    BY <2>1, FS_EmptySet
<1>5. CASE c[k + 1] = v
  <2>1. Places(c, k + 1, v) = Places(c, k, v) \cup {k + 1} /\ k + 1 \notin Places(c, k, v)
    BY <1>5 DEF Places
  <2>2. Cardinality(Places(c, k, v) \cup {k + 1}) = Cardinality(Places(c, k, v)) + 1
    <3>1. PICK P, q : P = Places(c, k, v) /\ q = k + 1
      OBVIOUS
    <3>2. IsFiniteSet(P) /\ q \notin P
      BY <1>2, <2>1, <3>1
    <3>3. Cardinality(P \cup {q}) = Cardinality(P) + 1
      BY <3>2, FS_AddElement
    <3> QED
      BY <3>1, <3>3
  <2> QED
    BY <1>2, <1>3, <1>4, <1>5, <2>1, <2>2
<1>6. CASE c[k + 1] # v
  <2>1. Places(c, k + 1, v) = Places(c, k, v)
    BY <1>6 DEF Places
  <2> QED
    BY <1>2, <1>3, <1>4, <1>6, <2>1
<1> QED
  BY <1>5, <1>6

(* c is made of l and of r: t[k] of its first k places are taken from l.    *)
Interleaved(c, l, r, n, t) ==
  /\ t[0] = 0 /\ \A k \in 0 .. n : t[k] \in Nat /\ k - t[k] \in Nat
  /\ \A k \in 1 .. n : \/ t[k] = t[k - 1] + 1 /\ c[k] = l[t[k]]
                       \/ t[k] = t[k - 1] /\ c[k] = r[k - t[k]]

(* The first k ints of c hold v as often as what they have been taken from. *)
LEMMA InterleavedPlaces ==
  ASSUME NEW c, NEW l, NEW r, NEW n \in Nat, NEW t, Interleaved(c, l, r, n, t), NEW v
  PROVE  \A k \in 0 .. n : Cardinality(Places(c, k, v))
            = Cardinality(Places(l, t[k], v)) + Cardinality(Places(r, k - t[k], v))
<1> DEFINE Right(k) == Cardinality(Places(c, k, v))
                         = Cardinality(Places(l, t[k], v)) + Cardinality(Places(r, k - t[k], v))
           Bad == {k \in 0 .. n : ~Right(k)}
<1> SUFFICES ASSUME Bad # {} PROVE FALSE
  OBVIOUS
<1>1. Bad \in SUBSET Nat
  OBVIOUS
<1>2. PICK k \in Bad : \A m \in Bad : k <= m
  <2> HIDE DEF Bad
  <2> QED
    BY <1>1, Least
<1>3. k \in 0 .. n /\ ~Right(k)
  OBVIOUS
<1>4. CASE k = 0
  <2>1. t[0] = 0 /\ 0 - 0 = 0
    BY DEF Interleaved
  <2>2. Cardinality(Places(c, 0, v)) = 0 /\ Cardinality(Places(l, 0, v)) = 0
        /\ Cardinality(Places(r, 0, v)) = 0
    <3>1. 0 \in Nat
      OBVIOUS
    <3> QED
      BY <3>1, OneMore
  <2> QED
    BY <1>3, <1>4, <2>1, <2>2
<1>5. CASE k > 0
  <2>1. k - 1 \in 0 .. n /\ k \in 1 .. n /\ ~(k <= k - 1) /\ (k - 1) + 1 = k /\ k - 1 \in Nat
    BY <1>3, <1>5
  <2>2. Right(k - 1)
    <3>1. k - 1 \notin Bad
      <4> HIDE DEF Bad
      <4> QED
        BY <1>2, <2>1
    <3> QED
      BY <2>1, <3>1
  <2> DEFINE i == t[k - 1]
             j == k - 1 - t[k - 1]
  <2>3. i \in Nat /\ j \in Nat
    BY <2>1 DEF Interleaved
  <2>4. \/ t[k] = i + 1 /\ k - t[k] = j /\ c[k] = l[i + 1]
        \/ t[k] = i /\ k - t[k] = j + 1 /\ c[k] = r[j + 1]
    <3>1. \/ t[k] = i + 1 /\ c[k] = l[t[k]]
          \/ t[k] = i /\ c[k] = r[k - t[k]]
      BY <2>1 DEF Interleaved
    <3>2. k - (i + 1) = j /\ k - i = j + 1
      BY <2>1, <2>3
    <3> HIDE DEF i, j
    <3> QED
      BY <3>1, <3>2
  <2> DEFINE C == Cardinality(Places(c, k - 1, v))
             L == Cardinality(Places(l, i, v))
             R == Cardinality(Places(r, j, v))
  <2>5. C = L + R
    BY <2>2
  <2>6. /\ C \in Nat /\ L \in Nat /\ R \in Nat
        /\ Cardinality(Places(c, k, v)) = C + (IF c[k] = v THEN 1 ELSE 0)
        /\ Cardinality(Places(l, i + 1, v)) = L + (IF l[i + 1] = v THEN 1 ELSE 0)
        /\ Cardinality(Places(r, j + 1, v)) = R + (IF r[j + 1] = v THEN 1 ELSE 0)
    <3>1. /\ C \in Nat
          /\ Cardinality(Places(c, (k - 1) + 1, v)) = C + (IF c[(k - 1) + 1] = v THEN 1 ELSE 0)
      BY <2>1, OneMore
    <3>2. /\ L \in Nat
          /\ Cardinality(Places(l, i + 1, v)) = L + (IF l[i + 1] = v THEN 1 ELSE 0)
      <4> HIDE DEF i
      <4> QED
        BY <2>3, OneMore
    <3>3. /\ R \in Nat
          /\ Cardinality(Places(r, j + 1, v)) = R + (IF r[j + 1] = v THEN 1 ELSE 0)
      <4> HIDE DEF j
      <4> QED
        BY <2>3, OneMore
    <3> QED
      BY <2>1, <3>1, <3>2, <3>3
  <2> HIDE DEF C
  <2>7. CASE t[k] = i + 1 /\ k - t[k] = j /\ c[k] = l[i + 1]
    <3>1. /\ Cardinality(Places(l, t[k], v)) = L + (IF l[i + 1] = v THEN 1 ELSE 0)
          /\ Cardinality(Places(r, k - t[k], v)) = R
      BY <2>6, <2>7
    <3> HIDE DEF i, j, L, R
    <3>2. Right(k)
      BY <2>5, <2>6, <2>7, <3>1
    <3> QED
      BY <1>3, <3>2
  <2>8. CASE t[k] = i /\ k - t[k] = j + 1 /\ c[k] = r[j + 1]
    <3>1. /\ Cardinality(Places(l, t[k], v)) = L
          /\ Cardinality(Places(r, k - t[k], v)) = R + (IF r[j + 1] = v THEN 1 ELSE 0)
      BY <2>6, <2>8
    <3> HIDE DEF i, j, L, R
    <3>2. Right(k)
      BY <2>5, <2>6, <2>8, <3>1
    <3> QED
      BY <1>3, <3>2
  <2> QED
    BY <2>4, <2>7, <2>8
<1> QED
  BY <1>3, <1>4, <1>5

(* ... and each of them as often as they have it. *)
MadeOf(c, l, r, n, t) ==
  /\ n \in Nat /\ Interleaved(c, l, r, n, t)
  /\ Len(c) = n /\ t[n] = Len(l) /\ n - t[n] = Len(r)

(* Every int is in c as often as in l and r together.                       *)
CountsAdd(c, l, r) == \A v : Occurrences(c, v) = Occurrences(l, v) + Occurrences(r, v)

(* ... and all of c as often as both halves do.                             *)
LEMMA InterleavedCounts ==
  ASSUME NEW c, NEW l, NEW r, NEW n, NEW t, MadeOf(c, l, r, n, t)
  PROVE  CountsAdd(c, l, r)
<1> SUFFICES ASSUME NEW v
             PROVE  Occurrences(c, v) = Occurrences(l, v) + Occurrences(r, v)
  BY DEF CountsAdd
<1>1. /\ n \in Nat /\ n \in 0 .. n /\ Interleaved(c, l, r, n, t)
      /\ Len(c) = n /\ t[n] = Len(l) /\ n - t[n] = Len(r)
  BY DEF MadeOf
<1>2. Cardinality(Places(c, n, v))
        = Cardinality(Places(l, t[n], v)) + Cardinality(Places(r, n - t[n], v))
  BY <1>1, InterleavedPlaces
<1>3. /\ Occurrences(c, v) = Cardinality(Places(c, n, v))
      /\ Occurrences(l, v) = Cardinality(Places(l, t[n], v))
      /\ Occurrences(r, v) = Cardinality(Places(r, n - t[n], v))
  BY <1>1 DEF Occurrences, Places
<1> QED
  BY <1>2, <1>3

(* Merging loses no int and adds none. *)
LEMMA MergeCounts ==
  ASSUME NEW l \in Seq(Int), NEW r \in Seq(Int)
  PROVE  CountsAdd(merge(l, r), l, r)
<1> DEFINE m == merge(l, r)
           n == Len(l) + Len(r)
<1>1. PICK t : Merged(l, r, t, m)
  BY MergeWalks
<1>2. Len(l) \in Nat /\ Len(r) \in Nat /\ n \in Nat /\ Len(m) = n
  <2>1. Int \in SUBSET Int /\ Len(l) \in Nat /\ Len(r) \in Nat
    OBVIOUS
  <2>2. Len(merge(l, r)) = Len(l) + Len(r)
    BY <2>1, MergeRange
  <2> QED
    BY <2>1, <2>2
<1>3. /\ t[0] = 0 /\ \A k \in 0 .. n : t[k] \in 0 .. Len(l) /\ k - t[k] \in 0 .. Len(r)
  <2>1. Walk(l, r, n, t)
    BY <1>1 DEF Merged
  <2> HIDE DEF n
  <2> QED
    BY <2>1 DEF Walk
<1>4. \A k \in 1 .. n : \/ t[k] = t[k - 1] + 1 /\ m[k] = l[t[k]]
                        \/ t[k] = t[k - 1] /\ m[k] = r[k - t[k]]
  <2> SUFFICES ASSUME NEW k \in 1 .. n
               PROVE  \/ t[k] = t[k - 1] + 1 /\ m[k] = l[t[k]]
                      \/ t[k] = t[k - 1] /\ m[k] = r[k - t[k]]
    OBVIOUS
  <2> HIDE DEF m
  <2>1. Merged(l, r, t, m) /\ k \in 1 .. Len(l) + Len(r)
    BY <1>1
  <2> HIDE DEF n
  <2>2. \/ TakesLeft(l, r, t[k - 1], k - 1 - t[k - 1]) /\ t[k] = t[k - 1] + 1
              /\ t[k] \in 1 .. Len(l) /\ m[k] = l[t[k]]
        \/ ~TakesLeft(l, r, t[k - 1], k - 1 - t[k - 1]) /\ t[k] = t[k - 1]
              /\ k - t[k] \in 1 .. Len(r) /\ m[k] = r[k - t[k]]
    BY <2>1, MergedFrom
  <2> QED
    BY <2>2, Zenon
<1> HIDE DEF m, n
<1>5. Interleaved(m, l, r, n, t)
  <2>1. ASSUME NEW k \in 0 .. n
        PROVE  t[k] \in Nat /\ k - t[k] \in Nat
    <3>1. t[k] \in 0 .. Len(l) /\ k - t[k] \in 0 .. Len(r)
      BY <1>3
    <3> QED
      BY <1>2, <3>1
  <2>2. t[0] = 0 /\ \A k \in 0 .. n : t[k] \in Nat /\ k - t[k] \in Nat
    BY <1>3, <2>1, Zenon
  <2> QED
    BY <1>4, <2>2, ZenonT(40) DEF Interleaved
<1>6. t[n] = Len(l) /\ n - t[n] = Len(r)
  <2>1. t[n] \in 0 .. Len(l) /\ n - t[n] \in 0 .. Len(r)
    BY <1>2, <1>3
  <2> QED
    BY <1>2, <2>1 DEF n
<1>7. CountsAdd(m, l, r)
  <2>1. MadeOf(m, l, r, n, t)
    BY <1>2, <1>5, <1>6 DEF MadeOf
  <2> QED
    BY <2>1, InterleavedCounts
<1> QED
  BY <1>7 DEF m

-----------------------------------------------------------------------------
(* The halves of a segment of the arrays. *)
LEMMA HalvesOf ==
  ASSUME NEW n \in Nat, NEW s \in SegmentsOf(n)
  PROVE  /\ s.lo \in Nat /\ s.size \in 0 .. n /\ s.lo + s.size <= n
         /\ LeftHalf(s) \in SegmentsOf(n) /\ RightHalf(s) \in SegmentsOf(n)
         /\ LeftHalf(s).lo = s.lo /\ RightHalf(s).lo = s.lo + LeftHalf(s).size
         /\ RightHalf(s).size = s.size - LeftHalf(s).size /\ LeftHalf(s).size \in 0 .. s.size
         /\ s.size \notin {0, 1} => LeftHalf(s).size < s.size /\ RightHalf(s).size < s.size
<1> DEFINE h == left_size(s)
<1>1. s.lo \in Nat /\ s.size \in 0 .. n /\ s.lo + s.size <= n
  BY DEF SegmentsOf
<1>2. h \in 0 .. s.size /\ (s.size \notin {0, 1} => h \in 1 .. s.size - 1)
  BY <1>1 DEF left_size
<1>3. /\ LeftHalf(s) = [lo |-> s.lo, size |-> h]
      /\ RightHalf(s) = [lo |-> s.lo + h, size |-> s.size - h]
  BY DEF LeftHalf, RightHalf
<1> HIDE DEF h
<1>4. /\ s.lo \in 0 .. n /\ h \in 0 .. n /\ s.lo + h \in 0 .. n /\ s.size - h \in 0 .. n
      /\ s.lo + h <= n /\ (s.lo + h) + (s.size - h) <= n
  BY <1>1, <1>2
<1>5. LeftHalf(s) \in SegmentsOf(n) /\ RightHalf(s) \in SegmentsOf(n)
  BY <1>3, <1>4 DEF SegmentsOf
<1>6. s.size \notin {0, 1} => h < s.size /\ s.size - h < s.size
  BY <1>1, <1>2
<1> QED
  BY <1>1, <1>2, <1>3, <1>5, <1>6

(* An array of n ints, and what it holds in a segment. *)
LEMMA ContentOf ==
  ASSUME NEW n \in Nat, NEW S, NEW a \in [0 .. n - 1 -> S], NEW s \in SegmentsOf(n)
  PROVE  /\ Content(a, s) \in Seq(S) /\ Len(Content(a, s)) = s.size
         /\ \A k \in 1 .. s.size : s.lo + k - 1 \in 0 .. n - 1 /\ Content(a, s)[k] = a[s.lo + k - 1]
<1>1. s.lo \in Nat /\ s.size \in Nat /\ s.lo + s.size <= n
  BY DEF SegmentsOf
<1>2. \A k \in 1 .. s.size : s.lo + k - 1 \in 0 .. n - 1
  BY <1>1
<1>3. Content(a, s) \in [1 .. s.size -> S]
  BY <1>2 DEF Content
<1>4. \A k \in 1 .. s.size : Content(a, s)[k] = a[s.lo + k - 1]
  BY DEF Content
<1>5. Content(a, s) \in Seq(S) /\ Len(Content(a, s)) = s.size
  <2>1. PICK m \in Nat : m = s.size
    BY <1>1
  <2>2. PICK c \in [1 .. m -> S] : c = Content(a, s)
    BY <1>3, <2>1
  <2>3. c \in Seq(S) /\ Len(c) = m
    OBVIOUS
  <2> QED
    BY <2>1, <2>2, <2>3
<1> QED
  BY <1>2, <1>4, <1>5

(* The same for an array of ints. *)
LEMMA ContentOfInts ==
  ASSUME NEW n \in Nat, NEW a \in [0 .. n - 1 -> Int], NEW s \in SegmentsOf(n)
  PROVE  /\ Content(a, s) \in Seq(Int) /\ Len(Content(a, s)) = s.size
         /\ \A k \in 1 .. s.size : Content(a, s)[k] = a[s.lo + k - 1]
  BY ContentOf

(* A segment has the ints of its halves. *)
LEMMA HalvesCounts ==
  ASSUME NEW n \in Nat, NEW a \in [0 .. n - 1 -> Int], NEW s \in SegmentsOf(n)
  PROVE  CountsAdd(Content(a, s), Content(a, LeftHalf(s)), Content(a, RightHalf(s)))
<1> DEFINE h == LeftHalf(s).size
           c == Content(a, s)
           l == Content(a, LeftHalf(s))
           r == Content(a, RightHalf(s))
           t == [k \in 0 .. s.size |-> IF k <= h THEN k ELSE h]
<1>1. /\ s.lo \in Nat /\ s.size \in Nat /\ h \in 0 .. s.size
      /\ LeftHalf(s) \in SegmentsOf(n) /\ RightHalf(s) \in SegmentsOf(n)
      /\ LeftHalf(s).lo = s.lo /\ RightHalf(s).lo = s.lo + h /\ RightHalf(s).size = s.size - h
  BY HalvesOf
<1>2. /\ Len(c) = s.size /\ Len(l) = h /\ Len(r) = s.size - h
      /\ \A k \in 1 .. s.size : c[k] = a[s.lo + k - 1]
      /\ \A k \in 1 .. h : l[k] = a[s.lo + k - 1]
      /\ \A k \in 1 .. s.size - h : r[k] = a[(s.lo + h) + k - 1]
  <2>1. Len(c) = s.size /\ \A k \in 1 .. s.size : c[k] = a[s.lo + k - 1]
    BY ContentOfInts
  <2>2. Len(l) = h /\ \A k \in 1 .. h : l[k] = a[LeftHalf(s).lo + k - 1]
    <3>1. PICK x \in SegmentsOf(n) : x = LeftHalf(s)
      BY <1>1
    <3>2. Len(Content(a, x)) = x.size /\ \A k \in 1 .. x.size : Content(a, x)[k] = a[x.lo + k - 1]
      BY ContentOfInts
    <3> QED
      BY <3>1, <3>2
  <2>3. Len(r) = RightHalf(s).size
        /\ \A k \in 1 .. RightHalf(s).size : r[k] = a[RightHalf(s).lo + k - 1]
    <3>1. PICK x \in SegmentsOf(n) : x = RightHalf(s)
      BY <1>1
    <3>2. Len(Content(a, x)) = x.size /\ \A k \in 1 .. x.size : Content(a, x)[k] = a[x.lo + k - 1]
      BY ContentOfInts
    <3> QED
      BY <3>1, <3>2
  <2> HIDE DEF h, c, l, r
  <2> QED
    BY <1>1, <2>1, <2>2, <2>3
<1> HIDE DEF h, c, l, r
<1>3. /\ t[0] = 0 /\ t[s.size] = h
      /\ \A k \in 0 .. s.size : t[k] \in Nat /\ k - t[k] \in Nat
  BY <1>1
<1>4. ASSUME NEW k \in 1 .. s.size
      PROVE  \/ t[k] = t[k - 1] + 1 /\ c[k] = l[t[k]]
             \/ t[k] = t[k - 1] /\ c[k] = r[k - t[k]]
  <2>1. k \in 0 .. s.size /\ k - 1 \in 0 .. s.size /\ k \in Int
    BY <1>1
  <2>2. CASE k <= h
    <3>1. t[k] = k /\ t[k - 1] = k - 1 /\ k \in 1 .. h /\ (k - 1) + 1 = k
      BY <1>1, <2>1, <2>2
    <3> HIDE DEF t
    <3> QED
      BY <1>2, <3>1
  <2>3. CASE ~(k <= h)
    <3>1. t[k] = h
      BY <1>1, <2>1, <2>3
    <3>2. t[k - 1] = h
      BY <1>1, <2>1, <2>3
    <3>3. k - h \in 1 .. s.size - h /\ (s.lo + h) + (k - h) - 1 = s.lo + k - 1
      BY <1>1, <2>1, <2>3
    <3> HIDE DEF t
    <3> QED
      BY <1>2, <3>1, <3>2, <3>3
  <2> QED
    BY <2>2, <2>3
<1> HIDE DEF t
<1>5. Interleaved(c, l, r, s.size, t)
  BY <1>3, <1>4 DEF Interleaved
<1>6. t[s.size] = Len(l) /\ s.size - t[s.size] = Len(r)
  BY <1>2, <1>3
<1>7. CountsAdd(c, l, r)
  <2>1. MadeOf(c, l, r, s.size, t)
    BY <1>1, <1>2, <1>5, <1>6 DEF MadeOf
  <2> QED
    BY <2>1, InterleavedCounts
<1> QED
  BY <1>7 DEF c, l, r

-----------------------------------------------------------------------------
(* What the call for s returns, if those for smaller segments return f.     *)
SortBody(a, f, s) ==
  IF s.size = 0 THEN <<>>
  ELSE IF s.size = 1 THEN <<a[s.lo]>>
  ELSE merge(f[LeftHalf(s)], f[RightHalf(s)])

(* f is the sort, as far as segments of m ints. *)
SortsUpTo(a, n, m, f) ==
  f = [s \in SegmentsOf(n) |-> IF s.size <= m THEN SortBody(a, f, s) ELSE <<>>]

(* The recursion of mergeSort is defined for segments of any size. *)
LEMMA SortExists ==
  ASSUME NEW n \in Nat, NEW a
  PROVE  \A m \in 0 .. n : \E f : SortsUpTo(a, n, m, f)
<1> DEFINE Bad == {m \in 0 .. n : ~\E f : SortsUpTo(a, n, m, f)}
<1> SUFFICES ASSUME Bad # {} PROVE FALSE
  OBVIOUS
<1>1. Bad \in SUBSET Nat
  OBVIOUS
<1>2. PICK m \in Bad : \A k \in Bad : m <= k
  <2> HIDE DEF Bad
  <2> QED
    BY <1>1, Least
<1>3. m \in 0 .. n /\ ~\E f : SortsUpTo(a, n, m, f)
  OBVIOUS
<1>4. PICK f : m = 0 \/ SortsUpTo(a, n, m - 1, f)
  <2>1. CASE m = 0
    BY <2>1
  <2>2. CASE m # 0
    <3>1. m - 1 \in 0 .. n /\ ~(m <= m - 1)
      BY <1>3, <2>2
    <3>2. m - 1 \notin Bad
      <4> HIDE DEF Bad
      <4> QED
        BY <1>2, <3>1
    <3> QED
      BY <3>1, <3>2
  <2> QED
    BY <2>1, <2>2
<1> HIDE DEF Bad
<1> DEFINE g == [s \in SegmentsOf(n) |-> IF s.size <= m THEN SortBody(a, f, s) ELSE <<>>]
<1>5. ASSUME NEW s \in SegmentsOf(n), s.size <= m
      PROVE  SortBody(a, f, s) = SortBody(a, g, s)
  <2>1. CASE s.size \in {0, 1}
    BY <2>1 DEF SortBody
  <2>2. CASE s.size \notin {0, 1}
    <3>1. ASSUME NEW h \in SegmentsOf(n), h.size < s.size
          PROVE  f[h] = g[h]
      <4>1. h.size \in Nat /\ s.size \in Nat /\ m \in Nat
        BY <1>3 DEF SegmentsOf
      <4>2. h.size <= m - 1 /\ h.size <= m /\ m # 0
        BY <1>5, <3>1, <4>1
      <4>3. f[h] = SortBody(a, f, h)
        BY <1>4, <4>2 DEF SortsUpTo
      <4> QED
        BY <4>2, <4>3
    <3>2. f[LeftHalf(s)] = g[LeftHalf(s)] /\ f[RightHalf(s)] = g[RightHalf(s)]
      <4>1. /\ LeftHalf(s) \in SegmentsOf(n) /\ LeftHalf(s).size < s.size
            /\ RightHalf(s) \in SegmentsOf(n) /\ RightHalf(s).size < s.size
        BY <2>2, HalvesOf
      <4> HIDE DEF g
      <4> QED
        BY <3>1, <4>1
    <3> HIDE DEF g
    <3> QED
      BY <3>2 DEF SortBody
  <2> QED
    BY <2>1, <2>2
<1>6. g = [s \in SegmentsOf(n) |-> IF s.size <= m THEN SortBody(a, g, s) ELSE <<>>]
  <2>1. \A s \in SegmentsOf(n) : (IF s.size <= m THEN SortBody(a, f, s) ELSE <<>>)
                                  = (IF s.size <= m THEN SortBody(a, g, s) ELSE <<>>)
    <3> HIDE DEF g
    <3> QED
      BY <1>5
  <2>2. PICK e : e = g
    OBVIOUS
  <2>3. e = [s \in SegmentsOf(n) |-> IF s.size <= m THEN SortBody(a, f, s) ELSE <<>>]
    BY <2>2
  <2>4. \A s \in SegmentsOf(n) : (IF s.size <= m THEN SortBody(a, f, s) ELSE <<>>)
                                  = (IF s.size <= m THEN SortBody(a, e, s) ELSE <<>>)
    BY <2>1, <2>2
  <2>5. e = [s \in SegmentsOf(n) |-> IF s.size <= m THEN SortBody(a, e, s) ELSE <<>>]
    BY <2>3, <2>4
  <2> QED
    BY <2>2, <2>5
<1> HIDE DEF g
<1> QED
  BY <1>3, <1>6 DEF SortsUpTo

(* What mergeSort returns for a segment. *)
LEMMA SortUnfolds ==
  ASSUME NEW n \in Nat, NEW a
  PROVE  \A s \in SegmentsOf(n) : mergeSort(a, n)[s] = SortBody(a, mergeSort(a, n), s)
<1> DEFINE sort[s \in SegmentsOf(n)] ==
             IF s.size = 0 THEN <<>>
             ELSE IF s.size = 1 THEN <<a[s.lo]>>
             ELSE merge(sort[LeftHalf(s)], sort[RightHalf(s)])
<1>1. PICK f : SortsUpTo(a, n, n, f)
  <2>1. n \in 0 .. n
    OBVIOUS
  <2> QED
    BY <2>1, SortExists
<1>2. f = [s \in SegmentsOf(n) |-> IF s.size = 0 THEN <<>>
             ELSE IF s.size = 1 THEN <<a[s.lo]>>
             ELSE merge(f[LeftHalf(s)], f[RightHalf(s)])]
  <2>1. f = [s \in SegmentsOf(n) |-> IF s.size <= n THEN SortBody(a, f, s) ELSE <<>>]
    BY <1>1 DEF SortsUpTo
  <2>2. \A s \in SegmentsOf(n) : s.size <= n
    BY DEF SegmentsOf
  <2>3. \A s \in SegmentsOf(n) : SortBody(a, f, s) =
             IF s.size = 0 THEN <<>>
             ELSE IF s.size = 1 THEN <<a[s.lo]>>
             ELSE merge(f[LeftHalf(s)], f[RightHalf(s)])
    BY DEF SortBody
  <2> QED
    BY <2>1, <2>2, <2>3
<1>3. sort = [s \in SegmentsOf(n) |-> IF s.size = 0 THEN <<>>
             ELSE IF s.size = 1 THEN <<a[s.lo]>>
             ELSE merge(sort[LeftHalf(s)], sort[RightHalf(s)])]
  BY <1>2
<1>4. mergeSort(a, n) = sort
  BY DEF mergeSort
<1> HIDE DEF sort
<1>5. \A s \in SegmentsOf(n) : sort[s] = SortBody(a, sort, s)
  BY <1>3 DEF SortBody
<1> QED
  BY <1>4, <1>5

(* c is b in order. *)
InOrder(c, b) ==
  /\ c \in Seq(Int) /\ Len(c) = Len(b) /\ Ascending(c)
  /\ \A v : Occurrences(c, v) = Occurrences(b, v)

(* What a segment of one int at most holds. *)
LEMMA SmallContent ==
  ASSUME NEW n \in Nat, NEW a \in [0 .. n - 1 -> Int], NEW s \in SegmentsOf(n), s.size \in {0, 1}
  PROVE  Content(a, s) = IF s.size = 0 THEN <<>> ELSE <<a[s.lo]>>
<1>1. /\ Content(a, s) \in Seq(Int) /\ Len(Content(a, s)) = s.size
      /\ \A k \in 1 .. s.size : Content(a, s)[k] = a[s.lo + k - 1]
  BY ContentOfInts
<1>2. PICK c \in Seq(Int) : c = Content(a, s)
  BY <1>1
<1>3. CASE s.size = 0
  BY <1>1, <1>3, EmptySeq
<1>4. CASE s.size = 1
  <2>1. s.lo \in Nat /\ s.lo + 1 - 1 = s.lo
    BY DEF SegmentsOf
  <2>2. Len(c) = 1 /\ c[1] = a[s.lo]
    BY <1>1, <1>2, <1>4, <2>1
  <2>3. c = <<c[1]>>
    BY <2>2
  <2> QED
    BY <1>2, <1>4, <2>2, <2>3
<1> QED
  BY <1>3, <1>4

(* Two halves in order give the segment in order. *)
LEMMA MergeInOrder ==
  ASSUME NEW l, NEW r, NEW b, NEW p, NEW q, InOrder(l, p), InOrder(r, q),
         p \in Seq(Int), q \in Seq(Int), Len(b) = Len(p) + Len(q), CountsAdd(b, p, q)
  PROVE  InOrder(merge(l, r), b)
<1>1. /\ l \in Seq(Int) /\ r \in Seq(Int) /\ Ascending(l) /\ Ascending(r)
      /\ Len(l) = Len(p) /\ Len(r) = Len(q)
  BY DEF InOrder
<1>2. merge(l, r) \in Seq(Int) /\ Len(merge(l, r)) = Len(l) + Len(r)
  <2>1. Int \in SUBSET Int
    OBVIOUS
  <2> QED
    BY <1>1, <2>1, MergeRange
<1>3. Ascending(merge(l, r))
  BY <1>1, MergeAscending
<1>4. CountsAdd(merge(l, r), l, r)
  BY <1>1, MergeCounts
<1>5. ASSUME NEW v PROVE Occurrences(merge(l, r), v) = Occurrences(b, v)
  <2>1. Occurrences(merge(l, r), v) = Occurrences(l, v) + Occurrences(r, v)
    BY <1>4 DEF CountsAdd
  <2>2. Occurrences(l, v) = Occurrences(p, v) /\ Occurrences(r, v) = Occurrences(q, v)
    BY DEF InOrder
  <2>3. Occurrences(b, v) = Occurrences(p, v) + Occurrences(q, v)
    BY DEF CountsAdd
  <2> QED
    BY <2>1, <2>2, <2>3
<1> QED
  BY <1>1, <1>2, <1>3, <1>5 DEF InOrder

(* mergeSort leaves every segment in order: what it returns for the segment *)
(* is ascending and holds the ints of the segment.                          *)
LEMMA SortsSegment ==
  ASSUME NEW n \in Nat, NEW a \in [0 .. n - 1 -> Int]
  PROVE  \A s \in SegmentsOf(n) : InOrder(mergeSort(a, n)[s], Content(a, s))
<1> DEFINE sort == mergeSort(a, n)
           Right(s) == InOrder(sort[s], Content(a, s))
           Bad == {m \in 0 .. n : \E s \in SegmentsOf(n) : s.size = m /\ ~Right(s)}
<1>0. \A s \in SegmentsOf(n) : sort[s] = SortBody(a, sort, s)
  BY SortUnfolds
<1> HIDE DEF sort
<1>1. ASSUME Bad # {} PROVE FALSE
  <2>1. Bad \in SUBSET Nat
    OBVIOUS
  <2>2. PICK m \in Bad : \A k \in Bad : m <= k
    <3> HIDE DEF Bad
    <3> QED
      BY <1>1, <2>1, Least
  <2>3. PICK s \in SegmentsOf(n) : s.size = m /\ ~Right(s)
    OBVIOUS
  <2>4. sort[s] = SortBody(a, sort, s)
    BY <1>0
  <2>5. CASE s.size \in {0, 1}
    <3>1. sort[s] = Content(a, s)
      BY <2>4, <2>5, SmallContent DEF SortBody
    <3>2. Content(a, s) \in Seq(Int) /\ Len(Content(a, s)) = s.size
      BY ContentOfInts
    <3>3. Ascending(Content(a, s))
      BY <2>5, <3>2 DEF Ascending
    <3>4. PICK b : b = Content(a, s)
      OBVIOUS
    <3>5. InOrder(b, b)
      BY <3>2, <3>3, <3>4 DEF InOrder
    <3>6. Right(s)
      BY <3>1, <3>4, <3>5
    <3> QED
      BY <2>3, <3>6
  <2>6. CASE s.size \notin {0, 1}
    <3> DEFINE L == LeftHalf(s)
               R == RightHalf(s)
    <3>1. /\ L \in SegmentsOf(n) /\ R \in SegmentsOf(n)
          /\ L.size < s.size /\ R.size < s.size /\ R.size = s.size - L.size
          /\ s.size \in Nat /\ L.size \in Nat
      BY <2>6, HalvesOf
    <3>2. ASSUME NEW h \in SegmentsOf(n), h.size < s.size PROVE Right(h)
      <4>1. h.size \in 0 .. n /\ ~(m <= h.size)
        BY <2>3, <3>1, <3>2 DEF SegmentsOf
      <4>2. h.size \notin Bad
        <5> HIDE DEF Bad
        <5> QED
          BY <2>2, <4>1
      <4> QED
        BY <4>1, <4>2
    <3> HIDE DEF Bad
    <3>3. Right(L) /\ Right(R)
      <4> HIDE DEF Right, L, R
      <4> QED
        BY <3>1, <3>2
    <3>4. PICK p, q : p = Content(a, L) /\ q = Content(a, R)
      OBVIOUS
    <3>5. /\ p \in Seq(Int) /\ Len(p) = L.size
          /\ q \in Seq(Int) /\ Len(q) = R.size
          /\ Len(Content(a, s)) = s.size
      <4>1. ASSUME NEW h \in SegmentsOf(n)
            PROVE  Content(a, h) \in Seq(Int) /\ Len(Content(a, h)) = h.size
        BY ContentOfInts
      <4> HIDE DEF L, R
      <4> QED
        BY <3>1, <3>4, <4>1
    <3>6. CountsAdd(Content(a, s), p, q)
      BY <3>4, HalvesCounts
    <3>7. sort[s] = merge(sort[L], sort[R])
      BY <2>4, <2>6 DEF SortBody
    <3>8. InOrder(sort[L], p) /\ InOrder(sort[R], q)
      BY <3>3, <3>4
    <3> HIDE DEF L, R
    <3>9. Len(Content(a, s)) = Len(p) + Len(q)
      BY <3>1, <3>5
    <3>10. InOrder(merge(sort[L], sort[R]), Content(a, s))
      BY <3>5, <3>6, <3>8, <3>9, MergeInOrder
    <3> QED
      BY <2>3, <3>7, <3>10
  <2> QED
    BY <2>5, <2>6
<1>2. ASSUME NEW s \in SegmentsOf(n) PROVE Right(s)
  <2>1. s.size \in 0 .. n
    BY DEF SegmentsOf
  <2> QED
    BY <1>1, <2>1
<1> QED
  BY <1>2 DEF sort

-----------------------------------------------------------------------------
(* Part 3: what the calls find in the arrays.                               *)

(* What follows relates the arrays to the calls: x is what was read, z the  *)
(* sort of every segment of it, n how many ints there are, F the calls, o   *)
(* and r what origin and result hold.                                       *)
AsRead(x, o, s) == Content(o, s) = Content(x, s)

SortedIn(z, a, s) == Content(a, s) = z[s]

(* What call k of t finds in the arrays: the ints of the halves that are    *)
(* still to be sorted are as they were read, the halves whose calls or      *)
(* threads have returned are in order.                                      *)
CallSorts(x, z, F, o, r, t, k) ==
  LET f == F[t][k]
      L == LeftHalf(f.seg)
      R == RightHalf(f.seg)
  IN
  /\ f.pc = "left" => AsRead(x, o, f.seg)
  /\ f.pc = "right" => AsRead(x, o, R) /\ (k = 1 /\ ~Lends(F, t, k) => SortedIn(z, r, L))
  /\ f.pc = "join" => (~Lends(F, t, k) => SortedIn(z, r, L)) /\ (k = 1 => SortedIn(z, r, R))
  /\ f.pc = "memcpy" => SortedIn(z, r, L) /\ SortedIn(z, r, R)
  /\ f.pc = "merge" => SortedIn(z, o, L) /\ SortedIn(z, o, R)

CallsSort(x, z, F, o, r) ==
  \A t \in Threads : \A k \in 1 .. Len(F[t]) : CallSorts(x, z, F, o, r, t, k)

(* main's outermost call is for all; when it has returned all is in order.  *)
MainSorts(z, F, r, all) ==
  IF F[main] = <<>> THEN SortedIn(z, r, all) ELSE Outermost(F, main) = all

SegsIn(F, n) == \A t \in Threads : \A k \in 1 .. Len(F[t]) : F[t][k].seg \in SegmentsOf(n)

(* Array b is array a outside p. *)
SameBut(n, a, b, p) == \A i \in 0 .. n - 1 : i \notin Cells(p) => b[i] = a[i]

(* What lies apart from p is the same in both. *)
LEMMA Elsewhere ==
  ASSUME NEW n \in Nat, NEW a, NEW b, NEW p \in SegmentsOf(n), NEW s \in SegmentsOf(n),
         SameBut(n, a, b, p), Apart(s, p)
  PROVE  Content(b, s) = Content(a, s)
<1>1. /\ s.lo \in Nat /\ s.size \in Nat /\ s.lo + s.size <= n
      /\ p.lo \in Nat /\ p.size \in Nat
  BY DEF SegmentsOf
<1>2. ASSUME NEW k \in 1 .. s.size
      PROVE  b[s.lo + k - 1] = a[s.lo + k - 1]
  <2> DEFINE i == s.lo + k - 1
  <2>1. i \in 0 .. n - 1 /\ i \notin Cells(p)
    BY <1>1 DEF Apart, Cells
  <2> HIDE DEF i
  <2>2. b[i] = a[i]
    BY <2>1 DEF SameBut
  <2> QED
    BY <2>2 DEF i
<1> QED
  BY <1>2 DEF Content

(* A segment is a segment of natural numbers. *)
LEMMA SegmentsOfN ==
  ASSUME NEW n \in Nat, NEW s \in SegmentsOf(n)
  PROVE  /\ s \in Segments /\ LeftHalf(s) \in SegmentsOf(n) /\ RightHalf(s) \in SegmentsOf(n)
         /\ LeftHalf(s) \in Segments /\ RightHalf(s) \in Segments
         /\ Within(LeftHalf(s), s) /\ Within(RightHalf(s), s)
         /\ Apart(LeftHalf(s), RightHalf(s)) /\ Apart(RightHalf(s), LeftHalf(s))
<1>1. s \in Segments
  BY DEF SegmentsOf, Segments
<1>2. /\ LeftHalf(s) \in Segments /\ RightHalf(s) \in Segments
      /\ LeftHalf(s).lo = s.lo /\ RightHalf(s).lo = s.lo + LeftHalf(s).size
      /\ Within(LeftHalf(s), s) /\ Within(RightHalf(s), s)
  BY <1>1, Halves DEF Segments
<1>3. Apart(LeftHalf(s), RightHalf(s)) /\ Apart(RightHalf(s), LeftHalf(s))
  <2>1. RightHalf(s).lo \in Nat /\ LeftHalf(s).lo + LeftHalf(s).size <= RightHalf(s).lo
    BY <1>1, <1>2 DEF Segments
  <2> QED
    BY <2>1 DEF Apart
<1> QED
  BY <1>1, <1>2, <1>3, HalvesOf

(* The halves of what is as it was read are too. *)
LEMMA HalvesAsRead ==
  ASSUME NEW n \in Nat, NEW x, NEW o, NEW s \in SegmentsOf(n), AsRead(x, o, s)
  PROVE  AsRead(x, o, LeftHalf(s)) /\ AsRead(x, o, RightHalf(s))
<1>1. /\ s.lo \in Nat /\ s.size \in Nat
      /\ LeftHalf(s).lo = s.lo /\ RightHalf(s).lo = s.lo + LeftHalf(s).size
      /\ RightHalf(s).size = s.size - LeftHalf(s).size /\ LeftHalf(s).size \in 0 .. s.size
  BY HalvesOf
<1>2. \A k \in 1 .. s.size : o[s.lo + k - 1] = x[s.lo + k - 1]
  <2>1. ASSUME NEW k \in 1 .. s.size
        PROVE  o[s.lo + k - 1] = x[s.lo + k - 1]
    <3>1. Content(o, s)[k] = Content(x, s)[k]
      BY DEF AsRead
    <3> QED
      BY <3>1 DEF Content
  <2> QED
    BY <2>1
<1>3. AsRead(x, o, LeftHalf(s))
  BY <1>1, <1>2 DEF AsRead, Content
<1>4. ASSUME NEW k \in 1 .. RightHalf(s).size
      PROVE  o[RightHalf(s).lo + k - 1] = x[RightHalf(s).lo + k - 1]
  <2>1. PICK i \in 1 .. s.size : i = LeftHalf(s).size + k
    BY <1>1
  <2>2. RightHalf(s).lo + k - 1 = s.lo + i - 1
    BY <1>1, <2>1
  <2> QED
    BY <1>2, <2>2
<1>5. AsRead(x, o, RightHalf(s))
  BY <1>4 DEF AsRead, Content
<1> QED
  BY <1>3, <1>5

(* The innermost call of t, which has handed on nothing, writes on its      *)
(* segment: no other call finds other ints.                                 *)
LEMMA WriteElsewhere ==
  ASSUME NEW n \in Nat, NEW F \in [Threads -> Seq(Frame)], Good(F), SegsIn(F, n),
         NEW t \in Threads, F[t] # <<>>, ~Lends(F, t, 1),
         NEW x, NEW z, NEW o, NEW r, NEW o2, NEW r2,
         SameBut(n, o, o2, F[t][1].seg), SameBut(n, r, r2, F[t][1].seg),
         NEW w \in Threads, NEW j \in 1 .. Len(F[w]), w # t \/ j # 1,
         CallSorts(x, z, F, o, r, w, j)
  PROVE  CallSorts(x, z, F, o2, r2, w, j)
<1>1. PICK p \in SegmentsOf(n) : p = F[t][1].seg
  <2>1. 1 \in 1 .. Len(F[t])
    OBVIOUS
  <2> QED
    BY <2>1 DEF SegsIn
<1>2. PICK f : f = F[w][j]
  OBVIOUS
<1>3. PICK s \in SegmentsOf(n) : s = f.seg
  BY <1>2 DEF SegsIn
<1>4. PICK L \in SegmentsOf(n), R \in SegmentsOf(n) : L = LeftHalf(s) /\ R = RightHalf(s)
  BY SegmentsOfN
<1>5. /\ s \in Segments /\ L \in Segments /\ R \in Segments /\ p \in Segments
      /\ Within(L, s) /\ Within(R, s) /\ Apart(L, R) /\ Apart(R, L)
  BY <1>4, SegmentsOfN
<1>6. SameBut(n, o, o2, p) /\ SameBut(n, r, r2, p)
  BY <1>1
<1>7. \A h \in SegmentsOf(n) : Apart(h, p) => Content(o2, h) = Content(o, h) /\ Content(r2, h) = Content(r, h)
  BY <1>6, Elsewhere
<1>8. Apart(p, s) \/ Inside(F, p, w, j)
  <2>1. CASE w = t
    <3>1. 1 \in 1 .. j - 1 /\ j > 1
      BY <2>1
    <3>2. Above(F, t, 1, j)
      BY <2>1, <3>1, CallAt
    <3> QED
      BY <1>1, <2>1, <3>1, <3>2 DEF Above, Inside
  <2>2. CASE w # t
    <3>1. 1 \in 1 .. Len(F[t])
      OBVIOUS
    <3>2. Pair(F, t, 1, w, j)
      BY <2>2, <3>1, PairAt
    <3>3. ~Inside(F, F[w][j].seg, t, 1)
      BY Idle
    <3> QED
      BY <1>1, <1>2, <1>3, <3>2, <3>3 DEF Pair
  <2> QED
    BY <2>1, <2>2
<1>9. CASE Apart(p, s)
  <2>1. Apart(s, p) /\ Apart(L, p) /\ Apart(R, p)
    <3>1. Apart(s, p)
      BY <1>9 DEF Apart
    <3> QED
      BY <1>5, <3>1, Parts
  <2>2. /\ Content(o2, s) = Content(o, s)
        /\ Content(o2, L) = Content(o, L) /\ Content(r2, L) = Content(r, L)
        /\ Content(o2, R) = Content(o, R) /\ Content(r2, R) = Content(r, R)
    BY <1>7, <2>1
  <2> QED
    BY <1>2, <1>3, <1>4, <2>2 DEF CallSorts, AsRead, SortedIn
<1>10. CASE /\ Within(p, L) /\ f.pc \in {"right", "join"}
            /\ Lends(F, w, j) \/ (f.pc = "right" /\ j # 1)
  <2>1. Apart(R, p)
    BY <1>5, <1>10, Parts
  <2>2. Content(o2, R) = Content(o, R) /\ Content(r2, R) = Content(r, R)
    BY <1>7, <2>1
  <2> QED
    BY <1>2, <1>3, <1>4, <1>10, <2>2 DEF CallSorts, AsRead, SortedIn
<1>11. CASE Within(p, R) /\ f.pc = "join" /\ j # 1
  <2>1. Apart(L, p)
    BY <1>5, <1>11, Parts
  <2>2. Content(r2, L) = Content(r, L)
    BY <1>7, <2>1
  <2> QED
    BY <1>2, <1>3, <1>4, <1>11, <2>2 DEF CallSorts, AsRead, SortedIn
<1>12. Inside(F, p, w, j) =>
         \/ /\ Within(p, L) /\ f.pc \in {"right", "join"}
            /\ Lends(F, w, j) \/ (f.pc = "right" /\ j # 1)
         \/ Within(p, R) /\ f.pc = "join" /\ j # 1
  BY <1>2, <1>3, <1>4 DEF Inside, Lends
<1> QED
  BY <1>8, <1>9, <1>10, <1>11, <1>12

(* A call that stays what it is, and still lends what it has lent, finds    *)
(* what it did.                                                             *)
LEMMA CallStays ==
  ASSUME NEW x, NEW z, NEW F, NEW G, NEW o, NEW r, NEW w, NEW j, NEW k,
         G[w][k] = F[w][j], k = 1 => j = 1, Lends(F, w, j) => Lends(G, w, k),
         CallSorts(x, z, F, o, r, w, j)
  PROVE  CallSorts(x, z, G, o, r, w, k)
  BY DEF CallSorts

(* A call lends what it did if no thread has come to its end.               *)
LEMMA StillLends ==
  ASSUME NEW F \in [Threads -> Seq(Frame)], NEW G, NEW w \in Threads, NEW j \in 1 .. Len(F[w]), NEW k,
         G[w][k].thread = F[w][j].thread, G[w][k].pc \in {"right", "join"},
         \A u \in Threads : F[u] # <<>> => G[u] # <<>>,
         Lends(F, w, j)
  PROVE  Lends(G, w, k)
<1>1. F[w][j] \in Frame /\ F[w][j].thread # None
  BY FrameSeg DEF Lends
<1>2. F[w][j].thread \in Threads
  BY <1>1, Started
<1> QED
  BY <1>2 DEF Lends
-----------------------------------------------------------------------------
(* The innermost call of t calls mergeSort for a half of its segment.       *)
LEMMA PushSorts ==
  ASSUME NEW n \in Nat, NEW F \in [Threads -> Seq(Frame)], Good(F), SegsIn(F, n),
         NEW x, NEW z, NEW o, NEW r, NEW all, CallsSort(x, z, F, o, r), MainSorts(z, F, r, all),
         NEW t \in Threads, F[t] # <<>>,
         NEW c \in Frame, NEW p \in Frame,
         p.seg = F[t][1].seg, p.thread = F[t][1].thread, c.pc = "left",
         \/ F[t][1].pc = "left" /\ p.pc = "right" /\ c.seg = LeftHalf(p.seg)
         \/ F[t][1].pc = "right" /\ p.pc = "join" /\ c.seg = RightHalf(p.seg),
         NEW G, G = [F EXCEPT ![t] = <<c>> \o (<<p>> \o Tail(F[t]))]
  PROVE  CallsSort(x, z, G, o, r) /\ MainSorts(z, G, r, all)
<1> DEFINE m == Len(F[t])
<1>1. F[t] \in Seq(Frame) /\ m \in Nat /\ m >= 1 /\ 1 \in 1 .. m
  OBVIOUS
<1>2. /\ G[t] \in Seq(Frame) /\ Len(G[t]) = m + 1
      /\ G[t][1] = c /\ G[t][2] = p
      /\ \A k \in 3 .. m + 1 : G[t][k] = F[t][k - 1]
  BY <1>1, PushSeq
<1>3. \A w \in Threads \ {t} : G[w] = F[w]
  OBVIOUS
<1>4. \A w \in Threads : F[w] # <<>> => G[w] # <<>>
  BY <1>1, <1>2, <1>3
<1>5. CallSorts(x, z, F, o, r, t, 1)
  BY <1>1 DEF CallsSort
<1>6. PICK s \in SegmentsOf(n) : s = F[t][1].seg
  BY <1>1 DEF SegsIn
<1> HIDE DEF m
<1>7. ASSUME NEW w \in Threads \ {t}, NEW k \in 1 .. Len(G[w])
      PROVE  CallSorts(x, z, G, o, r, w, k)
  <2>1. k \in 1 .. Len(F[w]) /\ G[w][k] = F[w][k]
    BY <1>3
  <2>2. Lends(F, w, k) => Lends(G, w, k)
    <3> HAVE Lends(F, w, k)
    <3>1. G[w][k].pc \in {"right", "join"}
      BY <2>1 DEF Lends
    <3> QED
      BY <1>4, <2>1, <3>1, StillLends
  <2>3. CallSorts(x, z, F, o, r, w, k)
    BY <2>1 DEF CallsSort
  <2> QED
    BY <2>1, <2>2, <2>3, CallStays
<1>8. CallSorts(x, z, G, o, r, t, 1) /\ CallSorts(x, z, G, o, r, t, 2)
  <2>1. CASE F[t][1].pc = "left" /\ p.pc = "right" /\ c.seg = LeftHalf(p.seg)
    <3>1. AsRead(x, o, s)
      BY <1>5, <1>6, <2>1 DEF CallSorts
    <3>2. AsRead(x, o, LeftHalf(s)) /\ AsRead(x, o, RightHalf(s))
      BY <3>1, HalvesAsRead
    <3> QED
      BY <1>2, <1>6, <2>1, <3>2 DEF CallSorts
  <2>2. CASE F[t][1].pc = "right" /\ p.pc = "join" /\ c.seg = RightHalf(p.seg)
    <3>1. AsRead(x, o, RightHalf(s)) /\ (~Lends(F, t, 1) => SortedIn(z, r, LeftHalf(s)))
      BY <1>5, <1>6, <2>2 DEF CallSorts
    <3>2. Lends(F, t, 1) => Lends(G, t, 2)
      <4> HAVE Lends(F, t, 1)
      <4>1. G[t][2].thread = F[t][1].thread /\ G[t][2].pc \in {"right", "join"}
        BY <1>2, <2>2
      <4>2. 1 \in 1 .. Len(F[t])
        BY <1>1 DEF m
      <4> QED
        BY <1>4, <4>1, <4>2, StillLends
    <3> QED
      BY <1>2, <1>6, <2>2, <3>1, <3>2 DEF CallSorts
  <2> QED
    BY <2>1, <2>2
<1>9. ASSUME NEW k \in 3 .. m + 1
      PROVE  CallSorts(x, z, G, o, r, t, k)
  <2>1. PICK j \in 2 .. m : k = j + 1
    <3>1. k - 1 \in 2 .. m /\ k = (k - 1) + 1
      BY <1>1
    <3> QED
      BY <3>1
  <2>2. j \in 1 .. Len(F[t]) /\ k # 1 /\ G[t][k] = F[t][j]
    BY <1>1, <1>2, <2>1 DEF m
  <2>3. Lends(F, t, j) => Lends(G, t, k)
    <3> HAVE Lends(F, t, j)
    <3>1. G[t][k].pc \in {"right", "join"}
      BY <2>2 DEF Lends
    <3> QED
      BY <1>4, <2>2, <3>1, StillLends
  <2>4. CallSorts(x, z, F, o, r, t, j)
    BY <2>2 DEF CallsSort
  <2> QED
    BY <2>2, <2>3, <2>4, CallStays
<1>10. ASSUME NEW k \in 1 .. Len(G[t])
       PROVE  CallSorts(x, z, G, o, r, t, k)
  <2>1. k = 1 \/ k = 2 \/ k \in 3 .. m + 1
    BY <1>1, <1>2
  <2> QED
    BY <1>8, <1>9, <2>1
<1>11. CallsSort(x, z, G, o, r)
  BY <1>7, <1>10 DEF CallsSort
<1>12. ASSUME F[main] # <<>>
       PROVE  G[main] # <<>> /\ Outermost(G, main) = Outermost(F, main)
  <2>1. CASE main # t
    BY <1>3, <1>12, <2>1 DEF Outermost, Threads
  <2>2. CASE main = t
    <3>1. CASE m = 1
      BY <1>2, <2>2, <3>1 DEF Outermost, m
    <3>2. CASE m # 1
      <4>1. m + 1 \in 3 .. m + 1 /\ (m + 1) - 1 = m
        BY <1>1, <3>2
      <4>2. G[t][m + 1] = F[t][m]
        BY <1>2, <4>1
      <4> QED
        BY <1>1, <1>2, <2>2, <4>2 DEF Outermost, m
    <3> QED
      BY <3>1, <3>2, <1>4, <1>12, <2>2
  <2> QED
    BY <2>1, <2>2
<1>13. main \in Threads /\ (F[main] = <<>> => main # t /\ G[main] = F[main])
  BY <1>3 DEF Threads
<1>14. MainSorts(z, G, r, all)
  BY <1>12, <1>13 DEF MainSorts
<1> QED
  BY <1>11, <1>14

(* The innermost call of t goes on, after it has written on its segment, or *)
(* after it has started thread u.                                           *)
LEMMA GotoSorts ==
  ASSUME NEW n \in Nat, NEW F \in [Threads -> Seq(Frame)], Good(F), SegsIn(F, n),
         NEW x, NEW z, NEW o, NEW r, NEW all, CallsSort(x, z, F, o, r), MainSorts(z, F, r, all),
         NEW t \in Threads, F[t] # <<>>, ~Lends(F, t, 1), F[main] # <<>>,
         NEW o2, SameBut(n, o, o2, F[t][1].seg),
         NEW p \in Frame, p.seg = F[t][1].seg,
         NEW G, G[t] = <<p>> \o Tail(F[t]),
         \A w \in Threads \ {t} : F[w] # <<>> => G[w] = F[w],
         CallSorts(x, z, G, o2, r, t, 1),
         \A w \in Threads \ {t} : \A k \in 1 .. Len(G[w]) :
           F[w] = <<>> => CallSorts(x, z, G, o2, r, w, k)
  PROVE  CallsSort(x, z, G, o2, r) /\ MainSorts(z, G, r, all)
<1> DEFINE m == Len(F[t])
<1>1. F[t] \in Seq(Frame) /\ m \in Nat /\ m >= 1 /\ 1 \in 1 .. m
  OBVIOUS
<1>2. /\ Len(G[t]) = m /\ G[t][1] = p /\ \A k \in 2 .. m : G[t][k] = F[t][k]
  BY <1>1, RetopSeq
<1>3. \A w \in Threads : F[w] # <<>> => G[w] # <<>>
  BY <1>1, <1>2
<1> HIDE DEF m
<1>4. ASSUME NEW w \in Threads, NEW k \in 1 .. Len(F[w]), w # t \/ k # 1, G[w][k] = F[w][k]
      PROVE  CallSorts(x, z, G, o2, r, w, k)
  <2>1. Lends(F, w, k) => Lends(G, w, k)
    <3> HAVE Lends(F, w, k)
    <3>1. G[w][k].pc \in {"right", "join"}
      BY <1>4 DEF Lends
    <3> QED
      BY <1>3, <1>4, <3>1, StillLends
  <2>2. CallSorts(x, z, F, o, r, w, k) /\ SameBut(n, r, r, F[t][1].seg)
    BY DEF CallsSort, SameBut
  <2>3. CallSorts(x, z, F, o2, r, w, k)
    BY <1>4, <2>2, WriteElsewhere
  <2> QED
    BY <1>4, <2>1, <2>3, CallStays
<1>5. ASSUME NEW k \in 1 .. Len(G[t])
      PROVE  CallSorts(x, z, G, o2, r, t, k)
  <2>1. k = 1 \/ (k # 1 /\ k \in 2 .. m /\ k \in 1 .. Len(F[t]))
    BY <1>1, <1>2 DEF m
  <2> QED
    BY <1>2, <1>4, <2>1
<1>6. ASSUME NEW w \in Threads \ {t}, NEW k \in 1 .. Len(G[w])
      PROVE  CallSorts(x, z, G, o2, r, w, k)
  <2>1. CASE F[w] # <<>>
    BY <1>4, <2>1
  <2> QED
    BY <2>1
<1>7. G[main] # <<>> /\ Outermost(G, main) = Outermost(F, main)
  <2>1. CASE main # t
    BY <2>1 DEF Outermost, Threads
  <2>2. CASE main = t
    <3>1. m = 1 \/ m \in 2 .. m
      BY <1>1
    <3> QED
      BY <1>1, <1>2, <1>3, <2>2, <3>1 DEF Outermost, m
  <2> QED
    BY <2>1, <2>2
<1> QED
  BY <1>5, <1>6, <1>7 DEF CallsSort, MainSorts
(* The innermost call of t returns, after it has left its segment in order. *)
LEMMA ReturnSorts ==
  ASSUME NEW n \in Nat, NEW F \in [Threads -> Seq(Frame)], Good(F), SegsIn(F, n),
         NEW x, NEW z, NEW o, NEW r, NEW all, CallsSort(x, z, F, o, r), MainSorts(z, F, r, all),
         NEW t \in Threads, F[t] # <<>>, ~Lends(F, t, 1), F[main] # <<>>,
         NEW r2, SameBut(n, r, r2, F[t][1].seg), SortedIn(z, r2, F[t][1].seg),
         NEW G, G = [F EXCEPT ![t] = Tail(F[t])]
  PROVE  CallsSort(x, z, G, o, r2) /\ MainSorts(z, G, r2, all)
<1> DEFINE m == Len(F[t])
<1>1. F[t] \in Seq(Frame) /\ m \in Nat /\ m >= 1 /\ 1 \in 1 .. m
  OBVIOUS
<1>2. /\ Len(G[t]) = m - 1 /\ (G[t] # <<>> <=> m > 1)
      /\ \A k \in 1 .. m - 1 : G[t][k] = F[t][k + 1]
  BY <1>1, PopSeq
<1>3. \A w \in Threads \ {t} : G[w] = F[w]
  OBVIOUS
<1>4. \A u \in Threads : F[u] # <<>> => G[u] # <<>> \/ (u = t /\ m = 1)
  BY <1>1, <1>2, <1>3
<1> HIDE DEF m
<1>5. PICK p \in SegmentsOf(n) : p = F[t][1].seg
  BY <1>1 DEF SegsIn, m
<1>6. ASSUME NEW w \in Threads, NEW j \in 1 .. Len(F[w]), w # t \/ j # 1
      PROVE  CallSorts(x, z, F, o, r2, w, j)
  <2>1. CallSorts(x, z, F, o, r, w, j) /\ SameBut(n, o, o, F[t][1].seg)
    BY DEF CallsSort, SameBut
  <2> QED
    BY <1>6, <2>1, WriteElsewhere
(* Only the thread that ends gives back what was lent to it. *)
<1>7. ASSUME NEW w \in Threads, NEW j \in 1 .. Len(F[w]), NEW k, G[w][k] = F[w][j],
             Lends(F, w, j), ~Lends(G, w, k)
      PROVE  m = 1 /\ F[w][j].thread = t
  <2>1. F[w][j] \in Frame /\ F[w][j].thread # None
    BY <1>7, FrameSeg DEF Lends
  <2>2. F[w][j].thread \in Threads
    BY <2>1, Started
  <2> QED
    BY <1>4, <1>7, <2>2 DEF Lends
<1>8. ASSUME NEW w \in Threads \ {t}, NEW k \in 1 .. Len(G[w])
      PROVE  CallSorts(x, z, G, o, r2, w, k)
  <2>1. k \in 1 .. Len(F[w]) /\ G[w][k] = F[w][k]
    BY <1>3
  <2>2. CallSorts(x, z, F, o, r2, w, k)
    BY <1>6, <2>1
  <2>3. CASE Lends(F, w, k) => Lends(G, w, k)
    BY <2>1, <2>2, <2>3, CallStays
  <2>4. CASE Lends(F, w, k) /\ ~Lends(G, w, k)
    <3>1. m = 1 /\ F[w][k].thread = t
      BY <1>7, <2>1, <2>4
    <3>2. Outermost(F, t) = LeftHalf(F[w][k].seg)
      BY <2>1, <2>4, <3>1, CallAt DEF LentCall
    <3>3. SortedIn(z, r2, LeftHalf(G[w][k].seg))
      BY <2>1, <3>1, <3>2 DEF Outermost, m
    <3>4. G[w][k].pc \in {"right", "join"}
      BY <2>1, <2>4 DEF Lends
    <3> QED
      BY <2>1, <2>2, <3>3, <3>4 DEF CallSorts
  <2> QED
    BY <2>3, <2>4
<1>9. ASSUME NEW k \in 1 .. Len(G[t])
      PROVE  CallSorts(x, z, G, o, r2, t, k)
  <2>1. PICK j \in 2 .. m : j = k + 1
    BY <1>1, <1>2
  <2>2. j \in 1 .. Len(F[t]) /\ G[t][k] = F[t][j] /\ (k = 1 => j = 2) /\ j # 1
    BY <1>1, <1>2, <2>1 DEF m
  <2>3. CallSorts(x, z, F, o, r2, t, j)
    BY <1>6, <2>2
  <2>4. Lends(F, t, j) => Lends(G, t, k)
    <3>1. F[t][j].thread # t
      BY <2>2, CallAt DEF SizedCall
    <3> QED
      BY <1>7, <2>2, <3>1
  <2>5. CASE k # 1
    BY <2>2, <2>3, <2>4, <2>5, CallStays
  <2>6. CASE k = 1
    <3>1. j = 2 /\ 1 \in 1 .. j - 1 /\ j = 1 + 1
      BY <2>2, <2>6
    <3>2. Above(F, t, 1, j)
      BY <2>2, <3>1, CallAt
    <3>3. \/ F[t][j].pc = "right" /\ p = LeftHalf(F[t][j].seg)
          \/ F[t][j].pc = "join" /\ p = RightHalf(F[t][j].seg)
      BY <1>5, <3>1, <3>2 DEF Above
    <3>4. SortedIn(z, r2, p)
      BY <1>5
    <3> QED
      BY <2>2, <2>3, <2>4, <3>3, <3>4 DEF CallSorts
  <2> QED
    BY <2>5, <2>6
<1>10. CallsSort(x, z, G, o, r2)
  BY <1>8, <1>9 DEF CallsSort
<1>11. Outermost(F, main) = all
  BY DEF MainSorts
<1>12. CASE main # t
  <2>1. G[main] = F[main]
    BY <1>3, <1>12 DEF Threads
  <2> QED
    BY <1>10, <1>11, <2>1 DEF MainSorts, Outermost
<1>13. CASE main = t /\ m = 1
  <2>1. G[main] = <<>> /\ F[t][1].seg = all
    BY <1>2, <1>11, <1>13 DEF Outermost, m
  <2> QED
    BY <1>10, <2>1 DEF MainSorts
<1>14. CASE main = t /\ m # 1
  <2>1. m - 1 \in 1 .. m - 1 /\ (m - 1) + 1 = m /\ m > 1
    BY <1>1, <1>14
  <2>2. G[t][m - 1] = F[t][m]
    BY <1>2, <2>1
  <2>3. Outermost(G, t) = Outermost(F, t) /\ G[t] # <<>>
    BY <1>2, <2>1, <2>2 DEF Outermost, m
  <2> QED
    BY <1>10, <1>11, <1>14, <2>3 DEF MainSorts
<1> QED
  BY <1>10, <1>12, <1>13, <1>14
-----------------------------------------------------------------------------
Ints == Range(input) \cup {0}

(* No call and no `data' reaches past the arrays, which hold what was read. *)
Arrays ==
  /\ origin \in [DOMAIN input -> Ints] /\ result \in [DOMAIN input -> Ints]
  /\ SegsIn(stack, All.size)
  /\ \A u \in Thread : data[u] \in SegmentsOf(All.size)

(* A thread that has not ended was started by a call of an earlier thread   *)
(* that has still to join it.                                               *)
Parents ==
  \A u \in Thread : state[u] \in {"created", "running"} =>
    \E t \in Threads :
      t < u /\ \E k \in 1 .. Len(stack[t]) : stack[t][k].thread = u /\ stack[t][k].pc \in {"right", "join"}

Ordered == mergeSort(input, All.size)

Sorting ==
  /\ Parents
  /\ CallsSort(input, Ordered, Frames, origin, result)
  /\ MainSorts(Ordered, Frames, result, All)

SortInv == IInv /\ Arrays /\ (sound => Sorting)

(* What has been read. *)
LEMMA InputIs ==
  ASSUME input \in Input
  PROVE  /\ All.size \in Nat /\ All.size \in 0 .. N /\ DOMAIN input = 0 .. All.size - 1
         /\ All \in SegmentsOf(All.size) /\ All.lo = 0
         /\ Ints \in SUBSET Int /\ input \in [0 .. All.size - 1 -> Int]
         /\ input \in [DOMAIN input -> Ints]
<1>1. PICK n \in 0 .. N : input \in [0 .. n - 1 -> Int]
  BY SortAssumption
<1>2. n \in Nat /\ n - 1 \in Int /\ N \in Nat
  BY SortAssumption
<1>3. Cardinality(0 .. n - 1) = n
  BY <1>2, FS_Interval
<1>4. All.size = n /\ All.lo = 0
  BY <1>1, <1>3 DEF All
<1>5. All \in SegmentsOf(All.size)
  <2>1. All = [lo |-> 0, size |-> n]
    BY <1>1, <1>3 DEF All
  <2> QED
    BY <1>2, <2>1 DEF SegmentsOf
<1>6. Range(input) \subseteq Int /\ \A k \in DOMAIN input : input[k] \in Range(input)
  BY <1>1 DEF Range
<1>7. input = [k \in DOMAIN input |-> input[k]]
  BY <1>1
<1> QED
  BY <1>1, <1>2, <1>4, <1>5, <1>6, <1>7 DEF Ints

(* The arrays are arrays of ints, the calls are about segments of them.     *)
LEMMA ArraysAre ==
  ASSUME IInv, Arrays
  PROVE  /\ origin \in [0 .. All.size - 1 -> Int] /\ result \in [0 .. All.size - 1 -> Int]
         /\ Frames \in [Threads -> Seq(Frame)] /\ SegsIn(Frames, All.size)
<1>1. input \in Input /\ Types
  BY DEF IInv, Types
<1>2. DOMAIN input = 0 .. All.size - 1 /\ Ints \in SUBSET Int
  BY <1>1, InputIs
<1>3. origin \in [0 .. All.size - 1 -> Int] /\ result \in [0 .. All.size - 1 -> Int]
  BY <1>2 DEF Arrays
<1>4. ASSUME NEW t \in Threads, NEW k \in 1 .. Len(Frames[t])
      PROVE  Frames[t][k].seg \in SegmentsOf(All.size)
  <2>1. CASE state[t] = "created"
    <3>1. Frames[t] = <<Call(data[t], {})>> /\ t \in Thread
      BY <1>1, <2>1 DEF Frames, Types, Threads
    <3>2. Frames[t][k].seg = data[t]
      BY <3>1 DEF Call
    <3> QED
      BY <3>1, <3>2 DEF Arrays
  <2>2. CASE state[t] # "created"
    <3>1. Frames[t] = stack[t]
      BY <2>2 DEF Frames
    <3> QED
      BY <3>1 DEF Arrays, SegsIn
  <2> QED
    BY <2>1, <2>2
<1> QED
  BY <1>1, <1>3, <1>4, FramesType DEF SegsIn

(* Thread t has the calls s instead. *)
LEMMA ArraysGoOn ==
  ASSUME IInv, Arrays, NEW t \in Threads, NEW s, stack' = [stack EXCEPT ![t] = s],
         \A k \in 1 .. Len(s) : s[k].seg \in SegmentsOf(All.size),
         UNCHANGED input,
         origin' \in [DOMAIN input -> Ints], result' \in [DOMAIN input -> Ints],
         \A u \in Thread : data'[u] \in SegmentsOf(All.size)
  PROVE  Arrays'
<1>1. All' = All /\ Ints' = Ints
  BY DEF All, Ints
<1>2. ASSUME NEW w \in Threads, NEW k \in 1 .. Len(stack'[w])
      PROVE  stack'[w][k].seg \in SegmentsOf(All.size)
  <2>1. CASE w = t
    <3>1. stack'[w] = s
      BY <2>1 DEF IInv, Types
    <3> QED
      BY <3>1
  <2>2. CASE w # t
    <3>1. stack'[w] = stack[w]
      BY <2>2 DEF IInv, Types
    <3> QED
      BY <3>1 DEF Arrays, SegsIn
  <2> QED
    BY <2>1, <2>2
<1> QED
  BY <1>1, <1>2 DEF Arrays, SegsIn

(* A call that has still to join a thread that has not ended is kept.       *)
LEMMA ParentsGoOn ==
  ASSUME IInv, Parents, NEW t \in Threads, NEW s, stack' = [stack EXCEPT ![t] = s], UNCHANGED state,
         \A k \in 1 .. Len(stack[t]) :
           stack[t][k].pc \in {"right", "join"} /\ stack[t][k].thread \in Thread
             /\ state[stack[t][k].thread] # "ended" =>
             \E j \in 1 .. Len(s) : s[j].thread = stack[t][k].thread /\ s[j].pc \in {"right", "join"}
  PROVE  Parents'
<1> SUFFICES ASSUME NEW u \in Thread, state[u] \in {"created", "running"}
             PROVE  \E w \in Threads : w < u /\ \E k \in 1 .. Len(stack'[w]) :
                       stack'[w][k].thread = u /\ stack'[w][k].pc \in {"right", "join"}
  BY DEF Parents
<1>1. PICK w \in Threads : w < u /\ \E k \in 1 .. Len(stack[w]) :
         stack[w][k].thread = u /\ stack[w][k].pc \in {"right", "join"}
  BY DEF Parents
<1>2. CASE w = t
  <2>1. \E j \in 1 .. Len(s) : s[j].thread = u /\ s[j].pc \in {"right", "join"}
    BY <1>1, <1>2
  <2>2. stack'[w] = s
    BY <1>2 DEF IInv, Types
  <2> QED
    BY <1>1, <2>1, <2>2
<1>3. CASE w # t
  <2>1. stack'[w] = stack[w]
    BY <1>3 DEF IInv, Types
  <2> QED
    BY <1>1, <2>1
<1> QED
  BY <1>2, <1>3

(* The calls of all threads when t has the calls s instead. *)
LEMMA FramesGoOn ==
  ASSUME IInv, NEW t \in Threads, state[t] = "running", NEW s, stack' = [stack EXCEPT ![t] = s],
         UNCHANGED <<state, data>>
  PROVE  Frames' = [Frames EXCEPT ![t] = s]
  BY DEF Frames, IInv, Types

(* When main's calls have returned no thread is left. *)
LEMMA NoneLeft ==
  ASSUME IInv, Parents, stack[main] = <<>>
  PROVE  \A u \in Thread : state[u] \in {"new", "ended"}
<1> DEFINE Left == {u \in Thread : state[u] \in {"created", "running"}}
<1>1. ASSUME Left # {}
      PROVE  FALSE
  <2>1. Left \in SUBSET Nat
    BY SortAssumption DEF Thread
  <2>2. PICK u \in Left : \A w \in Left : u <= w
    <3> HIDE DEF Left
    <3> QED
      BY <1>1, <2>1, Least
  <2>3. PICK t \in Threads : t < u /\ \E k \in 1 .. Len(stack[t]) : stack[t][k].thread = u
    BY DEF Parents
  <2>4. stack[t] # <<>>
    BY <2>3
  <2>5. t \in Thread /\ state[t] = "running"
    BY <2>4 DEF Threads, IInv, Stacks
  <2>6. t \in Left /\ u \in Nat /\ t \in Nat
    BY <2>1, <2>5
  <2> QED
    BY <2>2, <2>3, <2>6
<1> QED
  BY <1>1 DEF IInv, Types, Threads
-----------------------------------------------------------------------------
(* Array a of n values of S holds sequences of such values. *)
Holds(a, n, S) ==
  \A s \in SegmentsOf(n) : Content(a, s) \in Seq(S) /\ Len(Content(a, s)) = s.size

(* An array of values of S does. *)
LEMMA HoldsItsValues ==
  ASSUME NEW n \in Nat, NEW S, NEW a \in [0 .. n - 1 -> S]
  PROVE  Holds(a, n, S)
  BY ContentOf DEF Holds

(* What an array holds once c has been put into segment p. *)
LEMMA PutIs ==
  ASSUME NEW n \in Nat, NEW S, NEW a \in [0 .. n - 1 -> S], NEW p \in SegmentsOf(n),
         NEW c \in Seq(S), Len(c) = p.size
  PROVE  /\ Put(a, p, c) \in [0 .. n - 1 -> S]
         /\ SameBut(n, a, Put(a, p, c), p) /\ Content(Put(a, p, c), p) = c
<1>1. p.lo \in Nat /\ p.size \in Nat /\ p.lo + p.size <= n
  BY DEF SegmentsOf
<1>2. c \in [1 .. p.size -> S] /\ c = [k \in 1 .. p.size |-> c[k]]
  OBVIOUS
<1>3. \A i \in Cells(p) : i - p.lo + 1 \in 1 .. p.size
  BY <1>1 DEF Cells
<1>4. Put(a, p, c) \in [0 .. n - 1 -> S]
  BY <1>2, <1>3 DEF Put
<1>5. SameBut(n, a, Put(a, p, c), p)
  BY DEF Put, SameBut
<1>6. ASSUME NEW k \in 1 .. p.size
      PROVE  Put(a, p, c)[p.lo + k - 1] = c[k]
  <2>1. /\ p.lo + k - 1 \in 0 .. n - 1 /\ p.lo + k - 1 \in Cells(p)
        /\ (p.lo + k - 1) - p.lo + 1 = k
    <3>1. /\ p.lo + k - 1 \in 0 .. n - 1 /\ p.lo + k - 1 \in p.lo .. p.lo + p.size - 1
          /\ (p.lo + k - 1) - p.lo + 1 = k
      BY <1>1, SMTT(30)
    <3> QED
      BY <3>1 DEF Cells
  <2>2. PICK i \in 0 .. n - 1 : i = p.lo + k - 1
    BY <2>1
  <2>3. Put(a, p, c)[i] = c[i - p.lo + 1]
    BY <2>1, <2>2 DEF Put
  <2> QED
    BY <2>1, <2>2, <2>3
<1>7. Content(Put(a, p, c), p) = c
  BY <1>2, <1>6 DEF Content
<1> QED
  BY <1>4, <1>5, <1>7

(* The innermost call of t calls mergeSort for a half of its segment.       *)
LEMMA CallKeepsSort ==
  ASSUME SortInv, NEW t \in Threads, NEW pc, At(t, pc), NEW next, NEW half, NEW shared \in SUBSET Thread,
         \/ pc = "left" /\ next = "right" /\ half = LeftHalf(top(t).seg)
         \/ pc = "right" /\ next = "join" /\ half = RightHalf(top(t).seg),
         stack' = [stack EXCEPT ![t] = <<Call(half, shared)>> \o goto(t, next)],
         UNCHANGED <<input, origin, result, data, state, sound>>
  PROVE  Arrays' /\ (sound => Sorting)'
<1> DEFINE n == All.size
           c == Call(half, shared)
           p == [top(t) EXCEPT !.pc = next]
           s == <<c>> \o (<<p>> \o Tail(stack[t]))
<1>1. IInv /\ Arrays /\ Types
  BY DEF SortInv, IInv
<1>2. /\ stack[t] \in Seq(Frame) /\ Frames[t] = stack[t] /\ stack[t] # <<>>
      /\ top(t) = stack[t][1] /\ top(t) \in Frame /\ top(t).pc = pc
      /\ half \in Segments /\ state[t] = "running"
  BY <1>1, TopCall DEF At
<1>3. c \in Frame /\ c.seg = half /\ c.pc = "left" /\ c.thread = None
  BY <1>2, CallIsFrame
<1>4. p \in Frame /\ p.seg = top(t).seg /\ p.thread = top(t).thread /\ p.pc = next
  BY <1>2 DEF Frame
<1>5. n \in Nat /\ Frames \in [Threads -> Seq(Frame)] /\ SegsIn(Frames, n)
  BY <1>1, InputIs, ArraysAre DEF Types
<1>6. p.seg \in SegmentsOf(n) /\ half \in SegmentsOf(n)
  <2>1. top(t).seg \in SegmentsOf(n)
    BY <1>1, <1>2 DEF Arrays, SegsIn
  <2> HIDE DEF n
  <2> QED
    BY <1>4, <1>5, <2>1, SegmentsOfN
<1>7. stack' = [stack EXCEPT ![t] = s]
  BY DEF goto
<1> HIDE DEF c, p
<1>8. /\ s \in Seq(Frame) /\ Len(s) = Len(stack[t]) + 1 /\ s[1] = c /\ s[2] = p
      /\ \A k \in 3 .. Len(stack[t]) + 1 : s[k] = stack[t][k - 1]
  BY <1>2, <1>3, <1>4, PushSeq
<1>9. \A k \in 1 .. Len(s) : k = 1 \/ k = 2 \/ (k \in 3 .. Len(stack[t]) + 1 /\ k - 1 \in 1 .. Len(stack[t]))
  BY <1>2, <1>8
<1>10. /\ Len(stack[t]) \in Nat
       /\ \A k \in 1 .. Len(stack[t]) : k = 1 \/ (k + 1 \in 3 .. Len(stack[t]) + 1 /\ (k + 1) - 1 = k)
       /\ \A k \in 1 .. Len(stack[t]) : k + 1 \in 1 .. Len(s)
  BY <1>2, <1>8
<1> DEFINE F == Frames
           G == [F EXCEPT ![t] = <<c>> \o (<<p>> \o Tail(F[t]))]
<1>11. Frames' = G
  <2>1. UNCHANGED <<state, data>> /\ Frames[t] = stack[t]
    BY <1>2
  <2>2. Frames' = [Frames EXCEPT ![t] = s]
    <3> HIDE DEF s, F
    <3> QED
      BY <1>1, <1>2, <1>7, <2>1, FramesGoOn
  <2> QED
    BY <2>1, <2>2
<1> HIDE DEF s
<1>12. Arrays'
  <2>1. ASSUME NEW k \in 1 .. Len(s)
        PROVE  s[k].seg \in SegmentsOf(All.size)
    <3>1. CASE k = 1 \/ k = 2
      BY <1>3, <1>6, <1>8, <3>1
    <3>2. CASE k \in 3 .. Len(stack[t]) + 1 /\ k - 1 \in 1 .. Len(stack[t])
      BY <1>1, <1>8, <3>2 DEF Arrays, SegsIn
    <3> QED
      BY <1>9, <3>1, <3>2
  <2>2. /\ origin' \in [DOMAIN input -> Ints] /\ result' \in [DOMAIN input -> Ints]
        /\ \A u \in Thread : data'[u] \in SegmentsOf(All.size)
    BY <1>1 DEF Arrays
  <2> QED
    BY <1>1, <1>7, <2>1, <2>2, ArraysGoOn
<1>13. ASSUME sound
       PROVE  Sorting'
  <2>1. Parents'
    <3>1. ASSUME NEW k \in 1 .. Len(stack[t]), stack[t][k].pc \in {"right", "join"}, stack[t][k].thread \in Thread
          PROVE  \E j \in 1 .. Len(s) : s[j].thread = stack[t][k].thread /\ s[j].pc \in {"right", "join"}
      <4>1. CASE k = 1
        <5>1. 2 \in 1 .. Len(s)
          BY <1>10, <4>1
        <5>2. s[2].thread = stack[t][k].thread /\ s[2].pc \in {"right", "join"}
          BY <1>2, <1>4, <1>8, <4>1
        <5> QED
          BY <5>1, <5>2
      <4>2. CASE k + 1 \in 3 .. Len(stack[t]) + 1 /\ (k + 1) - 1 = k
        <5>1. s[k + 1] = stack[t][k]
          BY <1>8, <4>2
        <5>2. k + 1 \in 1 .. Len(s)
          BY <1>10
        <5> QED
          BY <3>1, <5>1, <5>2
      <4> QED
        BY <1>10, <4>1, <4>2
    <3>2. \A k \in 1 .. Len(stack[t]) :
            stack[t][k].pc \in {"right", "join"} /\ stack[t][k].thread \in Thread
              /\ state[stack[t][k].thread] # "ended" =>
              \E j \in 1 .. Len(s) : s[j].thread = stack[t][k].thread /\ s[j].pc \in {"right", "join"}
      BY <3>1
    <3>3. Parents /\ UNCHANGED state
      BY <1>13 DEF SortInv, Sorting
    <3> QED
      BY <1>1, <1>7, <3>2, <3>3, ParentsGoOn
  <2>2. /\ Good(F) /\ F[t] # <<>> /\ F[t][1] = top(t)
        /\ CallsSort(input, Ordered, F, origin, result) /\ MainSorts(Ordered, F, result, All)
    BY <1>1, <1>2, <1>13 DEF SortInv, Sorting, IInv
  <2>3. /\ F \in [Threads -> Seq(Frame)] /\ SegsIn(F, n)
        /\ p.seg = F[t][1].seg /\ p.thread = F[t][1].thread
    BY <1>4, <1>5, <2>2
  <2>4. \/ F[t][1].pc = "left" /\ p.pc = "right" /\ c.seg = LeftHalf(p.seg)
        \/ F[t][1].pc = "right" /\ p.pc = "join" /\ c.seg = RightHalf(p.seg)
    BY <1>2, <1>3, <1>4, <2>2
  <2>5. PICK H : H = G
    OBVIOUS
  <2> HIDE DEF n, F
  <2>6. CallsSort(input, Ordered, H, origin, result) /\ MainSorts(Ordered, H, result, All)
    BY <1>3, <1>4, <1>5, <2>2, <2>3, <2>4, <2>5, PushSorts, ZenonT(40)
  <2>7. Ordered' = Ordered /\ All' = All /\ Frames' = H
    BY <1>11, <2>5 DEF Ordered, All
  <2> QED
    BY <2>1, <2>6, <2>7 DEF Sorting
<1> QED
  BY <1>12, <1>13
(* As long as a thread has a call main has one. *)
LEMMA MainHasCalls ==
  ASSUME IInv, Parents, NEW t \in Threads, state[t] = "running", stack[t] # <<>>
  PROVE  Frames[main] # <<>>
<1>1. stack[main] # <<>>
  <2> SUFFICES ASSUME stack[main] = <<>> PROVE FALSE
    OBVIOUS
  <2>1. t \in Thread
    BY DEF Threads
  <2> QED
    BY <2>1, NoneLeft
<1>2. Frames[main] = stack[main]
  BY DEF Frames, IInv, Types, Threads
<1> QED
  BY <1>1, <1>2

(* The innermost call of t goes on, and copies at most its segment back.    *)
LEMMA GotoKeepsSort ==
  ASSUME SortInv, NEW t \in Threads, NEW pc, At(t, pc), NEW next,
         \/ pc = "join" /\ next = "memcpy" /\ (top(t).thread # None => state[top(t).thread] = "ended")
         \/ pc = "memcpy" /\ next = "merge" /\ AsRead(result, origin', top(t).seg),
         stack' = [stack EXCEPT ![t] = goto(t, next)],
         UNCHANGED <<input, result, data, state, sound>>,
         origin' \in [DOMAIN input -> Ints], SameBut(All.size, origin, origin', top(t).seg)
  PROVE  Arrays' /\ (sound => Sorting)'
<1> DEFINE n == All.size
           p == [top(t) EXCEPT !.pc = next]
           s == <<p>> \o Tail(stack[t])
<1>1. IInv /\ Arrays /\ Types
  BY DEF SortInv, IInv
<1>2. /\ stack[t] \in Seq(Frame) /\ Frames[t] = stack[t] /\ stack[t] # <<>>
      /\ top(t) = stack[t][1] /\ top(t) \in Frame /\ top(t).pc = pc /\ state[t] = "running"
  BY <1>1, TopCall DEF At
<1>3. p \in Frame /\ p.seg = top(t).seg /\ p.thread = top(t).thread /\ p.pc = next
  BY <1>2 DEF Frame
<1>4. n \in Nat /\ Frames \in [Threads -> Seq(Frame)] /\ SegsIn(Frames, n) /\ ~Lends(Frames, t, 1)
  <2>1. \/ pc \notin {"right", "join"}
        \/ top(t).thread # None => state[top(t).thread] = "ended"
    OBVIOUS
  <2> QED
    BY <1>1, <2>1, InputIs, ArraysAre, LendsNothing DEF Types
<1>5. PICK q \in SegmentsOf(n) : q = top(t).seg
  BY <1>1, <1>2 DEF Arrays, SegsIn
<1>6. stack' = [stack EXCEPT ![t] = s]
  BY DEF goto
<1> HIDE DEF p
<1>7. /\ s \in Seq(Frame) /\ Len(s) = Len(stack[t]) /\ s[1] = p
      /\ \A k \in 2 .. Len(stack[t]) : s[k] = stack[t][k]
  BY <1>2, <1>3, RetopSeq
<1>8. \A k \in 1 .. Len(stack[t]) : k = 1 \/ k \in 2 .. Len(stack[t])
  BY <1>2
<1> DEFINE F == Frames
           G == [F EXCEPT ![t] = <<p>> \o Tail(F[t])]
<1>9. Frames' = G
  <2>1. UNCHANGED <<state, data>> /\ Frames[t] = stack[t]
    BY <1>2
  <2>2. Frames' = [Frames EXCEPT ![t] = s]
    <3> HIDE DEF s, F
    <3> QED
      BY <1>1, <1>2, <1>6, <2>1, FramesGoOn
  <2> QED
    BY <2>1, <2>2
<1> HIDE DEF s
<1>10. Arrays'
  <2>1. ASSUME NEW k \in 1 .. Len(s)
        PROVE  s[k].seg \in SegmentsOf(All.size)
    <3>1. CASE k = 1
      BY <1>3, <1>5, <1>7, <3>1
    <3>2. CASE k \in 2 .. Len(stack[t])
      BY <1>1, <1>7, <3>2 DEF Arrays, SegsIn
    <3> QED
      BY <1>7, <1>8, <3>1, <3>2
  <2>2. result' \in [DOMAIN input -> Ints] /\ \A u \in Thread : data'[u] \in SegmentsOf(All.size)
    BY <1>1 DEF Arrays
  <2> QED
    BY <1>1, <1>6, <2>1, <2>2, ArraysGoOn
<1>11. ASSUME sound
       PROVE  Sorting'
  <2>0. Parents
    BY <1>11 DEF SortInv, Sorting
  <2>1. Parents'
    <3>1. ASSUME NEW k \in 1 .. Len(stack[t]), stack[t][k].pc \in {"right", "join"},
                 stack[t][k].thread \in Thread, state[stack[t][k].thread] # "ended"
          PROVE  \E j \in 1 .. Len(s) : s[j].thread = stack[t][k].thread /\ s[j].pc \in {"right", "join"}
      <4>1. CASE k = 1
        <5>1. top(t).thread # None
          BY <1>2, <3>1, <4>1, SortAssumption DEF None, Thread
        <5> QED
          BY <1>2, <3>1, <4>1, <5>1
      <4>2. CASE k \in 2 .. Len(stack[t])
        BY <1>7, <3>1, <4>2
      <4> QED
        BY <1>8, <4>1, <4>2
    <3>2. \A k \in 1 .. Len(stack[t]) :
            stack[t][k].pc \in {"right", "join"} /\ stack[t][k].thread \in Thread
              /\ state[stack[t][k].thread] # "ended" =>
              \E j \in 1 .. Len(s) : s[j].thread = stack[t][k].thread /\ s[j].pc \in {"right", "join"}
      BY <3>1
    <3>3. UNCHANGED state
      OBVIOUS
    <3> QED
      BY <1>1, <1>6, <2>0, <3>2, <3>3, ParentsGoOn
  <2>2. /\ Good(F) /\ F[t] # <<>> /\ F[t][1] = top(t) /\ F[main] # <<>>
        /\ CallsSort(input, Ordered, F, origin, result) /\ MainSorts(Ordered, F, result, All)
    BY <1>1, <1>2, <1>11, <2>0, MainHasCalls DEF SortInv, Sorting, IInv
  <2>3. /\ F \in [Threads -> Seq(Frame)] /\ SegsIn(F, n) /\ ~Lends(F, t, 1)
        /\ p.seg = F[t][1].seg
    BY <1>3, <1>4, <2>2
  <2>4. PICK o2 : o2 = origin'
    OBVIOUS
  <2>5. SameBut(n, origin, o2, F[t][1].seg)
    BY <2>2, <2>4
  <2>6. PICK H : H = G
    OBVIOUS
  <2>7. H[t] = <<p>> \o Tail(F[t]) /\ \A w \in Threads \ {t} : H[w] = F[w]
    BY <2>3, <2>6
  <2>8. CallSorts(input, Ordered, F, origin, result, t, 1)
    <3>1. 1 \in 1 .. Len(F[t])
      BY <1>2
    <3> QED
      BY <2>2, <3>1 DEF CallsSort
  <2>9. CallSorts(input, Ordered, H, o2, result, t, 1)
    <3>1. H[t][1].pc = next /\ H[t][1].seg = q
      BY <1>2, <1>3, <1>5, <2>7
    <3>2. CASE pc = "join" /\ next = "memcpy"
      <4>1. SortedIn(Ordered, result, LeftHalf(q)) /\ SortedIn(Ordered, result, RightHalf(q))
        BY <1>2, <1>5, <2>2, <2>3, <2>8, <3>2 DEF CallSorts
      <4> QED
        BY <3>1, <3>2, <4>1 DEF CallSorts
    <3>3. CASE pc = "memcpy" /\ next = "merge" /\ AsRead(result, origin', top(t).seg)
      <4>1. SortedIn(Ordered, result, LeftHalf(q)) /\ SortedIn(Ordered, result, RightHalf(q))
        BY <1>2, <1>5, <2>2, <2>8, <3>3 DEF CallSorts
      <4>2. AsRead(result, o2, q)
        BY <1>5, <2>4, <3>3
      <4>3. AsRead(result, o2, LeftHalf(q)) /\ AsRead(result, o2, RightHalf(q))
        <5> HIDE DEF n
        <5> QED
          BY <1>4, <4>2, HalvesAsRead
      <4>4. SortedIn(Ordered, o2, LeftHalf(q)) /\ SortedIn(Ordered, o2, RightHalf(q))
        BY <4>1, <4>3 DEF AsRead, SortedIn
      <4> QED
        BY <3>1, <3>3, <4>4 DEF CallSorts
    <3> QED
      BY <3>2, <3>3
  <2>10. \A w \in Threads \ {t} : \A k \in 1 .. Len(H[w]) :
           F[w] = <<>> => CallSorts(input, Ordered, H, o2, result, w, k)
    BY <2>7
  <2>11. \A w \in Threads \ {t} : F[w] # <<>> => H[w] = F[w]
    BY <2>7
  <2> HIDE DEF n, F
  <2>12. CallsSort(input, Ordered, H, o2, result) /\ MainSorts(Ordered, H, result, All)
    BY <1>3, <1>4, <2>2, <2>3, <2>5, <2>7, <2>9, <2>10, <2>11, GotoSorts, ZenonT(40)
  <2>13. Ordered' = Ordered /\ All' = All /\ Frames' = H
    BY <1>9, <2>6 DEF Ordered, All
  <2> QED
    BY <2>1, <2>4, <2>12, <2>13 DEF Sorting
<1> QED
  BY <1>10, <1>11

(* The innermost call of t returns, and leaves its segment in order.        *)
LEMMA ReturnKeepsSort ==
  ASSUME SortInv, NEW t \in Threads, NEW pc \in {"left", "merge"}, At(t, pc),
         stack' = [stack EXCEPT ![t] = Tail(stack[t])],
         UNCHANGED <<input, origin, data, state, sound>>,
         result' \in [DOMAIN input -> Ints], SameBut(All.size, result, result', top(t).seg),
         sound => SortedIn(Ordered, result', top(t).seg)
  PROVE  Arrays' /\ (sound => Sorting)'
<1> DEFINE n == All.size
           s == Tail(stack[t])
<1>1. IInv /\ Arrays /\ Types
  BY DEF SortInv, IInv
<1>2. /\ stack[t] \in Seq(Frame) /\ Frames[t] = stack[t] /\ stack[t] # <<>>
      /\ top(t) = stack[t][1] /\ top(t) \in Frame /\ top(t).pc = pc /\ state[t] = "running"
  BY <1>1, TopCall DEF At
<1>3. n \in Nat /\ Frames \in [Threads -> Seq(Frame)] /\ SegsIn(Frames, n) /\ ~Lends(Frames, t, 1)
  BY <1>1, InputIs, ArraysAre, LendsNothing DEF Types
<1>4. Len(s) = Len(stack[t]) - 1 /\ \A k \in 1 .. Len(stack[t]) - 1 : s[k] = stack[t][k + 1]
  BY <1>2, PopSeq
<1>5. /\ \A k \in 1 .. Len(s) : k + 1 \in 1 .. Len(stack[t]) /\ k \in 1 .. Len(stack[t]) - 1
      /\ \A k \in 1 .. Len(stack[t]) : k = 1 \/ (k - 1 \in 1 .. Len(s) /\ s[k - 1] = stack[t][k])
  <2>1. Len(stack[t]) \in Nat
    BY <1>2
  <2>2. ASSUME NEW k \in 1 .. Len(stack[t]), k # 1
        PROVE  k - 1 \in 1 .. Len(s) /\ s[k - 1] = stack[t][k]
    <3>1. k - 1 \in 1 .. Len(stack[t]) - 1 /\ (k - 1) + 1 = k
      BY <2>1, <2>2
    <3> QED
      BY <1>4, <3>1
  <2> QED
    BY <1>4, <2>1, <2>2
<1> DEFINE F == Frames
           G == [F EXCEPT ![t] = Tail(F[t])]
<1>6. Frames' = G
  <2>1. UNCHANGED <<state, data>> /\ Frames[t] = stack[t]
    BY <1>2
  <2>2. Frames' = [Frames EXCEPT ![t] = s]
    <3> HIDE DEF F
    <3> QED
      BY <1>1, <1>2, <2>1, FramesGoOn
  <2> QED
    BY <2>1, <2>2
<1>7. stack' = [stack EXCEPT ![t] = s]
  OBVIOUS
<1> HIDE DEF s
<1>8. Arrays'
  <2>1. ASSUME NEW k \in 1 .. Len(s)
        PROVE  s[k].seg \in SegmentsOf(All.size)
    BY <1>1, <1>4, <1>5 DEF Arrays, SegsIn
  <2>2. origin' \in [DOMAIN input -> Ints] /\ \A u \in Thread : data'[u] \in SegmentsOf(All.size)
    BY <1>1 DEF Arrays
  <2> QED
    BY <1>1, <1>7, <2>1, <2>2, ArraysGoOn
<1>9. ASSUME sound
      PROVE  Sorting'
  <2>0. Parents
    BY <1>9 DEF SortInv, Sorting
  <2>1. Parents'
    <3>1. ASSUME NEW k \in 1 .. Len(stack[t]), stack[t][k].pc \in {"right", "join"}
          PROVE  \E j \in 1 .. Len(s) : s[j].thread = stack[t][k].thread /\ s[j].pc \in {"right", "join"}
      <4>1. k # 1
        BY <1>2, <3>1
      <4> QED
        BY <1>5, <3>1, <4>1
    <3>2. \A k \in 1 .. Len(stack[t]) :
            stack[t][k].pc \in {"right", "join"} /\ stack[t][k].thread \in Thread
              /\ state[stack[t][k].thread] # "ended" =>
              \E j \in 1 .. Len(s) : s[j].thread = stack[t][k].thread /\ s[j].pc \in {"right", "join"}
      BY <3>1
    <3>3. UNCHANGED state
      OBVIOUS
    <3> QED
      BY <1>1, <1>7, <2>0, <3>2, <3>3, ParentsGoOn
  <2>2. /\ Good(F) /\ F[t] # <<>> /\ F[t][1] = top(t) /\ F[main] # <<>>
        /\ CallsSort(input, Ordered, F, origin, result) /\ MainSorts(Ordered, F, result, All)
    BY <1>1, <1>2, <1>9, <2>0, MainHasCalls DEF SortInv, Sorting, IInv
  <2>3. F \in [Threads -> Seq(Frame)] /\ SegsIn(F, n) /\ ~Lends(F, t, 1)
    BY <1>3
  <2>4. PICK r2 : r2 = result'
    OBVIOUS
  <2>5. SameBut(n, result, r2, F[t][1].seg) /\ SortedIn(Ordered, r2, F[t][1].seg)
    BY <1>9, <2>2, <2>4
  <2>6. PICK H : H = G
    OBVIOUS
  <2> HIDE DEF n, F
  <2>7. CallsSort(input, Ordered, H, origin, r2) /\ MainSorts(Ordered, H, r2, All)
    BY <1>3, <2>2, <2>3, <2>5, <2>6, ReturnSorts, ZenonT(40)
  <2>8. Ordered' = Ordered /\ All' = All /\ Frames' = H
    BY <1>6, <2>6 DEF Ordered, All
  <2> QED
    BY <2>1, <2>4, <2>7, <2>8 DEF Sorting
<1> QED
  BY <1>8, <1>9
-----------------------------------------------------------------------------
(* No int, or one: result holds it as it was read. *)
LEMMA ReturnSmallSorts ==
  ASSUME SortInv, NEW t \in Threads, ReturnSmall(t)
  PROVE  Arrays' /\ (sound => Sorting)'
<1> DEFINE n == All.size
<1>1. IInv /\ Arrays /\ input \in Input
  BY DEF SortInv, IInv, Types
<1>2. At(t, "left") /\ top(t).seg.size <= 1
  BY DEF ReturnSmall
<1>3. /\ stack[t] \in Seq(Frame) /\ stack[t] # <<>> /\ top(t) = stack[t][1] /\ Frames[t] = stack[t]
      /\ top(t).pc = "left"
  BY <1>1, <1>2, TopCall DEF IInv
<1>4. PICK s \in SegmentsOf(n) : s = top(t).seg
  BY <1>1, <1>3 DEF Arrays, SegsIn
<1>5. /\ n \in Nat /\ DOMAIN input = 0 .. n - 1 /\ Ints \in SUBSET Int
      /\ input \in [0 .. n - 1 -> Int] /\ origin \in [0 .. n - 1 -> Int] /\ result \in [0 .. n - 1 -> Int]
  BY <1>1, InputIs, ArraysAre
<1>6. s.lo \in Nat /\ s.size \in Nat /\ s.size \in {0, 1} /\ s.lo + s.size <= n
  BY <1>2, <1>4 DEF SegmentsOf
<1> HIDE DEF n
<1>7. result' = IF s.size = 1 THEN [result EXCEPT ![s.lo] = origin[s.lo]] ELSE result
  BY <1>4 DEF ReturnSmall
<1>8. s.size = 1 => s.lo \in 0 .. n - 1 /\ s.lo \in DOMAIN input
  BY <1>5, <1>6
<1>9. result' \in [DOMAIN input -> Ints]
  BY <1>1, <1>7, <1>8 DEF Arrays
<1>10. SameBut(n, result, result', s)
  <2>1. s.size = 1 => s.lo \in Cells(s)
    BY <1>6 DEF Cells
  <2> QED
    BY <1>5, <1>7, <1>8, <2>1 DEF SameBut
<1>11. ASSUME sound
       PROVE  SortedIn(Ordered, result', s)
  <2>1. CallsSort(input, Ordered, Frames, origin, result)
    BY <1>11 DEF SortInv, Sorting
  <2>2. CallSorts(input, Ordered, Frames, origin, result, t, 1)
    <3>1. 1 \in 1 .. Len(Frames[t])
      BY <1>3
    <3> QED
      BY <2>1, <3>1 DEF CallsSort
  <2>3. AsRead(input, origin, s)
    BY <1>3, <1>4, <2>2 DEF CallSorts
  <2>4. PICK r2 \in [0 .. n - 1 -> Int] : r2 = result'
    BY <1>5, <1>9
  <2>5. /\ Content(origin, s) = IF s.size = 0 THEN <<>> ELSE <<origin[s.lo]>>
        /\ Content(input, s) = IF s.size = 0 THEN <<>> ELSE <<input[s.lo]>>
        /\ Content(r2, s) = IF s.size = 0 THEN <<>> ELSE <<r2[s.lo]>>
    BY <1>5, <1>6, SmallContent
  <2>6. Ordered[s] = Content(input, s)
    <3>1. mergeSort(input, n)[s] = SortBody(input, mergeSort(input, n), s)
      BY <1>5, SortUnfolds
    <3> QED
      BY <1>6, <2>5, <3>1 DEF SortBody, Ordered, n
  <2>7. s.size = 1 => r2[s.lo] = origin[s.lo]
    BY <1>5, <1>7, <1>8, <2>4
  <2>8. Content(r2, s) = Content(origin, s)
    BY <1>6, <2>5, <2>7
  <2> QED
    BY <2>3, <2>4, <2>6, <2>8 DEF AsRead, SortedIn
<1>12. /\ stack' = [stack EXCEPT ![t] = Tail(stack[t])]
       /\ UNCHANGED <<input, origin, data, state, sound>>
  BY DEF ReturnSmall
<1>13. /\ SameBut(All.size, result, result', top(t).seg)
       /\ sound => SortedIn(Ordered, result', top(t).seg)
  BY <1>4, <1>10, <1>11 DEF n
<1>14. "left" \in {"left", "merge"}
  OBVIOUS
<1> QED
  BY <1>2, <1>9, <1>12, <1>13, <1>14, ReturnKeepsSort

(* The segment of result is copied back to origin. *)
LEMMA MemcpySorts ==
  ASSUME SortInv, NEW t \in Threads, Memcpy(t)
  PROVE  Arrays' /\ (sound => Sorting)'
<1> DEFINE n == All.size
<1>1. IInv /\ Arrays /\ input \in Input /\ At(t, "memcpy")
  BY DEF SortInv, IInv, Types, Memcpy
<1>2. stack[t] \in Seq(Frame) /\ stack[t] # <<>> /\ top(t) = stack[t][1]
  BY <1>1, TopCall DEF IInv
<1>3. PICK s \in SegmentsOf(n) : s = top(t).seg
  BY <1>1, <1>2 DEF Arrays, SegsIn
<1>4. n \in Nat /\ DOMAIN input = 0 .. n - 1
  BY <1>1, InputIs
<1>5. origin \in [0 .. n - 1 -> Ints] /\ result \in [0 .. n - 1 -> Ints]
  BY <1>1, <1>4 DEF Arrays
<1> HIDE DEF n
<1>6. PICK S : S = Ints
  OBVIOUS
<1>7. PICK c \in Seq(S) : c = Content(result, s) /\ Len(c) = s.size
  <2>1. result \in [0 .. n - 1 -> S]
    BY <1>5, <1>6
  <2>2. Holds(result, n, S)
    BY <1>4, <2>1, HoldsItsValues
  <2> QED
    BY <2>2 DEF Holds
<1>8. PICK o2 : o2 = Put(origin, s, c)
  OBVIOUS
<1>9. o2 \in [0 .. n - 1 -> S] /\ SameBut(n, origin, o2, s) /\ Content(o2, s) = c
  <2>1. origin \in [0 .. n - 1 -> S]
    BY <1>5, <1>6
  <2> QED
    BY <1>4, <1>7, <1>8, <2>1, PutIs
<1>10. origin' = o2
  BY <1>3, <1>7, <1>8 DEF Memcpy
<1>11. origin' \in [DOMAIN input -> Ints]
  BY <1>4, <1>6, <1>9, <1>10
<1>12. SameBut(All.size, origin, origin', top(t).seg) /\ AsRead(result, origin', top(t).seg)
  BY <1>3, <1>7, <1>9, <1>10 DEF AsRead, n
<1>13. /\ stack' = [stack EXCEPT ![t] = goto(t, "merge")]
       /\ UNCHANGED <<input, result, data, state, sound>>
  BY DEF Memcpy
<1> QED
  BY <1>1, <1>11, <1>12, <1>13, GotoKeepsSort

(* The halves are merged into result. *)
LEMMA MergeSorts ==
  ASSUME SortInv, NEW t \in Threads, Merge(t)
  PROVE  Arrays' /\ (sound => Sorting)'
<1> DEFINE n == All.size
<1>1. IInv /\ Arrays /\ Types /\ input \in Input /\ At(t, "merge")
  BY DEF SortInv, IInv, Types, Merge
<1>2. /\ stack[t] \in Seq(Frame) /\ stack[t] # <<>> /\ top(t) = stack[t][1] /\ Frames[t] = stack[t]
      /\ top(t).pc = "merge"
  BY <1>1, TopCall
<1>3. PICK s \in SegmentsOf(n) : s = top(t).seg
  BY <1>1, <1>2 DEF Arrays, SegsIn
<1>4. n \in Nat /\ DOMAIN input = 0 .. n - 1 /\ Ints \in SUBSET Int
  BY <1>1, InputIs
<1>5. origin \in [0 .. n - 1 -> Ints] /\ result \in [0 .. n - 1 -> Ints]
  BY <1>1, <1>4 DEF Arrays
<1> HIDE DEF n
<1>6. PICK S : S = Ints
  OBVIOUS
<1>7. PICK L \in SegmentsOf(n), R \in SegmentsOf(n) : L = LeftHalf(s) /\ R = RightHalf(s)
  BY <1>4, HalvesOf
<1>8. L.size + R.size = s.size
  <2>1. R.size = s.size - L.size /\ L.size \in 0 .. s.size /\ s.size \in 0 .. n
    BY <1>4, <1>7, HalvesOf
  <2> QED
    BY <1>4, <2>1
<1>9. PICK l \in Seq(S), r \in Seq(S) :
        l = Content(origin, L) /\ r = Content(origin, R) /\ Len(l) = L.size /\ Len(r) = R.size
  <2>1. origin \in [0 .. n - 1 -> S]
    BY <1>5, <1>6
  <2>2. Holds(origin, n, S)
    BY <1>4, <2>1, HoldsItsValues
  <2> QED
    BY <2>2 DEF Holds
<1>10. PICK c \in Seq(S) : c = merge(l, r) /\ Len(c) = s.size
  <2>1. merge(l, r) \in Seq(S) /\ Len(merge(l, r)) = Len(l) + Len(r)
    BY <1>4, <1>6, MergeRange
  <2> QED
    BY <1>8, <1>9, <2>1
<1>11. PICK r2 : r2 = Put(result, s, c)
  OBVIOUS
<1>12. r2 \in [0 .. n - 1 -> S] /\ SameBut(n, result, r2, s) /\ Content(r2, s) = c
  <2>1. result \in [0 .. n - 1 -> S]
    BY <1>5, <1>6
  <2> QED
    BY <1>4, <1>10, <1>11, <2>1, PutIs
<1>13. result' = r2
  BY <1>3, <1>7, <1>9, <1>10, <1>11 DEF Merge
<1>14. result' \in [DOMAIN input -> Ints]
  BY <1>4, <1>6, <1>12, <1>13
<1>15. ASSUME sound
       PROVE  SortedIn(Ordered, result', s)
  <2>1. CallsSort(input, Ordered, Frames, origin, result) /\ Good(Frames)
    BY <1>15 DEF SortInv, Sorting, IInv
  <2>2. 1 \in 1 .. Len(Frames[t])
    BY <1>2
  <2>3. CallSorts(input, Ordered, Frames, origin, result, t, 1)
    BY <2>1, <2>2 DEF CallsSort
  <2>4. SortedIn(Ordered, origin, L) /\ SortedIn(Ordered, origin, R)
    BY <1>2, <1>3, <1>7, <2>3 DEF CallSorts
  <2>5. s.size # 0 /\ s.size # 1
    <3>1. s.size \in Nat /\ SizedCall(Frames, t, 1)
      BY <2>1, <2>2, CallAt DEF SegmentsOf
    <3>2. s.size >= 2
      BY <1>2, <1>3, <3>1 DEF SizedCall
    <3> QED
      BY <3>1, <3>2
  <2>6. mergeSort(input, n)[s] = SortBody(input, mergeSort(input, n), s)
    BY <1>4, SortUnfolds
  <2>7. Ordered[s] = merge(Ordered[L], Ordered[R])
    BY <1>7, <2>5, <2>6 DEF SortBody, Ordered, n
  <2> QED
    BY <1>9, <1>10, <1>12, <1>13, <2>4, <2>7 DEF SortedIn
<1>16. /\ stack' = [stack EXCEPT ![t] = Tail(stack[t])]
       /\ UNCHANGED <<input, origin, data, state, sound>>
  BY DEF Merge
<1>17. /\ SameBut(All.size, result, result', top(t).seg)
       /\ sound => SortedIn(Ordered, result', top(t).seg)
  BY <1>3, <1>12, <1>13, <1>15 DEF n
<1>18. "merge" \in {"left", "merge"}
  OBVIOUS
<1> QED
  BY <1>1, <1>14, <1>16, <1>17, <1>18, ReturnKeepsSort
(* A new thread is given the left half. *)
LEMMA StartSorts ==
  ASSUME SortInv, NEW t \in Threads, StartThread(t)
  PROVE  Arrays' /\ (sound => Sorting)'
<1> DEFINE n == All.size
           seg == top(t).seg
           shared == top(t).shared
<1>1. PICK u \in Thread :
       /\ \A w \in Thread : state[w] = "new" <=> w >= u
       /\ state' = [state EXCEPT ![u] = "created"]
       /\ data' = [w \in Thread |-> IF w \in shared \cup {u} THEN LeftHalf(seg) ELSE data[w]]
       /\ stack' = [stack EXCEPT ![t] =
                      <<[Head(goto(t, "right")) EXCEPT !.thread = u, !.shared = shared \cup {u}]>> \o Tail(@)]
       /\ sound' = (sound /\ \A w \in shared : state[w] # "created")
  BY DEF StartThread
<1>2. /\ At(t, "left") /\ seg.size > 1 /\ UNCHANGED <<input, origin, result>>
      /\ IInv /\ Arrays /\ Types
  BY DEF StartThread, SortInv, IInv
<1>3. /\ stack[t] \in Seq(Frame) /\ Frames[t] = stack[t] /\ stack[t] # <<>>
      /\ top(t) = stack[t][1] /\ top(t) \in Frame /\ top(t).pc = "left"
      /\ seg \in Segments /\ LeftHalf(seg) \in Segments /\ shared \in SUBSET Thread
  BY <1>2, TopCall
<1>4. n \in Nat /\ Frames \in [Threads -> Seq(Frame)] /\ SegsIn(Frames, n) /\ ~Lends(Frames, t, 1)
  BY <1>2, InputIs, ArraysAre, LendsNothing DEF Types
<1>5. PICK q \in SegmentsOf(n) : q = seg
  BY <1>2, <1>3 DEF Arrays, SegsIn
<1> DEFINE r == [top(t) EXCEPT !.pc = "right"]
           p == [r EXCEPT !.thread = u, !.shared = shared \cup {u}]
           s == <<p>> \o Tail(stack[t])
           c == Call(LeftHalf(seg), {})
<1>6. p \in Frame /\ p.seg = seg /\ p.thread = u /\ p.pc = "right"
  BY <1>3 DEF Frame
<1>7. c.seg = LeftHalf(seg) /\ c.pc = "left"
  BY <1>3, CallIsFrame
<1>8. /\ u \in Threads /\ u # t /\ t < u /\ state[u] = "new" /\ stack[u] = <<>> /\ Frames[u] = <<>>
      /\ state[t] = "running"
  <2>1. u \in Threads /\ u >= u /\ 0 < u /\ u \in Nat
    BY SortAssumption DEF Threads, Thread
  <2>2. state[u] = "new" /\ state[t] = "running"
    BY <1>1, <1>2, <2>1 DEF At
  <2>3. stack[u] = <<>> /\ Frames[u] = <<>>
    BY <1>2, <2>1, <2>2 DEF IInv, Stacks, Frames
  <2>4. t < u
    <3>1. CASE t \in Thread
      <4>1. ~(t >= u) /\ t \in Nat
        BY <1>1, <2>2, <3>1, SortAssumption DEF Thread
      <4> QED
        BY <2>1, <4>1
    <3>2. CASE t \notin Thread
      BY <2>1, <3>2 DEF Threads, main
    <3> QED
      BY <3>1, <3>2
  <2>5. u # t
    BY <2>2
  <2> QED
    BY <2>1, <2>2, <2>3, <2>4, <2>5
<1>9. stack' = [stack EXCEPT ![t] = s]
  <2>1. Head(goto(t, "right")) = r
    BY <1>3 DEF goto
  <2> QED
    BY <1>1, <2>1
<1> HIDE DEF p, c
<1>10. /\ s \in Seq(Frame) /\ Len(s) = Len(stack[t]) /\ s[1] = p
       /\ \A k \in 2 .. Len(stack[t]) : s[k] = stack[t][k]
  BY <1>3, <1>6, RetopSeq
<1>11. Len(stack[t]) \in Nat /\ 1 \in 1 .. Len(s) /\ \A k \in 1 .. Len(stack[t]) : k = 1 \/ k \in 2 .. Len(stack[t])
  BY <1>3, <1>10
<1> HIDE DEF s
<1>12. Arrays'
  <2>1. ASSUME NEW k \in 1 .. Len(s)
        PROVE  s[k].seg \in SegmentsOf(All.size)
    <3>1. CASE k = 1
      BY <1>5, <1>6, <1>10, <3>1
    <3>2. CASE k \in 2 .. Len(stack[t])
      BY <1>2, <1>10, <3>2 DEF Arrays, SegsIn
    <3> QED
      BY <1>10, <1>11, <3>1, <3>2
  <2>2. origin' \in [DOMAIN input -> Ints] /\ result' \in [DOMAIN input -> Ints]
    BY <1>2 DEF Arrays
  <2>3. ASSUME NEW w \in Thread
        PROVE  data'[w] \in SegmentsOf(All.size)
    <3>1. LeftHalf(seg) \in SegmentsOf(n)
      <4> HIDE DEF n, seg
      <4> QED
        BY <1>4, <1>5, HalvesOf
    <3> QED
      BY <1>1, <1>2, <3>1 DEF Arrays
  <2> QED
    BY <1>2, <1>9, <2>1, <2>2, <2>3, ArraysGoOn
<1>13. ASSUME sound'
       PROVE  Sorting'
  <2>0. sound /\ Sorting /\ Parents /\ \A w \in shared : state[w] # "created"
    BY <1>1, <1>13 DEF SortInv, Sorting
  <2>1. Parents'
    <3> SUFFICES ASSUME NEW v \in Thread, state'[v] \in {"created", "running"}
                 PROVE  \E w \in Threads : w < v /\ \E k \in 1 .. Len(stack'[w]) :
                           stack'[w][k].thread = v /\ stack'[w][k].pc \in {"right", "join"}
      BY DEF Parents
    <3>1. CASE v = u
      <4>1. stack'[t] = s
        BY <1>2, <1>9 DEF Types
      <4> QED
        BY <1>6, <1>8, <1>10, <1>11, <3>1, <4>1
    <3>2. CASE v # u
      <4>1. state[v] \in {"created", "running"}
        BY <1>1, <1>2, <3>2 DEF Types, Threads
      <4>2. PICK w \in Threads : w < v /\ \E k \in 1 .. Len(stack[w]) :
               stack[w][k].thread = v /\ stack[w][k].pc \in {"right", "join"}
        BY <2>0, <4>1 DEF Parents
      <4>3. PICK k \in 1 .. Len(stack[w]) : stack[w][k].thread = v /\ stack[w][k].pc \in {"right", "join"}
        BY <4>2
      <4>4. k \in 1 .. Len(stack'[w]) /\ stack'[w][k] = stack[w][k]
        <5>1. CASE w = t
          <6>1. k # 1
            BY <1>3, <4>3, <5>1
          <6>2. k \in 2 .. Len(stack[t])
            BY <1>11, <5>1, <6>1
          <6>3. stack'[w] = s
            BY <1>2, <1>9, <5>1 DEF Types
          <6> QED
            BY <1>10, <5>1, <6>2, <6>3
        <5>2. CASE w # t
          BY <1>2, <1>9, <5>2 DEF Types
        <5> QED
          BY <5>1, <5>2
      <4> QED
        BY <4>2, <4>3, <4>4
    <3> QED
      BY <3>1, <3>2
  <2> DEFINE F == Frames
  <2>2. /\ Good(F) /\ F[t] # <<>> /\ F[t][1] = top(t) /\ F[main] # <<>>
        /\ CallsSort(input, Ordered, F, origin, result) /\ MainSorts(Ordered, F, result, All)
    BY <1>2, <1>3, <1>8, <2>0, MainHasCalls DEF Sorting, IInv
  <2>3. F \in [Threads -> Seq(Frame)] /\ SegsIn(F, n) /\ ~Lends(F, t, 1) /\ p.seg = F[t][1].seg
    BY <1>4, <1>6, <2>2
  <2>4. PICK H : H = Frames'
    OBVIOUS
  <2>5. \A w \in Threads : H[w] = IF state'[w] = "created" THEN <<Call(data'[w], {})>> ELSE stack'[w]
    BY <2>4 DEF Frames
  <2>6. H[t] = <<p>> \o Tail(F[t])
    <3>1. state'[t] = "running" /\ stack'[t] = s
      BY <1>1, <1>2, <1>8, <1>9 DEF Types
    <3> QED
      BY <1>3, <2>5, <3>1 DEF s
  <2>7. H[u] = <<c>>
    <3>1. state'[u] = "created" /\ data'[u] = LeftHalf(seg)
      BY <1>1, <1>2, <1>8 DEF Types
    <3> QED
      BY <1>8, <2>5, <3>1 DEF c
  <2>8. ASSUME NEW w \in Threads \ {t}, w # u
        PROVE  H[w] = F[w]
    <3>1. state'[w] = state[w] /\ stack'[w] = stack[w]
      BY <1>1, <1>2, <1>9, <2>8 DEF Types
    <3>2. CASE state[w] = "created"
      <4>1. w \in Thread /\ w \notin shared
        BY <1>2, <2>0, <3>2 DEF Types, Threads
      <4>2. data'[w] = data[w]
        BY <1>1, <2>8, <4>1
      <4> QED
        BY <2>5, <3>1, <3>2, <4>2 DEF Frames
    <3>3. CASE state[w] # "created"
      BY <2>5, <3>1, <3>3 DEF Frames
    <3> QED
      BY <3>2, <3>3
  <2>9. AsRead(input, origin, q)
    <3>1. 1 \in 1 .. Len(F[t])
      BY <1>3
    <3>2. CallSorts(input, Ordered, F, origin, result, t, 1)
      BY <2>2, <3>1 DEF CallsSort
    <3> QED
      BY <1>3, <1>5, <2>2, <3>2 DEF CallSorts
  <2>10. AsRead(input, origin, LeftHalf(q)) /\ AsRead(input, origin, RightHalf(q))
    <3> HIDE DEF n
    <3> QED
      BY <1>4, <2>9, HalvesAsRead
  <2>11. CallSorts(input, Ordered, H, origin, result, t, 1)
    <3>1. H[t][1] = p
      BY <1>3, <1>10, <2>6 DEF s
    <3>2. Lends(H, t, 1)
      <4>1. u # None /\ H[u] # <<>>
        BY <2>7, SortAssumption DEF Thread, None
      <4> QED
        BY <1>6, <3>1, <4>1 DEF Lends
    <3> QED
      BY <1>5, <1>6, <2>10, <3>1, <3>2 DEF CallSorts
  <2>12. ASSUME NEW w \in Threads \ {t}, NEW k \in 1 .. Len(H[w]), F[w] = <<>>
         PROVE  CallSorts(input, Ordered, H, origin, result, w, k)
    <3>1. w = u /\ k = 1 /\ H[w][k] = c
      BY <2>7, <2>8, <2>12
    <3> QED
      BY <1>5, <1>7, <2>10, <3>1 DEF CallSorts
  <2>13. \A w \in Threads \ {t} : F[w] # <<>> => H[w] = F[w]
    BY <1>8, <2>8
  <2>14. SameBut(n, origin, origin, F[t][1].seg)
    BY DEF SameBut
  <2>15. \A w \in Threads \ {t} : \A k \in 1 .. Len(H[w]) :
           F[w] = <<>> => CallSorts(input, Ordered, H, origin, result, w, k)
    BY <2>12
  <2> HIDE DEF n, F
  <2>16. CallsSort(input, Ordered, H, origin, result) /\ MainSorts(Ordered, H, result, All)
    BY <1>4, <1>6, <2>2, <2>3, <2>6, <2>11, <2>13, <2>14, <2>15, GotoSorts, ZenonT(40)
  <2>17. Ordered' = Ordered /\ All' = All
    BY <1>2 DEF Ordered, All
  <2> QED
    BY <1>2, <2>1, <2>4, <2>16, <2>17 DEF Sorting
<1> QED
  BY <1>12, <1>13
(* The left half is written into `data', and no thread is started.          *)
LEMMA StartFailsSorts ==
  ASSUME SortInv, NEW t \in Threads, StartFails(t)
  PROVE  Arrays' /\ (sound => Sorting)'
<1> DEFINE n == All.size
           p == [top(t) EXCEPT !.pc = "right"]
           s == <<p>> \o Tail(stack[t])
<1>1. /\ At(t, "left") /\ UNCHANGED <<input, origin, result>> /\ ~sound' /\ stack' = [stack EXCEPT ![t] = s]
      /\ data' = [w \in Thread |-> IF w \in top(t).shared THEN LeftHalf(top(t).seg) ELSE data[w]]
      /\ IInv /\ Arrays /\ input \in Input
  BY DEF StartFails, SortInv, IInv, Types, goto
<1>2. stack[t] \in Seq(Frame) /\ stack[t] # <<>> /\ top(t) = stack[t][1] /\ top(t) \in Frame
  BY <1>1, TopCall DEF IInv
<1>3. p \in Frame /\ p.seg = top(t).seg
  BY <1>2 DEF Frame
<1>4. PICK q \in SegmentsOf(n) : q = top(t).seg
  BY <1>1, <1>2 DEF Arrays, SegsIn
<1>5. LeftHalf(top(t).seg) \in SegmentsOf(n)
  <2>1. n \in Nat
    BY <1>1, InputIs
  <2> HIDE DEF n
  <2> QED
    BY <1>4, <2>1, HalvesOf
<1> HIDE DEF p
<1>6. Len(s) = Len(stack[t]) /\ s[1] = p /\ \A k \in 2 .. Len(stack[t]) : s[k] = stack[t][k]
  BY <1>2, <1>3, RetopSeq
<1>7. \A k \in 1 .. Len(stack[t]) : k = 1 \/ k \in 2 .. Len(stack[t])
  BY <1>2
<1> HIDE DEF s
<1>8. ASSUME NEW k \in 1 .. Len(s)
      PROVE  s[k].seg \in SegmentsOf(All.size)
  <2>1. CASE k = 1
    BY <1>3, <1>4, <1>6, <2>1
  <2>2. CASE k \in 2 .. Len(stack[t])
    BY <1>1, <1>6, <2>2 DEF Arrays, SegsIn
  <2> QED
    BY <1>6, <1>7, <2>1, <2>2
<1>9. /\ origin' \in [DOMAIN input -> Ints] /\ result' \in [DOMAIN input -> Ints]
      /\ \A u \in Thread : data'[u] \in SegmentsOf(All.size)
  BY <1>1, <1>5 DEF Arrays
<1>10. Arrays'
  BY <1>1, <1>8, <1>9, ArraysGoOn
<1> QED
  BY <1>1, <1>10

(* A thread whose calls have returned ends. *)
LEMMA EndSorts ==
  ASSUME SortInv, NEW t \in Threads, End(t)
  PROVE  Arrays' /\ (sound => Sorting)'
<1>1. /\ state[t] = "running" /\ stack[t] = <<>> /\ state' = [state EXCEPT ![t] = "ended"]
      /\ UNCHANGED <<input, origin, result, stack, data, sound>> /\ IInv /\ Types
  BY DEF End, SortInv, IInv
<1>2. Arrays'
  BY <1>1 DEF SortInv, Arrays, SegsIn, All, Ints
<1>3. Frames' = Frames
  BY <1>1 DEF Frames, Types
<1>4. ASSUME sound
      PROVE  Sorting'
  <2>1. Parents'
    BY <1>1, <1>4 DEF SortInv, Sorting, Parents, Types, Threads
  <2>2. Ordered' = Ordered /\ All' = All
    BY <1>1 DEF Ordered, All
  <2> QED
    BY <1>1, <1>3, <1>4, <2>1, <2>2 DEF SortInv, Sorting
<1> QED
  BY <1>1, <1>2, <1>4

(* A thread reads its argument. *)
LEMMA ThreadFuncSorts ==
  ASSUME SortInv, NEW t \in Thread, thread_func(t)
  PROVE  Arrays' /\ (sound => Sorting)'
<1> DEFINE s == <<Call(data[t], {})>>
<1>1. /\ state[t] = "created" /\ state' = [state EXCEPT ![t] = "running"] /\ stack' = [stack EXCEPT ![t] = s]
      /\ UNCHANGED <<input, origin, result, data, sound>> /\ IInv /\ Arrays /\ Types /\ t \in Threads
  BY DEF thread_func, SortInv, IInv, Threads
<1>2. stack[t] = <<>>
  BY <1>1 DEF IInv, Stacks
<1>3. Len(s) = 1 /\ s[1].seg = data[t]
  BY DEF Call
<1> HIDE DEF s
<1>4. Arrays'
  <2>1. ASSUME NEW k \in 1 .. Len(s)
        PROVE  s[k].seg \in SegmentsOf(All.size)
    <3>1. k = 1
      BY <1>3
    <3> QED
      BY <1>1, <1>3, <3>1 DEF Arrays
  <2>2. /\ origin' \in [DOMAIN input -> Ints] /\ result' \in [DOMAIN input -> Ints]
        /\ \A u \in Thread : data'[u] \in SegmentsOf(All.size)
    BY <1>1 DEF Arrays
  <2> QED
    BY <1>1, <2>1, <2>2, ArraysGoOn
<1>5. Frames' = Frames
  BY <1>1 DEF s, Frames, Types
<1>6. ASSUME sound
      PROVE  Sorting'
  <2>1. Parents'
    <3> SUFFICES ASSUME NEW v \in Thread, state'[v] \in {"created", "running"}
                 PROVE  \E w \in Threads : w < v /\ \E k \in 1 .. Len(stack'[w]) :
                           stack'[w][k].thread = v /\ stack'[w][k].pc \in {"right", "join"}
      BY DEF Parents
    <3>1. state[v] \in {"created", "running"}
      BY <1>1 DEF Types, Threads
    <3>2. PICK w \in Threads : w < v /\ \E k \in 1 .. Len(stack[w]) :
             stack[w][k].thread = v /\ stack[w][k].pc \in {"right", "join"}
      BY <1>6, <3>1 DEF SortInv, Sorting, Parents
    <3>3. w # t
      BY <1>2, <3>2
    <3>4. stack'[w] = stack[w]
      BY <1>1, <3>3 DEF Types
    <3> QED
      BY <3>2, <3>4
  <2>2. Ordered' = Ordered /\ All' = All
    BY <1>1 DEF Ordered, All
  <2> QED
    BY <1>1, <1>5, <1>6, <2>1, <2>2 DEF SortInv, Sorting
<1> QED
  BY <1>1, <1>4, <1>6

(* Every step of a thread keeps what is known of the arrays. *)
LEMMA StepSorts ==
  ASSUME SortInv, NEW t \in Threads, Step(t)
  PROVE  Arrays' /\ (sound => Sorting)'
<1>1. CASE ReturnSmall(t)
  BY <1>1, ReturnSmallSorts
<1>2. CASE CallLeft(t)
  <2>1. /\ At(t, "left") /\ "left" = "left" /\ "right" = "right" /\ LeftHalf(top(t).seg) = LeftHalf(top(t).seg)
        /\ stack' = [stack EXCEPT ![t] = <<Call(LeftHalf(top(t).seg), {})>> \o goto(t, "right")]
        /\ UNCHANGED <<input, origin, result, data, state, sound>>
    BY <1>2 DEF CallLeft
  <2>2. {} \in SUBSET Thread
    OBVIOUS
  <2> QED
    BY <2>1, <2>2, CallKeepsSort
<1>3. CASE StartThread(t)
  BY <1>3, StartSorts
<1>4. CASE StartFails(t)
  BY <1>4, StartFailsSorts
<1>5. CASE CallRight(t)
  <2>1. PICK shared \in {{}, top(t).shared} :
          stack' = [stack EXCEPT ![t] = <<Call(RightHalf(top(t).seg), shared)>> \o goto(t, "join")]
    BY <1>5 DEF CallRight
  <2>2. /\ At(t, "right") /\ UNCHANGED <<input, origin, result, data, state, sound>>
        /\ "right" = "right" /\ "join" = "join" /\ RightHalf(top(t).seg) = RightHalf(top(t).seg)
    BY <1>5 DEF CallRight
  <2>3. shared \in SUBSET Thread
    BY <2>2, TopCall DEF SortInv, IInv
  <2> QED
    BY <2>1, <2>2, <2>3, CallKeepsSort
<1>6. CASE Join(t)
  <2>1. /\ At(t, "join") /\ (top(t).thread # None => state[top(t).thread] = "ended")
        /\ stack' = [stack EXCEPT ![t] = goto(t, "memcpy")]
        /\ UNCHANGED <<input, result, data, state, sound>> /\ origin' = origin
    BY <1>6 DEF Join
  <2>2. origin' \in [DOMAIN input -> Ints] /\ SameBut(All.size, origin, origin', top(t).seg)
    BY <2>1 DEF SameBut, SortInv, Arrays
  <2>3. "join" = "join" /\ "memcpy" = "memcpy"
    OBVIOUS
  <2> QED
    BY <2>1, <2>2, <2>3, GotoKeepsSort
<1>7. CASE Memcpy(t)
  BY <1>7, MemcpySorts
<1>8. CASE Merge(t)
  BY <1>8, MergeSorts
<1>9. CASE End(t)
  BY <1>9, EndSorts
<1> QED
  BY <1>1, <1>2, <1>3, <1>4, <1>5, <1>6, <1>7, <1>8, <1>9 DEF Step

(* A call that joins nobody leaves the arrays alone. *)
LEMMA JoinNobodySorts ==
  ASSUME SortInv, NEW t \in Threads, JoinNobody(t)
  PROVE  Arrays' /\ (sound => Sorting)'
<1>1. /\ At(t, "join") /\ top(t).thread = None
      /\ UNCHANGED <<input, origin, result, data, state, sound>>
  BY DEF JoinNobody, JoinsNobody
<1>2. CASE stack' = [stack EXCEPT ![t] = goto(t, "memcpy")]
  <2>1. origin' \in [DOMAIN input -> Ints] /\ SameBut(All.size, origin, origin', top(t).seg)
    BY <1>1 DEF SameBut, SortInv, Arrays
  <2>2. "join" = "join" /\ "memcpy" = "memcpy"
    OBVIOUS
  <2> QED
    BY <1>1, <1>2, <2>1, <2>2, GotoKeepsSort
<1>3. CASE UNCHANGED stack
  <2>1. Frames' = Frames /\ All' = All /\ Ordered' = Ordered /\ Ints' = Ints
    BY <1>1, <1>3 DEF Frames, All, Ordered, Ints
  <2> QED
    BY <1>1, <1>3, <2>1 DEF SortInv, Arrays, SegsIn, Sorting, Parents
<1> QED
  BY <1>2, <1>3 DEF JoinNobody

(* A thread that has read an argument in parts leaves the arrays alone. *)
LEMMA TornReadSorts ==
  ASSUME SortInv, NEW t \in Thread, TornRead(t)
  PROVE  Arrays' /\ (sound => Sorting)'
<1>1. UNCHANGED <<input, origin, result, stack, data, state, sound>>
  BY DEF TornRead
<1>2. Frames' = Frames /\ All' = All /\ Ordered' = Ordered /\ Ints' = Ints
  BY <1>1 DEF Frames, All, Ordered, Ints
<1> QED
  BY <1>1, <1>2 DEF SortInv, Arrays, SegsIn, Sorting, Parents

(* At first main is to sort all of what was read. *)
LEMMA InitSorts == Init => SortInv
<1> SUFFICES ASSUME Init
             PROVE  SortInv
  OBVIOUS
<1>1. IInv /\ input \in Input
  BY InitGood DEF Init
<1>2. /\ All.size \in Nat /\ All \in SegmentsOf(All.size) /\ All.lo = 0
      /\ input \in [DOMAIN input -> Ints] /\ 0 \in Ints
  BY <1>1, InputIs DEF Ints
<1> DEFINE c == Call(All, {})
<1>3. c.seg = All /\ c.pc = "left" /\ c.thread = None
  BY DEF Call
<1>4. main \in Threads /\ main \notin Thread
  BY SortAssumption DEF Threads, Thread, main
<1> HIDE DEF c
<1>5. \A t \in Threads : stack[t] = (IF t = main THEN <<c>> ELSE <<>>) /\ Frames[t] = stack[t]
  BY DEF Init, Threads, Frames, c
<1>6. ASSUME NEW t \in Threads, NEW k \in 1 .. Len(stack[t])
      PROVE  t = main /\ k = 1 /\ stack[t][k] = c /\ Frames[t][k] = c
  <2>1. t = main
    <3>1. CASE t # main
      <4>1. stack[t] = <<>>
        BY <1>5, <3>1
      <4> QED
        BY <4>1
    <3> QED
      BY <3>1
  <2>2. stack[t] = <<c>> /\ Frames[t] = <<c>>
    BY <1>5, <2>1
  <2> QED
    BY <2>1, <2>2
<1>7. Arrays
  <2>1. [lo |-> 0, size |-> 0] \in SegmentsOf(All.size)
    BY <1>2 DEF SegmentsOf
  <2>2. SegsIn(stack, All.size)
    BY <1>2, <1>3, <1>6 DEF SegsIn
  <2> QED
    BY <1>2, <2>1, <2>2 DEF Init, Arrays
<1>8. Parents
  BY <1>4 DEF Init, Parents
<1>9. ASSUME NEW t \in Threads, NEW k \in 1 .. Len(Frames[t])
      PROVE  CallSorts(input, Ordered, Frames, origin, result, t, k)
  <2>1. Frames[t][k] = c
    BY <1>5, <1>6
  <2>2. AsRead(input, origin, All)
    BY DEF Init, AsRead
  <2> QED
    BY <1>3, <2>1, <2>2 DEF CallSorts
<1>10. MainSorts(Ordered, Frames, result, All)
  <2>1. Frames[main] = <<c>>
    BY <1>4, <1>5
  <2> QED
    BY <1>3, <2>1 DEF MainSorts, Outermost
<1> QED
  BY <1>1, <1>7, <1>8, <1>9, <1>10 DEF SortInv, Sorting, CallsSort

(* What each call finds in the arrays, whichever way the threads take turns. *)
(* That no call reaches past them is so until a thread reads its argument   *)
(* in parts; the rest is about sound sorts, in which none does.             *)
THEOREM ArraysHold == Spec => []SortInv
<1>1. SortInv /\ [Next]_vars => SortInv'
  <2>1. ASSUME SortInv, Next
        PROVE  SortInv'
    <3>1. IInv'
      BY <2>1, StepKeeps, JoinNobodyKeeps, ThreadFuncKeeps, TornReadKeeps DEF SortInv, Next, Threads
    <3>2. Arrays' /\ (sound => Sorting)'
      BY <2>1, StepSorts, JoinNobodySorts, ThreadFuncSorts, TornReadSorts DEF Next, Threads
    <3> QED
      BY <3>1, <3>2 DEF SortInv
  <2>2. ASSUME SortInv, UNCHANGED vars
        PROVE  SortInv'
    <3>1. UNCHANGED <<input, origin, result, stack, data, state, sound>>
      BY <2>2 DEF vars
    <3>2. IInv'
      BY <2>2, <3>1 DEF SortInv, IInv, Types, Stacks, Frames
    <3>3. Arrays'
      BY <2>2, <3>1 DEF SortInv, Arrays, SegsIn, All, Ints
    <3>4. (sound => Sorting)'
      <4>1. Frames' = Frames /\ All' = All /\ Ordered' = Ordered
        BY <3>1 DEF Frames, All, Ordered
      <4>2. Parents' = Parents
        BY <3>1 DEF Parents
      <4> QED
        BY <2>2, <3>1, <4>1, <4>2 DEF SortInv, Sorting
    <3> QED
      BY <3>2, <3>3, <3>4 DEF SortInv
  <2> QED
    BY <2>1, <2>2
<1> QED
  BY <1>1, InitSorts, PTL DEF Spec
(* The types of the variables, and no call reaches past the arrays until a  *)
(* thread reads its argument in parts: for every input and every number of  *)
(* threads, whether they start or not.                                      *)
THEOREM TypeCorrect == Spec => []TypeOK
<1>1. ASSUME SortInv, Followed
      PROVE  TypeOK
  <2> DEFINE n == All.size
  <2>1. IInv /\ Types /\ Arrays /\ input \in Input
    BY <1>1 DEF SortInv, IInv, Types
  <2>2. n \in 0 .. N /\ n \in Nat /\ N \in Nat /\ DOMAIN input = 0 .. n - 1
    BY <2>1, InputIs, SortAssumption
  <2> HIDE DEF n
  <2>3. ASSUME NEW s \in SegmentsOf(n)
        PROVE  s \in Segment /\ Cells(s) \subseteq DOMAIN input
    <3>1. /\ s \in [lo : 0 .. n, size : 0 .. n] /\ s.lo + s.size <= n
          /\ s.lo \in 0 .. n /\ s.size \in 0 .. n
      BY DEF SegmentsOf
    <3>2. s \in [lo : 0 .. N, size : 0 .. N] /\ s.lo + s.size <= N
      BY <2>2, <3>1
    <3>3. Cells(s) \subseteq DOMAIN input
      BY <2>2, <3>1 DEF Cells
    <3> QED
      BY <3>2, <3>3 DEF Segment, SegmentsOf
  <2>4. ASSUME NEW t \in Threads, NEW f \in ToSet(stack[t])
        PROVE  /\ f.seg \in Segment /\ Cells(f.seg) \subseteq DOMAIN input
               /\ f.pc \in {"left", "right", "join", "memcpy", "merge"}
               /\ f.thread \in {None} \cup Thread
               /\ f.shared \subseteq Thread
    <3>1. stack[t] \in Seq(Frame)
      BY <2>1 DEF Types
    <3>2. PICK k \in 1 .. Len(stack[t]) : f = stack[t][k]
      BY <3>1 DEF ToSet
    <3>3. f \in Frame /\ f.seg \in SegmentsOf(n)
      BY <2>1, <3>1, <3>2 DEF Arrays, SegsIn, n
    <3>4. /\ f.pc \in {"left", "right", "join", "memcpy", "merge"}
          /\ f.thread \in {None} \cup Thread /\ f.shared \subseteq Thread
      BY <3>3 DEF Frame
    <3> QED
      BY <2>3, <3>3, <3>4
  <2>5. data \in [Thread -> Segment]
    <3>1. ASSUME NEW u \in Thread
          PROVE  data[u] \in Segment
      BY <2>1, <2>3 DEF Arrays, n
    <3> QED
      BY <2>1, <3>1 DEF Types
  <2> QED
    BY <1>1, <2>1, <2>4, <2>5 DEF TypeOK, Types, Arrays, Ints, Threads, Followed
<1> QED
  BY <1>1, ArraysHold, NeverAstray, PTL

(* If every thread has been started and has read what it was given, main    *)
(* prints what was read, in order, as the sort without threads would, and   *)
(* no thread is left: for every number of ints and threads, every threshold *)
(* and every turn that the threads take.                                    *)
THEOREM SortsCorrectly == Spec => []SortedAtEnd
<1>1. ASSUME SortInv, sound, state[main] = "ended"
      PROVE  /\ Sorts(result, input, All)
             /\ Content(result, All) = mergeSort(input, All.size)[All]
             /\ \A t \in Thread : state[t] \in {"new", "ended"}
  <2> DEFINE n == All.size
  <2>1. IInv /\ Types /\ Arrays /\ Sorting /\ main \in Threads
    BY <1>1 DEF SortInv, IInv, Threads
  <2>2. stack[main] = <<>> /\ Frames[main] = <<>>
    BY <1>1, <2>1 DEF IInv, Stacks, Frames
  <2>3. /\ n \in Nat /\ All \in SegmentsOf(n)
        /\ input \in [0 .. n - 1 -> Int]
    BY <2>1, InputIs DEF Types
  <2>4. Content(result, All) = Ordered[All]
    BY <2>1, <2>2 DEF Sorting, MainSorts, SortedIn
  <2>5. PICK c, b : c = Content(result, All) /\ b = Content(input, All)
    OBVIOUS
  <2>6. Len(b) = All.size
    <3> HIDE DEF n
    <3> QED
      BY <2>3, <2>5, ContentOfInts DEF n
  <2>7. InOrder(c, b)
    <3>1. InOrder(mergeSort(input, n)[All], Content(input, All))
      <4> HIDE DEF n
      <4> QED
        BY <2>3, SortsSegment
    <3> QED
      BY <2>4, <2>5, <3>1 DEF Ordered
  <2>8. /\ \A k \in 1 .. All.size - 1 : c[k] <= c[k + 1]
        /\ \A v : Occurrences(c, v) = Occurrences(b, v)
    BY <2>6, <2>7 DEF InOrder, Ascending
  <2>9. Sorts(result, input, All)
    BY <2>5, <2>8 DEF Sorts
  <2>10. \A t \in Thread : state[t] \in {"new", "ended"}
    BY <2>1, <2>2, NoneLeft DEF Sorting
  <2> QED
    BY <2>4, <2>9, <2>10 DEF Ordered
<1>2. SortInv => SortedAtEnd
  BY <1>1 DEF SortedAtEnd
<1> QED
  BY <1>2, ArraysHold, PTL
=============================================================================
