-------------------------- MODULE BoundaryTagProofs --------------------------
(***************************************************************************)
(* Theorems about BoundaryTagAllocator, for a memory and tags of any size. *)
(***************************************************************************)
EXTENDS BoundaryTagAllocator, WellFoundedInduction, TLAPS

-----------------------------------------------------------------------------
(* A set of natural numbers has a least element, a bounded one a greatest. *)
LEMMA LessIsWellFounded ==
  \E R : IsWellFoundedOn(R, Nat) /\ \A x, y \in Nat : y < x => <<y, x>> \in R
<1> DEFINE R == OpToRel(<, Nat)
<1>1. \A x, y \in Nat : y < x => <<y, x>> \in R
  BY DEF OpToRel
<1>2. IsWellFoundedOn(R, Nat)
  BY NatLessThanWellFounded
<1> HIDE DEF R
<1> QED BY <1>1, <1>2

LEMMA Least ==
  ASSUME NEW T \in SUBSET Nat, T # {}
  PROVE  \E x \in T : \A y \in T : x <= y
<1>1. PICK R : /\ IsWellFoundedOn(R, Nat)
               /\ \A x, y \in Nat : y < x => <<y, x>> \in R
  BY LessIsWellFounded
<1>2. \E x \in T : \A y \in T : ~ (<<y, x>> \in R)
  BY <1>1, WFMin
<1>3. PICK x \in T : \A y \in T : ~ (<<y, x>> \in R)
  BY <1>2
<1>4. \A y \in T : ~ (y < x)
  BY <1>1, <1>3, Zenon
<1> QED BY <1>4

LEMMA Greatest ==
  ASSUME NEW b \in Nat, NEW T \in SUBSET (0 .. b), T # {}
  PROVE  \E x \in T : \A y \in T : y <= x
<1> DEFINE U == {b - x : x \in T}
<1>1. U \in SUBSET Nat
  OBVIOUS
<1>2. U # {}
  OBVIOUS
<1>3. PICK u \in U : \A y \in U : u <= y
  BY <1>1, <1>2, Least
<1>4. PICK x \in T : u = b - x
  OBVIOUS
<1>5. \A y \in T : b - x <= b - y
  BY <1>3, <1>4
<1> QED BY <1>5

-----------------------------------------------------------------------------
(* The segment, or the end of memory, behind segment s. *)
Behind(m, s) == EndOf(m, s) + EndSize

(* From FirstSegment on, the segments in S are laid out in m without a gap, *)
(* and each of them has two tags that agree.                               *)
WellFormed(m, S) ==
  /\ DOMAIN m = Address
  /\ S \subseteq Address
  /\ FirstSegment \in S
  /\ m[Head] \in StartTag
  /\ \A s \in S : s >= FirstSegment /\ m[s] \in StartTag
  /\ \A s \in S : m[EndOf(m, s)] = [isFree |-> m[s].isFree, size |-> m[s].size]
  /\ \A s \in S : Behind(m, s) \in S \cup {MemSize}
  /\ \A s \in S \ {FirstSegment} : \E r \in S : Behind(m, r) = s
  /\ \A r, s \in S : r < s => Behind(m, r) <= s

LEMMA SizesOfTags ==
  ASSUME NEW m, NEW s \in Address, m[s] \in StartTag
  PROVE  /\ m[s].size \in 0 .. MemSize
         /\ m[s].isFree \in BOOLEAN
         /\ m[s].prev \in Address \cup {Junk}
         /\ m[s].next \in Address \cup {Junk}
         /\ EndOf(m, s) \in Nat
         /\ EndOf(m, s) >= s + StartSize
         /\ Behind(m, s) = EndOf(m, s) + EndSize
         /\ Behind(m, s) \in Nat
         /\ Behind(m, s) > s
         /\ Behind(m, s) \in 0 .. 3 * MemSize
BY TagAssumption DEF StartTag, Behind, EndOf, DataOf, Address

(* What WellFormed says in numbers, one segment at a time. *)
Laid(m, S) ==
  \A s \in S :
    /\ s \in Nat /\ s >= StartSize /\ s < MemSize
    /\ m[s].size \in Nat
    /\ EndOf(m, s) = s + StartSize + m[s].size
    /\ Behind(m, s) \in Nat
    /\ Behind(m, s) = s + StartSize + m[s].size + EndSize
    /\ Behind(m, s) \in S \/ Behind(m, s) = MemSize
    /\ Behind(m, s) <= MemSize
    /\ \A t \in S : t > s => t >= Behind(m, s)

LEMMA LaidOut ==
  ASSUME NEW m, NEW S, WellFormed(m, S)
  PROVE  Laid(m, S)
<1> SUFFICES ASSUME NEW s \in S
             PROVE  /\ s \in Nat /\ s >= StartSize /\ s < MemSize
                    /\ m[s].size \in Nat
                    /\ EndOf(m, s) = s + StartSize + m[s].size
                    /\ Behind(m, s) \in Nat
                    /\ Behind(m, s) = s + StartSize + m[s].size + EndSize
                    /\ Behind(m, s) \in S \/ Behind(m, s) = MemSize
                    /\ Behind(m, s) <= MemSize
                    /\ \A t \in S : t > s => t >= Behind(m, s)
  BY DEF Laid
<1>1. s \in Address /\ m[s] \in StartTag /\ s >= FirstSegment
  BY DEF WellFormed
<1>2. Behind(m, s) \in S \/ Behind(m, s) = MemSize
  BY DEF WellFormed
<1>3. Behind(m, s) <= MemSize
  <2>1. Behind(m, s) \in Address \/ Behind(m, s) = MemSize
    BY <1>2 DEF WellFormed
  <2> QED BY <2>1, TagAssumption DEF Address
<1>4. EndOf(m, s) = s + StartSize + m[s].size
  BY DEF EndOf, DataOf
<1>5. m[s].size \in Nat
  BY <1>1, SizesOfTags
<1>6. Behind(m, s) = s + StartSize + m[s].size + EndSize
  BY <1>4 DEF Behind
<1>7. s \in Nat /\ s >= StartSize /\ s < MemSize
  BY <1>1, TagAssumption DEF Address, FirstSegment
<1>8. \A t \in S : t > s => t >= Behind(m, s)
  BY DEF WellFormed
<1>9. Behind(m, s) \in Nat
  BY <1>5, <1>6, <1>7, TagAssumption
<1> QED BY <1>2, <1>3, <1>4, <1>5, <1>6, <1>7, <1>8, <1>9

(* Segments, which is defined by recursion along the tags, is the set S of   *)
(* WellFormed.                                                              *)
LEMMA SegmentsFound ==
  ASSUME NEW S, WellFormed(memory, S)
  PROVE  Segments = S
<1> DEFINE D == 0 .. 3 * MemSize
           next(a) == Behind(memory, a)
           Closed(C) == \A c \in C : IsStart(c) => next(c) \in C
           Reached(a) == {b \in D : IsStart(b) /\ \A C \in SUBSET D :
                                      a \in C /\ Closed(C) => b \in C}
           reach == [a \in D |-> Reached(a)]
           from[a \in D] == IF IsStart(a) THEN {a} \cup from[next(a)] ELSE {}
<1>1. \A a : IsStart(a) => a \in D /\ next(a) \in D
  BY SizesOfTags, TagAssumption DEF IsStart, Address
<1>2. ASSUME NEW a \in D
      PROVE  Reached(a) = IF IsStart(a) THEN {a} \cup Reached(next(a)) ELSE {}
  <2>1. CASE ~IsStart(a)
    <3>1. {a} \in SUBSET D /\ a \in {a} /\ Closed({a})
      BY <2>1
    <3> QED BY <2>1, <3>1
  <2>2. CASE IsStart(a)
    <3> HIDE DEF next
    <3>1. a \in Reached(a)
      BY <2>2
    <3>2. ASSUME NEW b \in Reached(next(a))
          PROVE  b \in Reached(a)
      BY <2>2, <3>2
    <3>3. ASSUME NEW b \in Reached(a), b # a,
                 NEW C \in SUBSET D, next(a) \in C, Closed(C)
          PROVE  b \in C
      <4>1. C \cup {a} \in SUBSET D /\ a \in C \cup {a} /\ Closed(C \cup {a})
        BY <3>3
      <4> QED BY <4>1, <3>3
    <3>4. \A b \in Reached(a) : b # a => b \in Reached(next(a))
      BY <3>3
    <3> QED BY <2>2, <3>1, <3>2, <3>4
  <2> QED BY <2>1, <2>2
<1>3. from = [a \in D |-> IF IsStart(a) THEN {a} \cup from[next(a)] ELSE {}]
  <2>1. reach = [a \in D |-> IF IsStart(a) THEN {a} \cup reach[next(a)] ELSE {}]
    <3> HIDE DEF Reached, next
    <3> QED BY <1>1, <1>2
  <2> HIDE DEF reach
  <2> QED BY <2>1
<1> HIDE DEF from
<1>4. Laid(memory, S)
  BY LaidOut
<1>5. \A s \in S : IsStart(s) /\ s \in D /\ next(s) > s /\ next(s) \in Nat
  <2>1. \A s \in S : IsStart(s)
    BY DEF WellFormed, IsStart
  <2> QED BY <2>1, <1>1, <1>4, TagAssumption DEF Laid
<1>6. \A s \in S : from[s] \subseteq S /\ \A t \in S : t \in from[s] <=> t >= s
  <2> DEFINE Right(s) == from[s] \subseteq S /\ \A t \in S : t \in from[s] <=> t >= s
             Wrong == {s \in S : ~Right(s)}
  <2> SUFFICES ASSUME Wrong # {} PROVE FALSE
    OBVIOUS
  <2>1. Wrong \in SUBSET (0 .. MemSize)
    <3> HIDE DEF Right
    <3>1. \A s \in S : s \in 0 .. MemSize
      BY <1>4, TagAssumption DEF Laid
    <3> QED BY <3>1
  <2>2. PICK s \in Wrong : \A t \in Wrong : t <= s
    <3> HIDE DEF Wrong
    <3> QED BY <2>1, Greatest, TagAssumption
  <2>3. s \in S /\ ~Right(s)
    OBVIOUS
  <2>4. from[s] = {s} \cup from[next(s)]
    BY <2>3, <1>3, <1>5
  <2> HIDE DEF Wrong, next
  <2>5. next(s) > s /\ next(s) \in Nat /\ s \in Nat
    BY <2>3, <1>4, <1>5 DEF Laid
  <2>6. \A t \in S : t \in Nat /\ t < MemSize /\ (t > s => t >= next(s))
    BY <2>3, <1>4, TagAssumption DEF Laid, next
  <2>7. CASE next(s) \in S
    <3>1. Right(next(s))
      BY <2>2, <2>5, <2>7 DEF Wrong
    <3>2. \A t \in S : t >= s <=> t = s \/ t >= next(s)
      BY <2>5, <2>6
    <3> QED BY <2>3, <2>4, <3>1, <3>2, Zenon
  <2>8. CASE next(s) = MemSize
    <3>1. MemSize \in D /\ ~IsStart(MemSize)
      BY TagAssumption DEF IsStart, Address
    <3>2. from[next(s)] = {}
      BY <1>3, <3>1, <2>8, Zenon
    <3>3. \A t \in S : t >= s <=> t = s
      BY <2>5, <2>6, <2>8, TagAssumption
    <3> QED BY <2>3, <2>4, <3>2, <3>3, Zenon
  <2> QED BY <2>3, <2>7, <2>8, <1>4 DEF Laid, next
<1>7. Segments = from[FirstSegment]
  BY DEF Segments, from, Behind
<1>8. from[FirstSegment] \subseteq S /\ \A t \in S : t \in from[FirstSegment]
  BY <1>4, <1>6, TagAssumption DEF WellFormed, Laid, FirstSegment
<1> QED BY <1>7, <1>8

-----------------------------------------------------------------------------
(* No cell of one tag is a cell of another one, nor of data. *)
Cells(m, s) == DataOf(s) .. EndOf(m, s) - 1

LEMMA TagsApart ==
  ASSUME NEW m, NEW S, WellFormed(m, S), NEW s \in S
  PROVE  /\ Head \notin S /\ EndOf(m, s) # Head /\ Head \notin Cells(m, s)
         /\ EndOf(m, s) \notin S
         /\ EndOf(m, s) \in Address
         /\ Cells(m, s) \subseteq Address
         /\ \A t \in S : t # s => EndOf(m, t) # EndOf(m, s)
         /\ \A t \in S : t \notin Cells(m, s) /\ EndOf(m, t) \notin Cells(m, s)
         /\ \A t \in S : t # s => Cells(m, t) \cap Cells(m, s) = {}
<1>1. Laid(m, S)
  BY LaidOut
<1>2. \A t \in S : s < t \/ t < s \/ s = t
  BY <1>1 DEF Laid
<1> QED BY <1>1, <1>2, TagAssumption DEF Laid, Head, Cells, Address, DataOf

(* The tags of the segments stay well formed: as long as their sizes do,    *)
LEMMA SizesKept ==
  ASSUME NEW m, NEW S, WellFormed(m, S),
         NEW g, DOMAIN g = Address, g[Head] \in StartTag,
         \A s \in S : /\ g[s] \in StartTag
                      /\ g[s].size = m[s].size
                      /\ g[EndOf(m, s)] = [isFree |-> g[s].isFree, size |-> g[s].size]
  PROVE  /\ WellFormed(g, S)
         /\ \A s \in S : EndOf(g, s) = EndOf(m, s) /\ Behind(g, s) = Behind(m, s)
<1>1. \A s \in S : EndOf(g, s) = EndOf(m, s) /\ Behind(g, s) = Behind(m, s)
  BY DEF EndOf, Behind
<1>2. \A s \in S : g[EndOf(g, s)] = [isFree |-> g[s].isFree, size |-> g[s].size]
  BY <1>1
<1>3. WellFormed(g, S)
  BY <1>1, <1>2 DEF WellFormed
<1> QED BY <1>1, <1>3

(* if one of them is cut in two, *)
CutAt(m, S, g, s, size, start) ==
  /\ size \in Nat
  /\ start = DataOf(s) + size + EndSize
  /\ size + EndSize + StartSize <= m[s].size
  /\ DOMAIN g = Address
  /\ g[Head] \in StartTag
  /\ g[s] \in StartTag /\ g[s].size = size
  /\ g[DataOf(s) + size] = [isFree |-> g[s].isFree, size |-> g[s].size]
  /\ g[start] \in StartTag
  /\ g[start].size = m[s].size - (size + EndSize + StartSize)
  /\ g[EndOf(m, s)] = [isFree |-> g[start].isFree, size |-> g[start].size]
  /\ \A t \in S \ {s} : g[t] = m[t] /\ g[EndOf(m, t)] = m[EndOf(m, t)]

LEMMA CutInTwo ==
  ASSUME NEW m, NEW S, WellFormed(m, S), NEW s \in S,
         NEW g, NEW size, NEW start, CutAt(m, S, g, s, size, start)
  PROVE  /\ WellFormed(g, S \cup {start})
         /\ start \notin S
         /\ EndOf(g, s) = DataOf(s) + size
         /\ Behind(g, s) = start
         /\ EndOf(g, start) = EndOf(m, s)
         /\ Behind(g, start) = Behind(m, s)
         /\ \A t \in S \ {s} : EndOf(g, t) = EndOf(m, t) /\ Behind(g, t) = Behind(m, t)
<1>0. /\ size \in Nat
      /\ start = DataOf(s) + size + EndSize
      /\ size + EndSize + StartSize <= m[s].size
      /\ DOMAIN g = Address
      /\ g[Head] \in StartTag
      /\ g[s] \in StartTag /\ g[s].size = size
      /\ g[DataOf(s) + size] = [isFree |-> g[s].isFree, size |-> g[s].size]
      /\ g[start] \in StartTag
      /\ g[start].size = m[s].size - (size + EndSize + StartSize)
      /\ g[EndOf(m, s)] = [isFree |-> g[start].isFree, size |-> g[start].size]
      /\ \A t \in S \ {s} : g[t] = m[t] /\ g[EndOf(m, t)] = m[EndOf(m, t)]
  BY DEF CutAt
<1>1. Laid(m, S)
  BY LaidOut
<1>2. /\ EndOf(g, s) = DataOf(s) + size
      /\ Behind(g, s) = start
      /\ \A t \in S \ {s} : EndOf(g, t) = EndOf(m, t) /\ Behind(g, t) = Behind(m, t)
  BY <1>0 DEF EndOf, Behind
<1>3. start = s + StartSize + size + EndSize /\ start \in Nat
  BY <1>0, <1>1, TagAssumption DEF Laid, DataOf
<1>4. EndOf(g, start) = EndOf(m, s) /\ Behind(g, start) = Behind(m, s)
  BY <1>0, <1>1, <1>3, TagAssumption DEF Laid, EndOf, Behind, DataOf
<1>5. /\ start > s /\ start < Behind(m, s) /\ start < MemSize
      /\ start >= FirstSegment
  BY <1>0, <1>1, <1>3, TagAssumption DEF Laid, FirstSegment
<1>6. start \notin S
  BY <1>0, <1>1, <1>3, <1>5 DEF Laid
<1>7. S \cup {start} \subseteq Address
  <2>1. start \in Address
    BY <1>3, <1>5, TagAssumption DEF Address
  <2> QED BY <2>1 DEF WellFormed
<1>8. \A t \in S \cup {start} : t >= FirstSegment /\ g[t] \in StartTag
  BY <1>0, <1>5 DEF WellFormed
<1>9. \A t \in S \cup {start} :
         g[EndOf(g, t)] = [isFree |-> g[t].isFree, size |-> g[t].size]
  BY <1>0, <1>2, <1>4 DEF WellFormed
<1>10. \A t \in S \cup {start} : Behind(g, t) \in S \cup {start} \cup {MemSize}
  BY <1>0, <1>2, <1>4 DEF WellFormed
<1>11. \A t \in (S \cup {start}) \ {FirstSegment} :
          \E r \in S \cup {start} : Behind(g, r) = t
  <2> SUFFICES ASSUME NEW t \in (S \cup {start}) \ {FirstSegment}
               PROVE  \E r \in S \cup {start} : Behind(g, r) = t
    OBVIOUS
  <2>1. CASE t = start
    BY <2>1, <1>2
  <2>2. CASE t # start
    <3>1. PICK r \in S : Behind(m, r) = t
      BY <2>2 DEF WellFormed
    <3> QED BY <3>1, <1>2, <1>4
  <2> QED BY <2>1, <2>2
<1>12. \A r, t \in S \cup {start} : r < t => Behind(g, r) <= t
  <2>1. ASSUME NEW r \in S, NEW t \in S, r < t PROVE Behind(g, r) <= t
    <3>1. CASE r = s
      BY <2>1, <3>1, <1>1, <1>2, <1>3, <1>5 DEF Laid
    <3>2. CASE r # s
      BY <2>1, <3>2, <1>1, <1>2 DEF Laid
    <3> QED BY <3>1, <3>2
  <2>2. ASSUME NEW r \in S, r < start PROVE Behind(g, r) <= start
    <3>1. CASE r = s
      BY <3>1, <1>2, <1>3
    <3>2. CASE r # s
      <4>1. r < s
        BY <2>2, <3>2, <1>1, <1>3, <1>5 DEF Laid
      <4> QED BY <4>1, <3>2, <1>1, <1>2, <1>3, <1>5 DEF Laid
    <3> QED BY <3>1, <3>2
  <2>3. ASSUME NEW t \in S, start < t PROVE Behind(g, start) <= t
    BY <2>3, <1>1, <1>3, <1>4, <1>5 DEF Laid
  <2> QED BY <2>1, <2>2, <2>3, <1>3
<1>13. WellFormed(g, S \cup {start})
  BY <1>0, <1>7, <1>8, <1>9, <1>10, <1>11, <1>12 DEF WellFormed
<1> QED BY <1>2, <1>4, <1>6, <1>13

(* and if two of them are joined. *)
LEMMA JoinedToOne ==
  ASSUME NEW m, NEW S, WellFormed(m, S), NEW s \in S, NEW r \in S, r = Behind(m, s),
         NEW g, DOMAIN g = Address, g[Head] \in StartTag,
         g[s] \in StartTag,
         g[s].size = m[s].size + EndSize + StartSize + m[r].size,
         g[EndOf(m, r)] = [isFree |-> g[s].isFree, size |-> g[s].size],
         \A t \in S \ {s, r} :
           /\ g[t] \in StartTag
           /\ g[t].size = m[t].size
           /\ g[EndOf(m, t)] = [isFree |-> g[t].isFree, size |-> g[t].size]
  PROVE  /\ WellFormed(g, S \ {r})
         /\ s # r
         /\ EndOf(g, s) = EndOf(m, r)
         /\ Behind(g, s) = Behind(m, r)
         /\ \A t \in S \ {s, r} : EndOf(g, t) = EndOf(m, t) /\ Behind(g, t) = Behind(m, t)
<1>1. Laid(m, S)
  BY LaidOut
<1>2. \A t \in S \ {s, r} : EndOf(g, t) = EndOf(m, t) /\ Behind(g, t) = Behind(m, t)
  BY DEF EndOf, Behind
<1>3. /\ r > s /\ r \in Nat /\ s \in Nat
      /\ r = s + StartSize + m[s].size + EndSize
  BY <1>1, TagAssumption DEF Laid
<1>4. EndOf(g, s) = EndOf(m, r) /\ Behind(g, s) = Behind(m, r)
  BY <1>1, <1>3, TagAssumption DEF Laid, EndOf, Behind, DataOf
<1>5. FirstSegment # r
  BY <1>1, <1>3, TagAssumption DEF Laid, FirstSegment
<1>6. \A t \in S \ {r} : t >= FirstSegment /\ g[t] \in StartTag
  BY DEF WellFormed
<1>7. \A t \in S \ {r} :
         g[EndOf(g, t)] = [isFree |-> g[t].isFree, size |-> g[t].size]
  BY <1>2, <1>4
<1>8. \A t, u \in S : Behind(m, t) = Behind(m, u) => t = u
  BY <1>1, TagAssumption DEF Laid
<1>9. \A t \in S \ {r} : Behind(g, t) \in (S \ {r}) \cup {MemSize}
  <2>1. Behind(m, r) # r
    BY <1>1, TagAssumption DEF Laid
  <2> QED BY <1>2, <1>4, <1>8, <2>1 DEF WellFormed
<1>10. \A t \in (S \ {r}) \ {FirstSegment} : \E u \in S \ {r} : Behind(g, u) = t
  <2> SUFFICES ASSUME NEW t \in (S \ {r}) \ {FirstSegment}
               PROVE  \E u \in S \ {r} : Behind(g, u) = t
    OBVIOUS
  <2>1. PICK u \in S : Behind(m, u) = t
    BY DEF WellFormed
  <2> QED BY <2>1, <1>2, <1>3, <1>4
<1>11. \A u, t \in S \ {r} : u < t => Behind(g, u) <= t
  <2> SUFFICES ASSUME NEW u \in S \ {r}, NEW t \in S \ {r}, u < t
               PROVE  Behind(g, u) <= t
    OBVIOUS
  <2>1. CASE u = s
    <3>1. t >= r /\ t # r
      BY <2>1, <1>1 DEF Laid
    <3> QED BY <2>1, <3>1, <1>1, <1>3, <1>4 DEF Laid
  <2>2. CASE u # s
    BY <2>2, <1>1, <1>2 DEF Laid
  <2> QED BY <2>1, <2>2
<1>12. WellFormed(g, S \ {r})
  BY <1>5, <1>6, <1>7, <1>9, <1>10, <1>11 DEF WellFormed
<1> QED BY <1>2, <1>3, <1>4, <1>12

-----------------------------------------------------------------------------
(* The free list as the sequence of its tags: L[0] is that of Head, and      *)
(* L[1] to L[n] are the free segments in S, but for those in X.              *)
Listed(m, S, X) == {s \in S : m[s].isFree} \ X

ListOK(m, S, L, n, X) ==
  /\ n \in Nat /\ L \in [0 .. n -> Address] /\ L[0] = Head
  /\ \A i, j \in 0 .. n : L[i] = L[j] => i = j
  /\ \A i \in 1 .. n : L[i] \in Listed(m, S, X)
  /\ \A s \in Listed(m, S, X) : \E i \in 1 .. n : L[i] = s
  /\ \A i \in 0 .. n - 1 : m[L[i]].next = L[i + 1] /\ m[L[i + 1]].prev = L[i]
  /\ m[L[n]].next = NULL

(* The same list in another memory. *)
LEMMA ListKept ==
  ASSUME NEW m, NEW S, NEW L, NEW n, NEW X, ListOK(m, S, L, n, X),
         NEW g, NEW T, NEW Y, Listed(g, T, Y) = Listed(m, S, X),
         \A i \in 0 .. n : g[L[i]].next = m[L[i]].next /\ g[L[i]].prev = m[L[i]].prev
  PROVE  ListOK(g, T, L, n, Y)
BY DEF ListOK

(* The list without its tag at k. *)
CutOut(L, n, k) == [i \in 0 .. n - 1 |-> IF i < k THEN L[i] ELSE L[i + 1]]

(* The neighbours of that tag are linked to each other. *)
Bypassed(m, g, L, n, k) ==
  \A i \in 0 .. n : i # k =>
     /\ g[L[i]].next = IF i = k - 1 THEN m[L[k]].next ELSE m[L[i]].next
     /\ g[L[i]].prev = IF i = k + 1 THEN m[L[k]].prev ELSE m[L[i]].prev

LEMMA ListShrinks ==
  ASSUME NEW m, NEW S, NEW L, NEW n, NEW X, ListOK(m, S, L, n, X),
         NEW k \in 1 .. n,
         NEW g, NEW T, NEW Y, Listed(g, T, Y) = Listed(m, S, X) \ {L[k]},
         Bypassed(m, g, L, n, k)
  PROVE  ListOK(g, T, CutOut(L, n, k), n - 1, Y)
<1> DEFINE M == CutOut(L, n, k)
<1>0. \A i \in 0 .. n : i # k =>
         /\ g[L[i]].next = IF i = k - 1 THEN m[L[k]].next ELSE m[L[i]].next
         /\ g[L[i]].prev = IF i = k + 1 THEN m[L[k]].prev ELSE m[L[i]].prev
  BY DEF Bypassed
<1>1. n \in Nat /\ L \in [0 .. n -> Address] /\ L[0] = Head
  BY DEF ListOK
<1>2. n - 1 \in Nat /\ k \in Nat
  BY <1>1
<1>3. \A i \in 0 .. n - 1 : M[i] = IF i < k THEN L[i] ELSE L[i + 1]
  BY DEF CutOut
<1>4. M \in [0 .. n - 1 -> Address]
  BY <1>1, <1>2 DEF CutOut
<1>5. M[0] = Head
  BY <1>1, <1>2, <1>3
<1>6. \A i, j \in 0 .. n - 1 : M[i] = M[j] => i = j
  <2>1. \A i, j \in 0 .. n : L[i] = L[j] => i = j
    BY DEF ListOK
  <2> QED BY <1>1, <1>2, <1>3, <2>1
<1>7. \A i \in 1 .. n - 1 : M[i] \in Listed(g, T, Y)
  <2>1. \A i \in 1 .. n : i # k => L[i] \in Listed(g, T, Y)
    BY <1>1 DEF ListOK
  <2> HIDE DEF M
  <2> QED BY <1>1, <1>2, <1>3, <2>1
<1>8. \A s \in Listed(g, T, Y) : \E i \in 1 .. n - 1 : M[i] = s
  <2> SUFFICES ASSUME NEW s \in Listed(g, T, Y)
               PROVE  \E i \in 1 .. n - 1 : M[i] = s
    OBVIOUS
  <2>0. s \in Listed(m, S, X) /\ s # L[k]
    OBVIOUS
  <2>1. PICK i \in 1 .. n : L[i] = s /\ i # k
    BY <2>0 DEF ListOK
  <2>2. CASE i < k
    <3>1. i \in 1 .. n - 1 /\ M[i] = s
      BY <1>1, <1>2, <1>3, <2>1, <2>2
    <3> QED BY <3>1
  <2>3. CASE i > k
    <3>1. i - 1 \in 1 .. n - 1 /\ M[i - 1] = s
      BY <1>1, <1>2, <1>3, <2>1, <2>3
    <3> QED BY <3>1
  <2> QED BY <2>1, <2>2, <2>3, <1>2
<1>9. /\ \A i \in 0 .. n - 1 : m[L[i]].next = L[i + 1] /\ m[L[i + 1]].prev = L[i]
      /\ m[L[n]].next = NULL
  BY DEF ListOK
<1>10. \A i \in 0 .. n - 2 : g[M[i]].next = M[i + 1] /\ g[M[i + 1]].prev = M[i]
  <2> SUFFICES ASSUME NEW i \in 0 .. n - 2
               PROVE  g[M[i]].next = M[i + 1] /\ g[M[i + 1]].prev = M[i]
    OBVIOUS
  <2> HIDE DEF M
  <2>1. CASE i < k - 1
    <3>1. M[i] = L[i] /\ M[i + 1] = L[i + 1] /\ i \in 0 .. n - 1 /\ i + 1 \in 0 .. n
      BY <1>1, <1>2, <1>3, <2>1
    <3>2. m[L[i]].next = L[i + 1] /\ m[L[i + 1]].prev = L[i]
      BY <1>9, <3>1
    <3>3. g[L[i]].next = m[L[i]].next /\ g[L[i + 1]].prev = m[L[i + 1]].prev
      BY <3>1, <2>1, <1>0, <1>1, <1>2
    <3> QED BY <3>1, <3>2, <3>3
  <2>2. CASE i = k - 1
    <3>1. M[i] = L[k - 1] /\ M[i + 1] = L[k + 1] /\ k \in 0 .. n - 1
      BY <1>1, <1>2, <1>3, <2>2
    <3>2. k - 1 \in 0 .. n - 1 /\ (k - 1) + 1 = k /\ k + 1 \in 0 .. n
      BY <3>1, <1>1, <1>2
    <3>3. m[L[k]].next = L[k + 1] /\ m[L[k]].prev = L[k - 1]
      BY <1>9, <3>1, <3>2
    <3>4. g[L[k - 1]].next = m[L[k]].next /\ g[L[k + 1]].prev = m[L[k]].prev
      BY <3>1, <3>2, <1>0, <1>1, <1>2
    <3> QED BY <3>1, <3>3, <3>4
  <2>3. CASE i > k - 1
    <3>1. M[i] = L[i + 1] /\ M[i + 1] = L[i + 2] /\ i + 1 \in 0 .. n - 1
          /\ (i + 1) + 1 = i + 2 /\ i + 2 \in 0 .. n
      BY <1>1, <1>2, <1>3, <2>3
    <3>2. m[L[i + 1]].next = L[i + 2] /\ m[L[i + 2]].prev = L[i + 1]
      BY <1>9, <3>1
    <3>3. g[L[i + 1]].next = m[L[i + 1]].next /\ g[L[i + 2]].prev = m[L[i + 2]].prev
      BY <3>1, <2>3, <1>0, <1>1, <1>2
    <3> QED BY <3>1, <3>2, <3>3
  <2> QED BY <2>1, <2>2, <2>3, <1>2
<1>11. g[M[n - 1]].next = NULL
  <2>1. CASE k = n
    <3>1. M[n - 1] = L[n - 1] /\ n - 1 \in 0 .. n /\ n - 1 # k /\ n - 1 = k - 1
      BY <1>1, <1>2, <1>3, <2>1
    <3> QED BY <3>1, <1>0, <1>9, <2>1
  <2>2. CASE k # n
    <3>1. M[n - 1] = L[n] /\ n \in 0 .. n /\ n # k /\ n # k - 1
      BY <1>1, <1>2, <1>3, <2>2
    <3> QED BY <3>1, <1>0, <1>9, <2>2
  <2> QED BY <2>1, <2>2
<1> HIDE DEF M
<1>12. ListOK(g, T, M, n - 1, Y)
  BY <1>2, <1>4, <1>5, <1>6, <1>7, <1>8, <1>10, <1>11 DEF ListOK
<1> QED BY <1>12 DEF M

(* The list with the tag at b behind its last one. *)
Extended(L, n, b) == [i \in 0 .. n + 1 |-> IF i = n + 1 THEN b ELSE L[i]]

Linked(m, g, L, n, b) ==
  /\ \A i \in 0 .. n :
       /\ g[L[i]].next = IF i = n THEN b ELSE m[L[i]].next
       /\ g[L[i]].prev = m[L[i]].prev
  /\ g[b].prev = L[n] /\ g[b].next = NULL

LEMMA ListGrows ==
  ASSUME NEW m, NEW S, NEW L, NEW n, NEW X, ListOK(m, S, L, n, X),
         NEW b \in Address, b # Head, b \notin Listed(m, S, X),
         NEW g, NEW T, NEW Y, Listed(g, T, Y) = Listed(m, S, X) \cup {b},
         Linked(m, g, L, n, b)
  PROVE  ListOK(g, T, Extended(L, n, b), n + 1, Y)
<1>0. /\ \A i \in 0 .. n :
           /\ g[L[i]].next = IF i = n THEN b ELSE m[L[i]].next
           /\ g[L[i]].prev = m[L[i]].prev
      /\ g[b].prev = L[n] /\ g[b].next = NULL
  BY DEF Linked
<1> DEFINE M == Extended(L, n, b)
<1>1. n \in Nat /\ L \in [0 .. n -> Address] /\ L[0] = Head
  BY DEF ListOK
<1>2. /\ \A i \in 0 .. n : i \in 0 .. n + 1 /\ M[i] = L[i]
      /\ M[n + 1] = b /\ n + 1 \in Nat
  BY <1>1 DEF Extended
<1>3. M \in [0 .. n + 1 -> Address] /\ M[0] = Head
  BY <1>1 DEF Extended
<1> HIDE DEF M
<1>4. \A i \in 0 .. n : L[i] # b
  BY <1>1 DEF ListOK
<1>5. \A i, j \in 0 .. n + 1 : M[i] = M[j] => i = j
  <2>1. \A i, j \in 0 .. n : L[i] = L[j] => i = j
    BY DEF ListOK
  <2>2. \A i \in 0 .. n + 1 : i \in 0 .. n \/ i = n + 1
    BY <1>1
  <2> QED BY <1>2, <1>4, <2>1, <2>2
<1>6. \A i \in 1 .. n + 1 : M[i] \in Listed(g, T, Y)
  <2>1. \A i \in 1 .. n + 1 : (i \in 1 .. n /\ i \in 0 .. n) \/ i = n + 1
    BY <1>1
  <2> QED BY <1>2, <2>1 DEF ListOK
<1>7. \A s \in Listed(g, T, Y) : \E i \in 1 .. n + 1 : M[i] = s
  <2>1. \A i \in 1 .. n : i \in 0 .. n /\ i \in 1 .. n + 1
    BY <1>1
  <2>2. n + 1 \in 1 .. n + 1
    BY <1>1
  <2> QED BY <1>2, <2>1, <2>2 DEF ListOK
<1>8. \A i \in 0 .. (n + 1) - 1 : g[M[i]].next = M[i + 1] /\ g[M[i + 1]].prev = M[i]
  <2> SUFFICES ASSUME NEW i \in 0 .. n
               PROVE  g[M[i]].next = M[i + 1] /\ g[M[i + 1]].prev = M[i]
    BY <1>1
  <2>1. CASE i = n
    BY <2>1, <1>0, <1>1, <1>2
  <2>2. CASE i # n
    <3>1. i \in 0 .. n - 1 /\ i + 1 \in 0 .. n
      BY <2>2, <1>1
    <3>2. m[L[i]].next = L[i + 1] /\ m[L[i + 1]].prev = L[i]
      BY <3>1 DEF ListOK
    <3> QED BY <3>1, <3>2, <2>2, <1>0, <1>1, <1>2
  <2> QED BY <2>1, <2>2
<1>9. g[M[n + 1]].next = NULL
  BY <1>0, <1>2
<1>10. ListOK(g, T, M, n + 1, Y)
  BY <1>2, <1>3, <1>5, <1>6, <1>7, <1>8, <1>9 DEF ListOK
<1> QED BY <1>10 DEF M

-----------------------------------------------------------------------------
(* A tag after an assignment to one of its fields. *)
LEMMA NextSet ==
  ASSUME NEW t \in StartTag, NEW v \in Address \cup {Junk}, NEW u, u = [t EXCEPT !.next = v]
  PROVE  /\ u \in StartTag
         /\ u.isFree = t.isFree /\ u.size = t.size
         /\ u.prev = t.prev /\ u.next = v
BY DEF StartTag

LEMMA PrevSet ==
  ASSUME NEW t \in StartTag, NEW v \in Address \cup {Junk}, NEW u, u = [t EXCEPT !.prev = v]
  PROVE  /\ u \in StartTag
         /\ u.isFree = t.isFree /\ u.size = t.size
         /\ u.prev = v /\ u.next = t.next
BY DEF StartTag

LEMMA SizeSet ==
  ASSUME NEW t \in StartTag, NEW v \in 0 .. MemSize, NEW u, u = [t EXCEPT !.size = v]
  PROVE  /\ u \in StartTag
         /\ u.isFree = t.isFree /\ u.size = v
         /\ u.prev = t.prev /\ u.next = t.next
BY DEF StartTag

LEMMA FlagSet ==
  ASSUME NEW t \in StartTag, NEW v \in BOOLEAN, NEW u, u = [t EXCEPT !.isFree = v]
  PROVE  /\ u \in StartTag
         /\ u.isFree = v /\ u.size = t.size
         /\ u.prev = t.prev /\ u.next = t.next
BY DEF StartTag

LEMMA ListTags ==
  ASSUME NEW m, NEW S, WellFormed(m, S), NEW L, NEW n, NEW X, ListOK(m, S, L, n, X)
  PROVE  /\ n \in Nat
         /\ \A i \in 0 .. n : L[i] \in Address /\ m[L[i]] \in StartTag
         /\ \A i \in 1 .. n : L[i] \in S /\ m[L[i]].isFree
         /\ \A i \in 0 .. n : i = 0 \/ L[i] \in S
         /\ L[0] = Head
<1>1. n \in Nat /\ L \in [0 .. n -> Address] /\ L[0] = Head
      /\ \A i \in 1 .. n : L[i] \in Listed(m, S, X)
  BY DEF ListOK
<1>2. \A i \in 1 .. n : L[i] \in S /\ m[L[i]].isFree
  BY <1>1 DEF Listed
<1>3. \A i \in 0 .. n : i = 0 \/ L[i] \in S
  BY <1>1, <1>2
<1> QED BY <1>1, <1>2, <1>3 DEF WellFormed

(* What Unlink does to the tags of the list, and that it does nothing else. *)
LEMMA UnlinkSets ==
  ASSUME NEW m, NEW S, WellFormed(m, S), NEW L, NEW n, NEW X, ListOK(m, S, L, n, X),
         NEW k \in 1 .. n, NEW g, g = Unlink(m, L[k])
  PROVE  /\ DOMAIN g = Address
         /\ \A c \in Address : (\A i \in 0 .. n : c # L[i]) => g[c] = m[c]
         /\ \A i \in 0 .. n :
              /\ g[L[i]] \in StartTag
              /\ g[L[i]].isFree = m[L[i]].isFree
              /\ g[L[i]].size = m[L[i]].size
              /\ g[L[i]].next = IF i = k - 1 THEN m[L[k]].next ELSE m[L[i]].next
              /\ g[L[i]].prev = IF i = k + 1 THEN m[L[k]].prev ELSE m[L[i]].prev
<1>1. /\ n \in Nat
      /\ \A i \in 0 .. n : L[i] \in Address /\ m[L[i]] \in StartTag
      /\ \A i \in 0 .. n : i = 0 \/ L[i] \in S
  BY ListTags
<1>2. /\ \A i, j \in 0 .. n : L[i] = L[j] => i = j
      /\ \A i \in 0 .. n - 1 : m[L[i]].next = L[i + 1] /\ m[L[i + 1]].prev = L[i]
      /\ m[L[n]].next = NULL
      /\ L[0] = NULL
  BY DEF ListOK, NULL, Head
<1>3. /\ k \in 0 .. n /\ k - 1 \in 0 .. n /\ k - 1 \in 0 .. n - 1 /\ (k - 1) + 1 = k
      /\ k # k - 1 /\ k # k + 1 /\ k - 1 # k + 1
  BY <1>1
<1>4. m[L[k]].prev = L[k - 1] /\ DOMAIN m = Address
  BY <1>2, <1>3 DEF WellFormed
<1> DEFINE f == [m EXCEPT ![L[k - 1]].next = m[L[k]].next]
<1>5. m[L[k]].next \in Address \cup {Junk} /\ m[L[k]].prev \in Address \cup {Junk}
  BY <1>1, <1>3, SizesOfTags
<1>6. /\ DOMAIN f = Address
      /\ \A c \in Address : c # L[k - 1] => f[c] = m[c]
      /\ f[L[k - 1]] = [m[L[k - 1]] EXCEPT !.next = m[L[k]].next]
  BY <1>1, <1>3, <1>4
<1>7. /\ \A i \in 0 .. n : f[L[i]] \in StartTag /\ f[L[i]].isFree = m[L[i]].isFree
                           /\ f[L[i]].size = m[L[i]].size /\ f[L[i]].prev = m[L[i]].prev
      /\ \A i \in 0 .. n :
           f[L[i]].next = IF i = k - 1 THEN m[L[k]].next ELSE m[L[i]].next
  <2> SUFFICES ASSUME NEW i \in 0 .. n
               PROVE  /\ f[L[i]] \in StartTag /\ f[L[i]].isFree = m[L[i]].isFree
                      /\ f[L[i]].size = m[L[i]].size /\ f[L[i]].prev = m[L[i]].prev
                      /\ f[L[i]].next = IF i = k - 1 THEN m[L[k]].next ELSE m[L[i]].next
    OBVIOUS
  <2> HIDE DEF f
  <2>1. CASE i = k - 1
    <3>1. m[L[k - 1]] \in StartTag
      BY <1>1, <1>3
    <3>2. /\ f[L[k - 1]] \in StartTag
          /\ f[L[k - 1]].isFree = m[L[k - 1]].isFree
          /\ f[L[k - 1]].size = m[L[k - 1]].size
          /\ f[L[k - 1]].prev = m[L[k - 1]].prev
          /\ f[L[k - 1]].next = m[L[k]].next
      BY <3>1, <1>5, <1>6, NextSet
    <3> QED BY <2>1, <3>2
  <2>2. CASE i # k - 1
    BY <2>2, <1>1, <1>2, <1>3, <1>6
  <2> QED BY <2>1, <2>2
<1>8. g = IF m[L[k]].next = NULL THEN f
          ELSE [f EXCEPT ![m[L[k]].next].prev = m[L[k]].prev]
  BY <1>4 DEF Unlink
<1> HIDE DEF f
<1>9. CASE k = n
  <2>1. g = f
    BY <1>2, <1>8, <1>9
  <2>2. \A i \in 0 .. n : i # k + 1
    BY <1>1, <1>9
  <2>3. \A c \in Address : (\A i \in 0 .. n : c # L[i]) => g[c] = m[c]
    BY <2>1, <1>3, <1>6
  <2> QED BY <2>1, <2>2, <2>3, <1>6, <1>7
<1>10. CASE k # n
  <2>1. k \in 0 .. n - 1 /\ k + 1 \in 0 .. n /\ k + 1 # 0
    BY <1>1, <1>10
  <2>2. m[L[k]].next = L[k + 1] /\ L[k + 1] # NULL
    BY <1>1, <1>2, <2>1
  <2>3. g = [f EXCEPT ![L[k + 1]].prev = m[L[k]].prev]
    BY <1>8, <2>2
  <2>4. /\ DOMAIN g = Address
        /\ \A c \in Address : c # L[k + 1] => g[c] = f[c]
        /\ g[L[k + 1]] = [f[L[k + 1]] EXCEPT !.prev = m[L[k]].prev]
    BY <1>1, <1>6, <2>1, <2>3
  <2>5. \A c \in Address : (\A i \in 0 .. n : c # L[i]) => g[c] = m[c]
    BY <2>4, <2>1, <1>3, <1>6
  <2>6. ASSUME NEW i \in 0 .. n
        PROVE  /\ g[L[i]] \in StartTag
               /\ g[L[i]].isFree = m[L[i]].isFree
               /\ g[L[i]].size = m[L[i]].size
               /\ g[L[i]].next = IF i = k - 1 THEN m[L[k]].next ELSE m[L[i]].next
               /\ g[L[i]].prev = IF i = k + 1 THEN m[L[k]].prev ELSE m[L[i]].prev
    <3>1. CASE i = k + 1
      <4>1. /\ g[L[k + 1]] \in StartTag
            /\ g[L[k + 1]].isFree = f[L[k + 1]].isFree
            /\ g[L[k + 1]].size = f[L[k + 1]].size
            /\ g[L[k + 1]].next = f[L[k + 1]].next
            /\ g[L[k + 1]].prev = m[L[k]].prev
        <5>1. f[L[k + 1]] \in StartTag
          BY <2>1, <1>7
        <5>2. m[L[k]].prev \in Address \cup {Junk}
          BY <1>5
        <5>3. g[L[k + 1]] = [f[L[k + 1]] EXCEPT !.prev = m[L[k]].prev]
          BY <2>4
        <5> QED BY <5>1, <5>2, <5>3, PrevSet
      <4> QED BY <4>1, <3>1, <1>3, <1>7
    <3>2. CASE i # k + 1
      <4>1. g[L[i]] = f[L[i]]
        BY <3>2, <2>1, <2>4, <1>1, <1>2
      <4> QED BY <4>1, <3>2, <1>7
    <3> QED BY <3>1, <3>2
  <2> QED BY <2>4, <2>5, <2>6
<1> QED BY <1>9, <1>10

-----------------------------------------------------------------------------
(* What Grow does to single cells. *)
Grown(m, g, s, count, e) ==
  /\ DOMAIN g = Address
  /\ g[s] = [m[s] EXCEPT !.size = m[s].size + count]
  /\ g[e] = [isFree |-> m[e].isFree, size |-> m[s].size + count]
  /\ \A c \in Address : c # s /\ c \notin DataOf(s) .. e => g[c] = m[c]

LEMMA GrowSets ==
  ASSUME NEW m, DOMAIN m = Address,
         NEW s \in Address, m[s] \in StartTag,
         NEW e \in Address, e >= DataOf(s), m[e] \in EndTag,
         NEW count, m[s].size + count \in 0 .. MemSize
  PROVE  Grown(m, Grow(m, s, count, e), s, count, e)
<1> DEFINE g == Grow(m, s, count, e)
           size == m[s].size + count
           h == [m EXCEPT ![s].size = size, ![e].size = size]
<1>1. g = Forget(h, DataOf(s), e - 1)
  BY DEF Grow
<1> HIDE DEF g
<1>2. s \in Int /\ e \in Int /\ DataOf(s) \in Int /\ DataOf(s) > s
  BY TagAssumption DEF Address, DataOf
<1>3. s # e
  BY <1>2
<1>4. size \in 0 .. MemSize
  OBVIOUS
<1> HIDE DEF size
<1>5. /\ DOMAIN h = Address
      /\ h[s] = [m[s] EXCEPT !.size = size]
      /\ h[e] = [m[e] EXCEPT !.size = size]
      /\ \A c \in Address : c # s /\ c # e => h[c] = m[c]
  BY <1>3
<1>6. [m[e] EXCEPT !.size = size] = [isFree |-> m[e].isFree, size |-> size]
  BY <1>4 DEF EndTag
<1> HIDE DEF h
<1>7. DOMAIN g = Address
  BY <1>1, <1>5 DEF Forget
<1>8. \A c \in Address : g[c] = IF c \in DataOf(s) .. e - 1 THEN Junk ELSE h[c]
  BY <1>1, <1>5 DEF Forget
<1>9. s \notin DataOf(s) .. e - 1 /\ e \notin DataOf(s) .. e - 1
  BY <1>2
<1>10. \A c \in Address : c # s /\ c \notin DataOf(s) .. e => g[c] = m[c]
  <2> SUFFICES ASSUME NEW c \in Address, c # s, c \notin DataOf(s) .. e
               PROVE  g[c] = m[c]
    OBVIOUS
  <2>1. c \notin DataOf(s) .. e - 1
    BY <1>2 DEF Address
  <2>2. c # e
    BY <1>2
  <2> QED BY <2>1, <2>2, <1>5, <1>8
<1>11. Grown(m, g, s, count, e)
  BY <1>5, <1>6, <1>7, <1>8, <1>9, <1>10 DEF size, Grown
<1> QED BY <1>11 DEF g

(* The busy segments, and that those in B and the data in them are kept. *)
Busy(m, S) == {s \in S : ~ m[s].isFree}

SameBlocks(m, g, B) ==
  \A s \in B : g[s].size = m[s].size /\ \A c \in Cells(m, s) : g[c] = m[c]

(* Grow by the free neighbour on the right makes one segment of the two. *)
Joined(m, S, g, s, r) ==
  /\ WellFormed(g, S \ {r})
  /\ s # r
  /\ EndOf(g, s) = EndOf(m, r)
  /\ Behind(g, s) = Behind(m, r)
  /\ \A t \in S \ {s, r} : Behind(g, t) = Behind(m, t)
  /\ \A t \in S \ {s, r} : g[t] = m[t]
  /\ g[s].isFree = TRUE /\ g[s].next = m[s].next /\ g[s].prev = m[s].prev
  /\ g[Head] = m[Head]
  /\ SameBlocks(m, g, S \ {s, r})

LEMMA GrowJoins ==
  ASSUME NEW m, NEW S, WellFormed(m, S), NEW s \in S, NEW r \in S, r = Behind(m, s),
         m[s].isFree = TRUE, m[r].isFree = TRUE,
         NEW count, count = m[r].size + EndSize + StartSize,
         NEW g, g = Grow(m, s, count, EndOf(m, r))
  PROVE  Joined(m, S, g, s, r)
<1>1. Laid(m, S)
  BY LaidOut
<1> DEFINE e == EndOf(m, r)
           size == m[s].size + count
<1>2. /\ m[s] \in StartTag /\ m[r] \in StartTag
      /\ m[e] = [isFree |-> TRUE, size |-> m[r].size]
      /\ DOMAIN m = Address /\ s \in Address /\ e \in Address
      /\ m[Head] \in StartTag
  BY TagsApart DEF WellFormed
<1>3. /\ m[s].size \in Nat /\ m[r].size \in Nat /\ s \in Nat /\ r \in Nat
      /\ s >= StartSize
      /\ r = s + StartSize + m[s].size + EndSize
      /\ e = r + StartSize + m[r].size
      /\ r + StartSize + m[r].size + EndSize <= MemSize
  BY <1>1 DEF Laid
<1>4. /\ size \in 0 .. MemSize /\ e >= DataOf(s) /\ e \in Nat
      /\ size = m[s].size + EndSize + StartSize + m[r].size
  BY <1>3, TagAssumption DEF DataOf
<1>5. m[e] \in EndTag /\ m[e].isFree = TRUE
  <2>1. m[r].size \in 0 .. MemSize
    BY <1>3, TagAssumption
  <2> QED BY <2>1, <1>2 DEF EndTag
<1> HIDE DEF e
<1>6. g = Grow(m, s, count, e) /\ m[s].size + count \in 0 .. MemSize
  BY <1>4 DEF e
<1>7. /\ DOMAIN g = Address
      /\ g[s] = [m[s] EXCEPT !.size = size]
      /\ g[e] = [isFree |-> TRUE, size |-> size]
      /\ \A c \in Address : c # s /\ c \notin DataOf(s) .. e => g[c] = m[c]
  <2>1. DOMAIN m = Address /\ s \in Address /\ m[s] \in StartTag /\ e \in Address
    BY <1>2
  <2>2. e >= DataOf(s) /\ m[e] \in EndTag
    BY <1>4, <1>5
  <2>3. Grown(m, g, s, count, e)
    BY <2>1, <2>2, <1>6, GrowSets
  <2> QED BY <2>3, <1>5 DEF Grown
<1> HIDE DEF size
<1>8. /\ g[s] \in StartTag /\ g[s].isFree = TRUE /\ g[s].size = size
      /\ g[s].next = m[s].next /\ g[s].prev = m[s].prev
  BY <1>2, <1>4, <1>7, SizeSet
<1>9. /\ Head \in Address /\ Head # s /\ Head \notin DataOf(s) .. e
  BY <1>3, <1>4, TagAssumption DEF Head, Address, DataOf
<1>10. g[Head] = m[Head]
  BY <1>7, <1>9
<1>11. ASSUME NEW t \in S \ {s, r}
       PROVE  /\ t \in Address /\ t # s /\ t \notin DataOf(s) .. e
              /\ EndOf(m, t) \in Address /\ EndOf(m, t) # s
              /\ EndOf(m, t) \notin DataOf(s) .. e
              /\ \A c \in Cells(m, t) : c \in Address /\ c # s /\ c \notin DataOf(s) .. e
  <2>1. /\ t \in Nat /\ m[t].size \in Nat /\ EndOf(m, t) = t + StartSize + m[t].size
        /\ t + StartSize + m[t].size + EndSize <= MemSize
    BY <1>1 DEF Laid
  <2>2. t + StartSize + m[t].size + EndSize <= s \/ t >= r + StartSize + m[r].size + EndSize
    BY <1>1, <1>3, <2>1 DEF Laid
  <2> QED BY <1>3, <1>4, <2>1, <2>2, TagAssumption, SMTT(30) DEF Address, DataOf, Cells
<1>12. \A t \in S \ {s, r} :
         /\ g[t] = m[t] /\ g[EndOf(m, t)] = m[EndOf(m, t)]
         /\ \A c \in Cells(m, t) : g[c] = m[c]
  BY <1>7, <1>11
<1>13. \A t \in S \ {s, r} :
         /\ g[t] \in StartTag
         /\ g[t].size = m[t].size
         /\ g[EndOf(m, t)] = [isFree |-> g[t].isFree, size |-> g[t].size]
  BY <1>12 DEF WellFormed
<1>14. g[s].size = m[s].size + EndSize + StartSize + m[r].size
  BY <1>4, <1>8
<1>15. g[EndOf(m, r)] = [isFree |-> g[s].isFree, size |-> g[s].size]
  BY <1>7, <1>8 DEF e
<1>16. /\ WellFormed(g, S \ {r})
       /\ s # r
       /\ EndOf(g, s) = EndOf(m, r)
       /\ Behind(g, s) = Behind(m, r)
       /\ \A t \in S \ {s, r} : Behind(g, t) = Behind(m, t)
  <2>1. DOMAIN g = Address /\ g[Head] \in StartTag /\ g[s] \in StartTag
    BY <1>2, <1>7, <1>8, <1>10
  <2> QED BY <2>1, <1>13, <1>14, <1>15, JoinedToOne
<1> QED BY <1>8, <1>10, <1>12, <1>16 DEF SameBlocks, Joined

-----------------------------------------------------------------------------
(* No two neighbours are both free, unless the left one is in X. *)
Coalesced(m, S, X) ==
  \A s \in S : m[s].isFree /\ Behind(m, s) \in S /\ m[Behind(m, s)].isFree => s \in X

Consistent(m, S, L, n, X) == WellFormed(m, S) /\ ListOK(m, S, L, n, X) /\ Coalesced(m, S, X)

(* The same segments are busy as before, with the same data; none is new. *)
SameUse(m, S, g, T) ==
  /\ T \subseteq S
  /\ Busy(g, T) = Busy(m, S)
  /\ SameBlocks(m, g, Busy(m, S))

LEMMA Unlinked ==
  ASSUME NEW m, NEW S, WellFormed(m, S), NEW L, NEW n, NEW X, ListOK(m, S, L, n, X),
         NEW k \in 1 .. n
  PROVE  LET h == Unlink(m, L[k]) IN
         /\ WellFormed(h, S)
         /\ h[L[k]] = m[L[k]]
         /\ \A t \in S : /\ h[t].size = m[t].size /\ h[t].isFree = m[t].isFree
                         /\ EndOf(h, t) = EndOf(m, t) /\ Behind(h, t) = Behind(m, t)
                         /\ \A c \in Cells(m, t) : h[c] = m[c]
<1> DEFINE h == Unlink(m, L[k])
<1>1. /\ DOMAIN h = Address
      /\ \A c \in Address : (\A i \in 0 .. n : c # L[i]) => h[c] = m[c]
      /\ \A i \in 0 .. n :
           /\ h[L[i]] \in StartTag
           /\ h[L[i]].isFree = m[L[i]].isFree
           /\ h[L[i]].size = m[L[i]].size
           /\ h[L[i]].next = IF i = k - 1 THEN m[L[k]].next ELSE m[L[i]].next
           /\ h[L[i]].prev = IF i = k + 1 THEN m[L[k]].prev ELSE m[L[i]].prev
  BY UnlinkSets
<1> HIDE DEF h
<1>2. /\ n \in Nat
      /\ \A i \in 0 .. n : L[i] \in Address /\ m[L[i]] \in StartTag
      /\ \A i \in 0 .. n : L[i] = Head \/ L[i] \in S
      /\ L[0] = Head
  BY ListTags
<1>3. h[Head] \in StartTag
  BY <1>1, <1>2
<1>4. ASSUME NEW t \in S
      PROVE  /\ h[t] \in StartTag /\ h[t].size = m[t].size /\ h[t].isFree = m[t].isFree
             /\ h[EndOf(m, t)] = [isFree |-> h[t].isFree, size |-> h[t].size]
             /\ \A c \in Cells(m, t) : h[c] = m[c]
  <2>1. t \in Address /\ m[t] \in StartTag
        /\ m[EndOf(m, t)] = [isFree |-> m[t].isFree, size |-> m[t].size]
    BY DEF WellFormed
  <2>2. h[t] \in StartTag /\ h[t].size = m[t].size /\ h[t].isFree = m[t].isFree
    <3>1. CASE \E i \in 0 .. n : t = L[i]
      BY <3>1, <1>1
    <3>2. CASE \A i \in 0 .. n : t # L[i]
      BY <3>2, <1>1, <2>1
    <3> QED BY <3>1, <3>2
  <2>3. /\ EndOf(m, t) \in Address /\ Cells(m, t) \subseteq Address
        /\ EndOf(m, t) \notin S /\ EndOf(m, t) # Head
        /\ Head \notin Cells(m, t)
        /\ \A u \in S : u \notin Cells(m, t)
    BY TagsApart
  <2>4. h[EndOf(m, t)] = m[EndOf(m, t)]
    BY <2>3, <1>1, <1>2
  <2>5. \A c \in Cells(m, t) : h[c] = m[c]
    BY <2>3, <1>1, <1>2
  <2> QED BY <2>1, <2>2, <2>4, <2>5
<1>5. /\ WellFormed(h, S)
      /\ \A s \in S : EndOf(h, s) = EndOf(m, s) /\ Behind(h, s) = Behind(m, s)
  BY <1>1, <1>3, <1>4, SizesKept
<1>6. h[L[k]] = m[L[k]]
  <2>1. /\ \A i, j \in 0 .. n : L[i] = L[j] => i = j
        /\ k \in 0 .. n /\ k # k - 1 /\ k # k + 1
    BY <1>2 DEF ListOK
  <2>2. /\ h[L[k]] \in StartTag /\ m[L[k]] \in StartTag
        /\ h[L[k]].isFree = m[L[k]].isFree /\ h[L[k]].size = m[L[k]].size
        /\ h[L[k]].next = m[L[k]].next /\ h[L[k]].prev = m[L[k]].prev
    BY <1>1, <1>2, <2>1
  <2> QED BY <2>2 DEF StartTag
<1>7. /\ WellFormed(h, S)
      /\ h[L[k]] = m[L[k]]
      /\ \A t \in S : /\ h[t].size = m[t].size /\ h[t].isFree = m[t].isFree
                      /\ EndOf(h, t) = EndOf(m, t) /\ Behind(h, t) = Behind(m, t)
                      /\ \A c \in Cells(m, t) : h[c] = m[c]
  BY <1>4, <1>5, <1>6
<1> QED BY <1>7 DEF h

(* JoinRight makes the memory consistent again where s may be followed by a *)
(* free segment.                                                           *)
LEMMA RightJoined ==
  ASSUME NEW m, NEW S, NEW L, NEW n, NEW s \in S, m[s].isFree = TRUE,
         WellFormed(m, S), ListOK(m, S, L, n, {}), Coalesced(m, S, {s})
  PROVE  LET g == JoinRight(m, s, EndOf(m, s)) IN
         \E T, M, k : Consistent(g, T, M, k, {}) /\ SameUse(m, S, g, T)
<1> DEFINE g == JoinRight(m, s, EndOf(m, s))
           r == Behind(m, s)
<1>1. Laid(m, S)
  BY LaidOut
<1>2. /\ EndOf(m, s) \in Nat /\ r = EndOf(m, s) + EndSize /\ r \in Nat
      /\ r \in S \/ r = MemSize
      /\ r > s /\ s \in Nat
  BY <1>1, TagAssumption DEF Laid
<1>3. r \in S => HasRight(EndOf(m, s))
  BY <1>1, <1>2, TagAssumption DEF Laid, HasRight
<1>4. r \notin S => ~HasRight(EndOf(m, s))
  BY <1>1, <1>2, TagAssumption DEF Laid, HasRight
<1>5. g = IF HasRight(EndOf(m, s)) /\ m[r].isFree
          THEN Grow(Unlink(m, r), s, EndSize + StartSize + m[r].size, EndOf(m, r))
          ELSE m
  BY <1>2 DEF JoinRight
<1> HIDE DEF g, r
<1>6. CASE r \in S /\ m[r].isFree
  <2>1. r \in Listed(m, S, {})
    BY <1>6 DEF Listed
  <2>2. PICK k \in 1 .. n : L[k] = r
    BY <2>1 DEF ListOK
  <2> DEFINE h == Unlink(m, r)
  <2>3. /\ WellFormed(h, S)
        /\ h[r] = m[r]
        /\ \A t \in S : /\ h[t].size = m[t].size /\ h[t].isFree = m[t].isFree
                        /\ EndOf(h, t) = EndOf(m, t) /\ Behind(h, t) = Behind(m, t)
                        /\ \A c \in Cells(m, t) : h[c] = m[c]
    BY <2>2, Unlinked
  <2>4. \A i \in 0 .. n :
           /\ h[L[i]].next = IF i = k - 1 THEN m[L[k]].next ELSE m[L[i]].next
           /\ h[L[i]].prev = IF i = k + 1 THEN m[L[k]].prev ELSE m[L[i]].prev
    BY <2>2, UnlinkSets
  <2> DEFINE count == EndSize + StartSize + m[r].size
  <2>5. g = Grow(h, s, count, EndOf(h, r))
    BY <1>3, <1>5, <1>6, <2>3
  <2>6. count = h[r].size + EndSize + StartSize
    BY <2>3, <1>1, <1>6, TagAssumption DEF Laid
  <2>7. r = Behind(h, s) /\ h[s].isFree = TRUE
    BY <2>3 DEF r
  <2>8. h[r].isFree = TRUE
    BY <1>6, <2>3 DEF WellFormed, StartTag
  <2> HIDE DEF h, count
  <2>9. Joined(h, S, g, s, r)
    BY <1>6, <2>3, <2>5, <2>6, <2>7, <2>8, GrowJoins
  <2>10. \A t \in S \ {r} : g[t].isFree = m[t].isFree
    BY <2>3, <2>9 DEF Joined
  <2>11. Listed(g, S \ {r}, {}) = Listed(m, S, {}) \ {r}
    BY <2>10 DEF Listed
  <2>12. Bypassed(m, g, L, n, k)
    <3> SUFFICES ASSUME NEW i \in 0 .. n, i # k
                 PROVE  g[L[i]].next = h[L[i]].next /\ g[L[i]].prev = h[L[i]].prev
      BY <2>4 DEF Bypassed
    <3>1. /\ n \in Nat /\ L[0] = Head
          /\ \A j \in 0 .. n : j = 0 \/ L[j] \in S
      BY ListTags
    <3>2. L[i] # r
      BY <2>2, <3>1 DEF ListOK
    <3>3. L[i] = Head \/ L[i] \in S \ {r}
      BY <3>1, <3>2
    <3> QED BY <3>3, <2>9 DEF Joined
  <2>13. ListOK(g, S \ {r}, CutOut(L, n, k), n - 1, {})
    <3>1. Listed(g, S \ {r}, {}) = Listed(m, S, {}) \ {L[k]}
      BY <2>2, <2>11
    <3> QED BY <2>12, <3>1, ListShrinks
  <2>14. Coalesced(g, S \ {r}, {})
    <3> SUFFICES ASSUME NEW t \in S \ {r}, g[t].isFree, Behind(g, t) \in S \ {r},
                        g[Behind(g, t)].isFree
                 PROVE  FALSE
      BY DEF Coalesced
    <3>1. m[t].isFree /\ m[Behind(g, t)].isFree
      BY <2>10
    <3>2. CASE t = s
      <4>1. Behind(g, t) = Behind(m, r)
        BY <3>2, <2>3, <2>9, <1>6 DEF Joined
      <4>2. r \in {s}
        BY <4>1, <3>1, <1>6 DEF Coalesced
      <4> QED BY <4>2, <2>9 DEF Joined
    <3>3. CASE t # s
      <4>1. Behind(g, t) = Behind(m, t)
        BY <3>3, <2>3, <2>9 DEF Joined
      <4> QED BY <4>1, <3>1, <3>3 DEF Coalesced
    <3> QED BY <3>2, <3>3
  <2>15. SameUse(m, S, g, S \ {r})
    <3>1. Busy(g, S \ {r}) = Busy(m, S)
      BY <2>10, <1>6 DEF Busy
    <3>2. \A t \in Busy(m, S) : t \in S \ {s, r}
      BY <1>6 DEF Busy
    <3>3. SameBlocks(m, g, Busy(m, S))
      <4> SUFFICES ASSUME NEW t \in Busy(m, S)
                   PROVE  g[t].size = m[t].size /\ \A c \in Cells(m, t) : g[c] = m[c]
        BY DEF SameBlocks
      <4>1. Cells(h, t) = Cells(m, t)
        BY <3>2, <2>3 DEF Cells
      <4> QED BY <4>1, <3>2, <2>3, <2>9 DEF SameBlocks, Joined
    <3> QED BY <3>1, <3>3 DEF SameUse
  <2>16. Consistent(g, S \ {r}, CutOut(L, n, k), n - 1, {})
    BY <2>9, <2>13, <2>14 DEF Consistent, Joined
  <2> QED BY <2>15, <2>16 DEF g
<1>7. CASE ~(r \in S /\ m[r].isFree)
  <2>1. g = m
    BY <1>4, <1>5, <1>7
  <2>2. Coalesced(m, S, {})
    BY <1>7 DEF Coalesced, r
  <2>3. Consistent(m, S, L, n, {})
    BY <2>2 DEF Consistent
  <2>4. SameUse(m, S, m, S)
    BY DEF SameUse, SameBlocks
  <2> QED BY <2>1, <2>3, <2>4 DEF g
<1> QED BY <1>6, <1>7

-----------------------------------------------------------------------------
(* All the tags are the same; what may differ lies in the data of s. *)
TagsKept(m, S, g) ==
  /\ g[Head] = m[Head]
  /\ \A t \in S : /\ g[t] = m[t]
                  /\ EndOf(g, t) = EndOf(m, t) /\ Behind(g, t) = Behind(m, t)

DataWritten(m, S, g, s) ==
  /\ DOMAIN g = Address
  /\ s \in S
  /\ \A c \in Address : c \notin Cells(m, s) => g[c] = m[c]

LEMMA DataKept ==
  ASSUME NEW m, NEW S, WellFormed(m, S), NEW g, NEW s, DataWritten(m, S, g, s)
  PROVE  /\ WellFormed(g, S)
         /\ TagsKept(m, S, g)
         /\ SameBlocks(m, g, S \ {s})
<1>1. /\ s \in S /\ DOMAIN g = Address
      /\ \A c \in Address : c \notin Cells(m, s) => g[c] = m[c]
  BY DEF DataWritten
<1>2. Head \notin Cells(m, s) /\ Head \in Address
  BY <1>1, TagsApart, TagAssumption DEF Head, Address
<1>3. g[Head] = m[Head]
  BY <1>1, <1>2
<1>4. \A t \in S : t \in Address /\ t \notin Cells(m, s)
                   /\ EndOf(m, t) \in Address /\ EndOf(m, t) \notin Cells(m, s)
  BY <1>1, TagsApart DEF WellFormed
<1>5. \A t \in S : g[t] = m[t] /\ g[EndOf(m, t)] = m[EndOf(m, t)]
  BY <1>1, <1>4
<1>6. \A t \in S : /\ g[t] \in StartTag
                   /\ g[t].size = m[t].size
                   /\ g[EndOf(m, t)] = [isFree |-> g[t].isFree, size |-> g[t].size]
  BY <1>5 DEF WellFormed
<1>7. g[Head] \in StartTag
  BY <1>3 DEF WellFormed
<1>8. /\ WellFormed(g, S)
      /\ \A t \in S : EndOf(g, t) = EndOf(m, t) /\ Behind(g, t) = Behind(m, t)
  BY <1>1, <1>6, <1>7, SizesKept
<1>9. SameBlocks(m, g, S \ {s})
  <2> SUFFICES ASSUME NEW t \in S \ {s}
               PROVE  g[t].size = m[t].size /\ \A c \in Cells(m, t) : g[c] = m[c]
    BY DEF SameBlocks
  <2>1. Cells(m, t) \subseteq Address
    BY TagsApart
  <2>2. Cells(m, t) \cap Cells(m, s) = {}
    BY <1>1, TagsApart
  <2> QED BY <2>1, <2>2, <1>1, <1>5
<1> QED BY <1>3, <1>5, <1>8, <1>9 DEF TagsKept

LEMMA ConsistentKept ==
  ASSUME NEW m, NEW S, NEW L, NEW n, NEW X, Consistent(m, S, L, n, X),
         NEW g, WellFormed(g, S), TagsKept(m, S, g)
  PROVE  Consistent(g, S, L, n, X) /\ Busy(g, S) = Busy(m, S)
<1>1. WellFormed(m, S) /\ ListOK(m, S, L, n, X) /\ Coalesced(m, S, X)
  BY DEF Consistent
<1>2. /\ g[Head] = m[Head]
      /\ \A t \in S : g[t] = m[t] /\ Behind(g, t) = Behind(m, t)
  BY DEF TagsKept
<1>3. Listed(g, S, X) = Listed(m, S, X)
  BY <1>2 DEF Listed
<1>4. \A i \in 0 .. n : g[L[i]].next = m[L[i]].next /\ g[L[i]].prev = m[L[i]].prev
  BY <1>1, <1>2, ListTags
<1>5. ListOK(g, S, L, n, X)
  BY <1>1, <1>3, <1>4, ListKept
<1>6. Coalesced(g, S, X)
  BY <1>1, <1>2 DEF Coalesced
<1>7. Busy(g, S) = Busy(m, S)
  BY <1>2 DEF Busy
<1> QED BY <1>5, <1>6, <1>7 DEF Consistent

(* What is kept by two steps is kept by both. *)
LEMMA SameBlocksTwice ==
  ASSUME NEW m, NEW B, NEW h, SameBlocks(m, h, B),
         NEW C, NEW g, SameBlocks(h, g, C), NEW D, D \subseteq B, D \subseteq C
  PROVE  SameBlocks(m, g, D)
<1>1. \A t \in D : h[t].size = m[t].size /\ \A c \in Cells(m, t) : h[c] = m[c]
  BY DEF SameBlocks
<1>2. \A t \in D : g[t].size = h[t].size /\ \A c \in Cells(h, t) : g[c] = h[c]
  BY DEF SameBlocks
<1>3. \A t \in D : Cells(h, t) = Cells(m, t)
  BY <1>1 DEF Cells, EndOf
<1> QED BY <1>1, <1>2, <1>3 DEF SameBlocks

-----------------------------------------------------------------------------
(* What Free does first: it marks both tags of s; the data is forgotten. *)
Marked(m, s) ==
  Forget([m EXCEPT ![s].isFree = TRUE, ![EndOf(m, s)].isFree = TRUE],
         DataOf(s), EndOf(m, s) - 1)

OnlyMarked(m, S, g, s) ==
  /\ WellFormed(g, S)
  /\ g[s].isFree = TRUE
  /\ g[Head] = m[Head]
  /\ \A t \in S : /\ g[t].size = m[t].size
                  /\ EndOf(g, t) = EndOf(m, t) /\ Behind(g, t) = Behind(m, t)
  /\ \A t \in S \ {s} : g[t] = m[t]
  /\ SameBlocks(m, g, S \ {s})

LEMMA MarkedFree ==
  ASSUME NEW m, NEW S, WellFormed(m, S), NEW s \in S, NEW g, g = Marked(m, s)
  PROVE  OnlyMarked(m, S, g, s)
<1> DEFINE e == EndOf(m, s)
           f == [m EXCEPT ![s].isFree = TRUE, ![e].isFree = TRUE]
<1>1. /\ s \in Address /\ m[s] \in StartTag /\ DOMAIN m = Address
      /\ m[e] = [isFree |-> m[s].isFree, size |-> m[s].size]
      /\ m[Head] \in StartTag
  BY DEF WellFormed
<1>2. /\ Head \notin S /\ e # Head /\ Head \notin Cells(m, s)
      /\ e \notin S /\ e \in Address /\ Cells(m, s) \subseteq Address
      /\ \A t \in S : t # s => EndOf(m, t) # e
      /\ \A t \in S : t \notin Cells(m, s) /\ EndOf(m, t) \notin Cells(m, s)
      /\ \A t \in S : t # s => Cells(m, t) \cap Cells(m, s) = {}
  BY TagsApart
<1>3. \A t \in S : /\ t \in Address /\ EndOf(m, t) \in Address
                   /\ EndOf(m, t) \notin S /\ Cells(m, t) \subseteq Address
                   /\ s \notin Cells(m, t) /\ e \notin Cells(m, t)
  BY TagsApart DEF WellFormed
<1>4. g = Forget(f, DataOf(s), e - 1)
  BY DEF Marked
<1> HIDE DEF e
<1>5. s # e
  BY <1>2
<1>6. /\ DOMAIN f = Address
      /\ f[s] = [m[s] EXCEPT !.isFree = TRUE]
      /\ f[e] = [m[e] EXCEPT !.isFree = TRUE]
      /\ \A c \in Address : c # s /\ c # e => f[c] = m[c]
  BY <1>1, <1>2, <1>5
<1> HIDE DEF f
<1>7. /\ DOMAIN g = Address
      /\ \A c \in Address : c \notin Cells(m, s) => g[c] = f[c]
  BY <1>4, <1>6 DEF Forget, Cells, e
<1>8. /\ f[s] \in StartTag /\ f[s].isFree = TRUE /\ f[s].size = m[s].size
  BY <1>1, <1>6, FlagSet
<1>9. f[e] = [isFree |-> TRUE, size |-> m[s].size]
  <2>1. f[e] = [[isFree |-> m[s].isFree, size |-> m[s].size] EXCEPT !.isFree = TRUE]
    BY <1>1, <1>6
  <2> QED BY <2>1
<1>10. g[s] = f[s] /\ g[e] = f[e]
  BY <1>1, <1>2, <1>7 DEF e
<1>11. Head \in Address
  BY TagAssumption DEF Head, Address
<1>12. g[Head] = m[Head]
  BY <1>2, <1>6, <1>7, <1>11
<1>13. ASSUME NEW t \in S \ {s}
       PROVE  /\ g[t] = m[t] /\ g[EndOf(m, t)] = m[EndOf(m, t)]
              /\ \A c \in Cells(m, t) : g[c] = m[c]
  <2>1. /\ t \in Address /\ t # s /\ t # e /\ t \notin Cells(m, s)
        /\ EndOf(m, t) \in Address /\ EndOf(m, t) # s /\ EndOf(m, t) # e
        /\ EndOf(m, t) \notin Cells(m, s)
    BY <1>2, <1>3
  <2>2. \A c \in Cells(m, t) : c \in Address /\ c # s /\ c # e /\ c \notin Cells(m, s)
    BY <1>2, <1>3
  <2> QED BY <2>1, <2>2, <1>6, <1>7
<1>14. \A t \in S : /\ g[t] \in StartTag
                    /\ g[t].size = m[t].size
                    /\ g[EndOf(m, t)] = [isFree |-> g[t].isFree, size |-> g[t].size]
  <2>1. \A t \in S \ {s} : /\ g[t] \in StartTag
                    /\ g[t].size = m[t].size
                    /\ g[EndOf(m, t)] = [isFree |-> g[t].isFree, size |-> g[t].size]
    BY <1>13 DEF WellFormed
  <2>2. g[e] = [isFree |-> g[s].isFree, size |-> g[s].size]
    BY <1>8, <1>9, <1>10
  <2>3. g[EndOf(m, s)] = [isFree |-> g[s].isFree, size |-> g[s].size]
    BY <2>2 DEF e
  <2>4. g[s] \in StartTag /\ g[s].size = m[s].size
    BY <1>8, <1>10
  <2> QED BY <2>1, <2>3, <2>4
<1>15. g[Head] \in StartTag
  BY <1>1, <1>12
<1>16. /\ WellFormed(g, S)
       /\ \A t \in S : EndOf(g, t) = EndOf(m, t) /\ Behind(g, t) = Behind(m, t)
  BY <1>7, <1>14, <1>15, SizesKept
<1>17. SameBlocks(m, g, S \ {s})
  BY <1>13, <1>14 DEF SameBlocks
<1>18. \A t \in S : /\ g[t].size = m[t].size
                    /\ EndOf(g, t) = EndOf(m, t) /\ Behind(g, t) = Behind(m, t)
  BY <1>14, <1>16
<1>19. g[s].isFree = TRUE /\ \A t \in S \ {s} : g[t] = m[t]
  BY <1>8, <1>10, <1>13
<1> QED BY <1>12, <1>16, <1>17, <1>18, <1>19 DEF OnlyMarked

(* s is free now, and the other busy segments are as before. *)
Freed(m, S, g, T, s) ==
  /\ T \subseteq S
  /\ Busy(g, T) = Busy(m, S) \ {s}
  /\ SameBlocks(m, g, Busy(m, S) \ {s})

(* If the segment on its left is free, s becomes a part of it: *)
LEMMA JoinedLeft ==
  ASSUME NEW m, NEW S, NEW L, NEW n, Consistent(m, S, L, n, {}),
         NEW s \in Busy(m, S), NEW h, h = Marked(m, s), HasFreeLeft(h, s)
  PROVE  LET e == EndOf(m, s)
             r == LeftOf(h, s)
             g == JoinRight(Grow(h, r, m[s].size + EndSize + StartSize, e), r, e)
         IN  \E T, M, k : /\ Consistent(g, T, M, k, {})
                          /\ Freed(m, S, g, T, s) /\ T \subseteq S \ {s}
<1> DEFINE e == EndOf(m, s)
           r == LeftOf(h, s)
           count == m[s].size + EndSize + StartSize
           f == Grow(h, r, count, e)
           g == JoinRight(f, r, e)
<1>1. WellFormed(m, S) /\ ListOK(m, S, L, n, {}) /\ Coalesced(m, S, {})
  BY DEF Consistent
<1>2. s \in S /\ ~ m[s].isFree
  BY DEF Busy
<1>3. OnlyMarked(m, S, h, s)
  BY <1>1, <1>2, MarkedFree
<1>4. /\ WellFormed(h, S)
      /\ h[s].isFree = TRUE
      /\ h[Head] = m[Head]
      /\ \A t \in S : /\ h[t].size = m[t].size
                      /\ EndOf(h, t) = EndOf(m, t) /\ Behind(h, t) = Behind(m, t)
      /\ \A t \in S \ {s} : h[t] = m[t]
      /\ SameBlocks(m, h, S \ {s})
  BY <1>3 DEF OnlyMarked
<1>5. Laid(h, S)
  BY <1>4, LaidOut
<1>6. r \in S /\ r # s /\ h[r].isFree = TRUE /\ Behind(h, r) = s
  <2>1. PICK q \in S : Behind(h, q) = s
    BY <1>2, <1>4 DEF HasFreeLeft, WellFormed
  <2>2. /\ q \in Nat /\ h[q].size \in Nat
        /\ EndOf(h, q) = q + StartSize + h[q].size
        /\ s = q + StartSize + h[q].size + EndSize
    BY <1>5, <2>1 DEF Laid
  <2>3. s - EndSize = EndOf(h, q)
    BY <2>2, TagAssumption
  <2>4. /\ h[s - EndSize] = [isFree |-> h[q].isFree, size |-> h[q].size]
        /\ h[q] \in StartTag
    BY <1>4, <2>3 DEF WellFormed
  <2>5. h[q].isFree = TRUE /\ h[s - EndSize].size = h[q].size
    BY <2>4 DEF HasFreeLeft, StartTag
  <2>6. r = q
    BY <2>2, <2>5, TagAssumption DEF LeftOf
  <2>7. q # s
    BY <2>2, TagAssumption
  <2> QED BY <2>1, <2>5, <2>6, <2>7
<1> HIDE DEF r
<1>7. e = EndOf(h, s) /\ count = h[s].size + EndSize + StartSize
  BY <1>2, <1>4
<1>8. f = Grow(h, r, count, EndOf(h, s)) /\ s = Behind(h, r)
  BY <1>6, <1>7
<1> HIDE DEF f, e, count
<1>9. Joined(h, S, f, r, s)
  BY <1>2, <1>4, <1>6, <1>7, <1>8, GrowJoins
<1>10. /\ WellFormed(f, S \ {s})
       /\ EndOf(f, r) = EndOf(h, s)
       /\ Behind(f, r) = Behind(h, s)
       /\ \A t \in S \ {s, r} : Behind(f, t) = Behind(h, t) /\ f[t] = h[t]
       /\ f[r].isFree = TRUE /\ f[r].next = h[r].next /\ f[r].prev = h[r].prev
       /\ f[Head] = h[Head]
       /\ SameBlocks(h, f, S \ {r, s})
  BY <1>9 DEF Joined
<1>11. Listed(f, S \ {s}, {}) = Listed(m, S, {})
  <2>1. \A t \in S \ {s, r} : f[t] = m[t]
    BY <1>4, <1>10
  <2>2. m[r].isFree = TRUE
    BY <1>4, <1>6
  <2> QED BY <1>2, <1>10, <2>1, <2>2 DEF Listed
<1>12. \A i \in 0 .. n : f[L[i]].next = m[L[i]].next /\ f[L[i]].prev = m[L[i]].prev
  <2> SUFFICES ASSUME NEW i \in 0 .. n
               PROVE  f[L[i]].next = m[L[i]].next /\ f[L[i]].prev = m[L[i]].prev
    OBVIOUS
  <2>1. n \in Nat /\ L[0] = Head /\ \A j \in 1 .. n : L[j] \in S /\ m[L[j]].isFree
    BY <1>1, ListTags
  <2>2. i = 0 \/ i \in 1 .. n
    BY <2>1
  <2>3. L[i] = Head \/ L[i] \in S \ {s}
    BY <1>2, <2>1, <2>2
  <2>4. L[i] = r => f[L[i]].next = h[L[i]].next /\ f[L[i]].prev = h[L[i]].prev
    BY <1>10
  <2>5. L[i] # r => f[L[i]] = h[L[i]]
    BY <1>10, <2>3
  <2>6. h[L[i]] = m[L[i]]
    BY <1>4, <2>3
  <2> QED BY <2>4, <2>5, <2>6
<1>13. ListOK(f, S \ {s}, L, n, {})
  BY <1>1, <1>11, <1>12, ListKept
<1>14. Coalesced(f, S \ {s}, {r})
  <2> SUFFICES ASSUME NEW t \in S \ {s}, f[t].isFree, Behind(f, t) \in S \ {s},
                      f[Behind(f, t)].isFree, t # r
               PROVE  FALSE
    BY DEF Coalesced
  <2>1. Behind(f, t) = Behind(m, t) /\ m[t].isFree
    BY <1>4, <1>10
  <2>2. m[Behind(m, t)].isFree
    BY <2>1, <1>4, <1>6, <1>10
  <2> QED BY <2>1, <2>2, <1>1 DEF Coalesced
<1>15. r \in S \ {s}
  BY <1>6
<1>16. \E T, M, k : Consistent(g, T, M, k, {}) /\ SameUse(f, S \ {s}, g, T)
  <2>1. \E T, M, k : Consistent(JoinRight(f, r, EndOf(f, r)), T, M, k, {})
                     /\ SameUse(f, S \ {s}, JoinRight(f, r, EndOf(f, r)), T)
    BY <1>10, <1>13, <1>14, <1>15, RightJoined
  <2>2. EndOf(f, r) = e
    BY <1>7, <1>10
  <2> QED BY <2>1, <2>2
<1> HIDE DEF g
<1>17. PICK T, M, k : Consistent(g, T, M, k, {}) /\ SameUse(f, S \ {s}, g, T)
  BY <1>16
<1>18. Busy(f, S \ {s}) = Busy(m, S) \ {s}
  BY <1>4, <1>6, <1>10 DEF Busy
<1>19. SameBlocks(m, g, Busy(m, S) \ {s})
  <2>1. Busy(m, S) \ {s} \subseteq S \ {r, s}
    BY <1>4, <1>6 DEF Busy
  <2>2. Busy(m, S) \ {s} \subseteq S \ {s}
    BY DEF Busy
  <2>3. SameBlocks(f, g, Busy(m, S) \ {s})
    BY <1>17, <1>18 DEF SameUse
  <2>4. SameBlocks(m, f, Busy(m, S) \ {s})
    BY <1>4, <1>10, <2>1, <2>2, SameBlocksTwice
  <2> QED BY <2>3, <2>4, SameBlocksTwice
<1>20. Freed(m, S, g, T, s) /\ T \subseteq S \ {s}
  BY <1>17, <1>18, <1>19 DEF Freed, SameUse
<1>21. \E U, N, j : /\ Consistent(g, U, N, j, {})
                    /\ Freed(m, S, g, U, s) /\ U \subseteq S \ {s}
  BY <1>17, <1>20
<1> QED BY <1>21 DEF g, f, e, r, count

(* and otherwise it waits to be appended to the list. *)
LEMMA NoneLeft ==
  ASSUME NEW m, NEW S, NEW L, NEW n, Consistent(m, S, L, n, {}),
         NEW s \in Busy(m, S), NEW h, h = Marked(m, s), ~ HasFreeLeft(h, s)
  PROVE  /\ Consistent(h, S, L, n, {s})
         /\ Freed(m, S, h, S, s)
         /\ s \in S /\ h[s].isFree
<1>1. WellFormed(m, S) /\ ListOK(m, S, L, n, {}) /\ Coalesced(m, S, {})
  BY DEF Consistent
<1>2. s \in S /\ ~ m[s].isFree
  BY DEF Busy
<1>3. OnlyMarked(m, S, h, s)
  BY <1>1, <1>2, MarkedFree
<1>4. /\ WellFormed(h, S)
      /\ h[s].isFree = TRUE
      /\ h[Head] = m[Head]
      /\ \A t \in S : /\ h[t].size = m[t].size
                      /\ EndOf(h, t) = EndOf(m, t) /\ Behind(h, t) = Behind(m, t)
      /\ \A t \in S \ {s} : h[t] = m[t]
      /\ SameBlocks(m, h, S \ {s})
  BY <1>3 DEF OnlyMarked
<1>5. Laid(h, S)
  BY <1>4, LaidOut
<1>6. Listed(h, S, {s}) = Listed(m, S, {})
  BY <1>2, <1>4 DEF Listed
<1>7. \A i \in 0 .. n : h[L[i]].next = m[L[i]].next /\ h[L[i]].prev = m[L[i]].prev
  <2> SUFFICES ASSUME NEW i \in 0 .. n
               PROVE  h[L[i]] = m[L[i]]
    OBVIOUS
  <2>1. n \in Nat /\ L[0] = Head /\ \A j \in 1 .. n : L[j] \in S /\ m[L[j]].isFree
    BY <1>1, ListTags
  <2>2. i = 0 \/ i \in 1 .. n
    BY <2>1
  <2>3. L[i] = Head \/ L[i] \in S \ {s}
    BY <1>2, <2>1, <2>2
  <2> QED BY <1>4, <2>3
<1>8. ListOK(h, S, L, n, {s})
  BY <1>1, <1>6, <1>7, ListKept
<1>9. Coalesced(h, S, {s})
  <2> SUFFICES ASSUME NEW t \in S, h[t].isFree, Behind(h, t) \in S,
                      h[Behind(h, t)].isFree, t # s
               PROVE  FALSE
    BY DEF Coalesced
  <2>1. Behind(h, t) = Behind(m, t) /\ m[t].isFree
    BY <1>4
  <2>2. CASE Behind(h, t) = s
    <3>1. /\ t \in Nat /\ t >= StartSize /\ h[t].size \in Nat /\ EndOf(h, t) \in Nat
          /\ s > t /\ s = EndOf(h, t) + EndSize
      BY <1>5, <2>2, TagAssumption DEF Laid, Behind
    <3>2. s - EndSize = EndOf(h, t) /\ s # FirstSegment
      BY <3>1, TagAssumption DEF FirstSegment
    <3>3. h[s - EndSize] = [isFree |-> h[t].isFree, size |-> h[t].size]
      BY <1>4, <3>2 DEF WellFormed
    <3> QED BY <3>2, <3>3 DEF HasFreeLeft
  <2>3. CASE Behind(h, t) # s
    <3>1. m[Behind(m, t)].isFree
      BY <2>1, <2>3, <1>4
    <3> QED BY <2>1, <3>1, <1>1 DEF Coalesced
  <2> QED BY <2>2, <2>3
<1>10. Freed(m, S, h, S, s)
  <2>1. Busy(h, S) = Busy(m, S) \ {s}
    BY <1>4 DEF Busy
  <2>2. SameBlocks(m, h, Busy(m, S) \ {s})
    BY <1>4 DEF SameBlocks, Busy
  <2> QED BY <2>1, <2>2 DEF Freed
<1> QED BY <1>2, <1>4, <1>8, <1>9, <1>10 DEF Consistent

(* What the head of a Free (also that of ReAlloc) leaves behind. *)
Ended(m, S, s, g, c) ==
  /\ c = NoCall
  /\ \E T, M, k : /\ Consistent(g, T, M, k, {})
                  /\ Freed(m, S, g, T, s) /\ T \subseteq S \ {s}

ToAppend(m, S, L, n, s, g, c) ==
  /\ c = [NoCall EXCEPT !.pc = "free", !.block = s]
  /\ Consistent(g, S, L, n, {s})
  /\ Freed(m, S, g, S, s)
  /\ s \in S /\ g[s].isFree
  /\ s = FirstSegment \/ \E r \in S \ {s} : Behind(m, r) = s /\ r < s /\ ~ m[r].isFree

LEMMA StartFreeDoes ==
  ASSUME NEW m, NEW S, NEW L, NEW n, Consistent(m, S, L, n, {}),
         NEW p, p \in Int, p - StartSize \in Busy(m, S), StartFree(m, p)
  PROVE  \/ Ended(m, S, p - StartSize, memory', call')
         \/ ToAppend(m, S, L, n, p - StartSize, memory', call')
<1> DEFINE s == p - StartSize
           h == Marked(m, s)
           e == EndOf(m, s)
           left == LeftOf(h, s)
<1>1. p = DataOf(s)
  BY TagAssumption DEF DataOf
<1>2. IF HasFreeLeft(h, s)
      THEN /\ memory' = JoinRight(Grow(h, left, m[s].size + EndSize + StartSize, e), left, e)
           /\ call' = NoCall
      ELSE /\ memory' = h
           /\ call' = [NoCall EXCEPT !.pc = "free", !.block = s]
  BY <1>1 DEF StartFree, Marked
<1> HIDE DEF h
<1>3. CASE HasFreeLeft(h, s)
  <2>1. Ended(m, S, s, memory', call')
    BY <1>2, <1>3, JoinedLeft DEF h, Ended
  <2> QED BY <2>1
<1>4. CASE ~ HasFreeLeft(h, s)
  <2> HIDE DEF s
  <2>1. s \in Busy(m, S) /\ memory' = h /\ call' = [NoCall EXCEPT !.pc = "free", !.block = s]
    BY <1>2, <1>4 DEF s
  <2>2. /\ Consistent(h, S, L, n, {s})
        /\ Freed(m, S, h, S, s)
        /\ s \in S /\ h[s].isFree
    BY <1>4, <2>1, NoneLeft DEF h
  <2>3. s = FirstSegment \/ \E r \in S \ {s} : Behind(m, r) = s /\ r < s /\ ~ m[r].isFree
    <3> SUFFICES ASSUME s # FirstSegment
                 PROVE  \E r \in S \ {s} : Behind(m, r) = s /\ r < s /\ ~ m[r].isFree
      OBVIOUS
    <3>1. WellFormed(m, S) /\ Laid(m, S)
      BY LaidOut DEF Consistent
    <3>2. PICK r \in S : Behind(m, r) = s
      BY <2>2, <3>1 DEF WellFormed
    <3>3. r \in Nat /\ s > r /\ EndOf(m, r) \in Nat /\ s = EndOf(m, r) + EndSize
      BY <3>1, <3>2, TagAssumption DEF Laid, Behind
    <3>4. OnlyMarked(m, S, h, s)
      BY <2>2, <3>1, MarkedFree DEF h
    <3>5. WellFormed(h, S) /\ h[r] = m[r] /\ EndOf(h, r) = EndOf(m, r)
      BY <3>2, <3>3, <3>4 DEF OnlyMarked
    <3>6. s - EndSize = EndOf(h, r)
      BY <3>3, <3>5, TagAssumption
    <3>7. h[s - EndSize] = [isFree |-> h[r].isFree, size |-> h[r].size]
      BY <3>2, <3>5, <3>6 DEF WellFormed
    <3>8. ~ m[r].isFree
      BY <1>4, <3>5, <3>7 DEF HasFreeLeft
    <3> QED BY <3>2, <3>3, <3>8
  <2>4. ToAppend(m, S, L, n, s, memory', call')
    BY <2>1, <2>2, <2>3 DEF ToAppend
  <2> QED BY <2>4 DEF s
<1> QED BY <1>3, <1>4

-----------------------------------------------------------------------------
(* What is written between the first cell of a segment and the segment      *)
(* behind it touches no other segment.                                      *)
WrittenWithin(m, g, s) ==
  /\ DOMAIN g = Address
  /\ \A c \in Address : c \notin s .. Behind(m, s) - 1 => g[c] = m[c]

OthersSame(m, S, g, s) ==
  /\ g[Head] = m[Head]
  /\ \A t \in S \ {s} : g[t] = m[t] /\ g[EndOf(m, t)] = m[EndOf(m, t)]
  /\ SameBlocks(m, g, S \ {s})

LEMMA OthersKept ==
  ASSUME NEW m, NEW S, WellFormed(m, S), NEW s \in S, NEW g, WrittenWithin(m, g, s)
  PROVE  OthersSame(m, S, g, s)
<1>1. Laid(m, S)
  BY LaidOut
<1>2. /\ DOMAIN g = Address
      /\ \A c \in Address : c \notin s .. Behind(m, s) - 1 => g[c] = m[c]
  BY DEF WrittenWithin
<1>3. s \in Nat /\ s >= StartSize /\ Behind(m, s) \in Nat
  BY <1>1 DEF Laid
<1>4. Head \in Address /\ Head \notin s .. Behind(m, s) - 1
  BY <1>3, TagAssumption DEF Head, Address
<1>5. ASSUME NEW t \in S \ {s}
      PROVE  /\ t \in Address /\ t \notin s .. Behind(m, s) - 1
             /\ EndOf(m, t) \in Address /\ EndOf(m, t) \notin s .. Behind(m, s) - 1
             /\ \A c \in Cells(m, t) : c \in Address /\ c \notin s .. Behind(m, s) - 1
  <2>1. /\ t \in Nat /\ m[t].size \in Nat /\ EndOf(m, t) = t + StartSize + m[t].size
        /\ Behind(m, t) = t + StartSize + m[t].size + EndSize
        /\ Behind(m, t) <= MemSize
    BY <1>1 DEF Laid
  <2>2. Behind(m, t) <= s \/ t >= Behind(m, s)
    BY <1>1, <1>3, <2>1 DEF Laid
  <2> QED BY <1>3, <2>1, <2>2, TagAssumption DEF Address, DataOf, Cells
<1>6. \A t \in S \ {s} : /\ g[t] = m[t] /\ g[EndOf(m, t)] = m[EndOf(m, t)]
                         /\ \A c \in Cells(m, t) : g[c] = m[c]
  BY <1>2, <1>5
<1>7. g[Head] = m[Head]
  BY <1>2, <1>4
<1>8. SameBlocks(m, g, S \ {s})
  BY <1>6 DEF SameBlocks
<1> QED BY <1>6, <1>7, <1>8 DEF OthersSame

(* What TakePart does to single cells. *)
PartTaken(m, s, size) ==
  LET OffsetForAlloc == m[s].size - (size + StartSize)
      NewFreeSize    == OffsetForAlloc - EndSize
      start          == DataOf(s) + OffsetForAlloc
      taken == PutStart(m, start,
                 [isFree |-> FALSE, size |-> size, prev |-> Junk, next |-> Junk])
      ended == PutEnd(taken, EndOf(m, s), [isFree |-> FALSE, size |-> size])
      left  == PutEnd(ended, DataOf(s) + NewFreeSize,
                 [isFree |-> TRUE, size |-> NewFreeSize])
  IN  [left EXCEPT ![s].size = NewFreeSize]

LEMMA PutSets ==
  ASSUME NEW m, DOMAIN m = Address, NEW a \in Address, NEW width \in Nat \ {0}, NEW tag
  PROVE  /\ DOMAIN Put(m, a, width, tag) = Address
         /\ Put(m, a, width, tag)[a] = tag
         /\ \A c \in Address : c \notin a .. a + width - 1 => Put(m, a, width, tag)[c] = m[c]
<1> DEFINE g == Put(m, a, width, tag)
<1>1. /\ DOMAIN g = Address
      /\ \A c \in Address : g[c] = IF c = a THEN tag
                      ELSE IF c \in a + 1 .. a + width - 1 THEN Part ELSE m[c]
  BY DEF Put
<1> HIDE DEF g
<1>2. \A c \in Address : c \notin a .. a + width - 1 =>
         c # a /\ c \notin a + 1 .. a + width - 1
  BY DEF Address
<1>3. /\ DOMAIN g = Address
      /\ g[a] = tag
      /\ \A c \in Address : c \notin a .. a + width - 1 => g[c] = m[c]
  BY <1>1, <1>2
<1> QED BY <1>3 DEF g

LEMMA PartTakenSets ==
  ASSUME NEW m, NEW S, WellFormed(m, S), NEW s \in S, NEW size \in Nat,
         m[s].size >= size + StartSize + EndSize + 1,
         NEW rest, rest = m[s].size - (size + StartSize) - EndSize,
         NEW start, start = DataOf(s) + (m[s].size - (size + StartSize)),
         NEW g, g = PartTaken(m, s, size)
  PROVE  /\ WrittenWithin(m, g, s)
         /\ g[s] = [m[s] EXCEPT !.size = rest]
         /\ g[DataOf(s) + rest] = [isFree |-> TRUE, size |-> rest]
         /\ g[start] = [isFree |-> FALSE, size |-> size, prev |-> Junk, next |-> Junk]
         /\ g[EndOf(m, s)] = [isFree |-> FALSE, size |-> size]
<1> DEFINE tag   == [isFree |-> FALSE, size |-> size, prev |-> Junk, next |-> Junk]
           busy  == [isFree |-> FALSE, size |-> size]
           free  == [isFree |-> TRUE, size |-> rest]
           e     == EndOf(m, s)
           a     == DataOf(s) + rest
           taken == Put(m, start, StartSize, tag)
           ended == Put(taken, e, EndSize, busy)
           left  == Put(ended, a, EndSize, free)
<1>1. g = [left EXCEPT ![s].size = rest]
  BY DEF PartTaken, PutStart, PutEnd
<1>2. Laid(m, S) /\ DOMAIN m = Address
  BY LaidOut DEF WellFormed
<1>3. /\ s \in Nat /\ m[s].size \in Nat /\ rest \in Nat /\ rest >= 1
      /\ a = s + StartSize + rest
      /\ start = s + StartSize + rest + EndSize
      /\ e = s + StartSize + rest + EndSize + StartSize + size
      /\ Behind(m, s) = s + StartSize + rest + EndSize + StartSize + size + EndSize
      /\ Behind(m, s) <= MemSize
  BY <1>2, TagAssumption DEF Laid, DataOf
<1>4. s \in Address /\ a \in Address /\ start \in Address /\ e \in Address
  BY <1>3, TagAssumption DEF Address
<1> HIDE DEF tag, busy, free, e, a, taken, ended, left
<1>5. /\ DOMAIN taken = Address
      /\ taken[start] = tag
      /\ \A c \in Address : c \notin start .. start + StartSize - 1 => taken[c] = m[c]
  BY <1>2, <1>4, PutSets, TagAssumption DEF taken
<1>6. /\ DOMAIN ended = Address
      /\ ended[e] = busy
      /\ \A c \in Address : c \notin e .. e + EndSize - 1 => ended[c] = taken[c]
  BY <1>4, <1>5, PutSets, TagAssumption DEF ended
<1>7. /\ DOMAIN left = Address
      /\ left[a] = free
      /\ \A c \in Address : c \notin a .. a + EndSize - 1 => left[c] = ended[c]
  BY <1>4, <1>6, PutSets, TagAssumption DEF left
<1>8. /\ DOMAIN g = Address
      /\ g[s] = [left[s] EXCEPT !.size = rest]
      /\ \A c \in Address : c # s => g[c] = left[c]
  BY <1>1, <1>4, <1>7
<1>9. /\ s \notin start .. start + StartSize - 1 /\ s \notin e .. e + EndSize - 1
      /\ s \notin a .. a + EndSize - 1
      /\ a # s /\ start # s /\ e # s
      /\ start \notin e .. e + EndSize - 1 /\ start \notin a .. a + EndSize - 1
      /\ e \notin a .. a + EndSize - 1
  BY <1>3, TagAssumption
<1>10. g[s] = [m[s] EXCEPT !.size = rest]
  BY <1>4, <1>5, <1>6, <1>7, <1>8, <1>9
<1>11. g[a] = free /\ g[start] = tag /\ g[e] = busy
  BY <1>4, <1>5, <1>6, <1>7, <1>8, <1>9
<1>12. WrittenWithin(m, g, s)
  <2> SUFFICES ASSUME NEW c \in Address, c \notin s .. Behind(m, s) - 1
               PROVE  g[c] = m[c]
    BY <1>8 DEF WrittenWithin
  <2>1. c \in Nat
    BY TagAssumption DEF Address
  <2>2. /\ c # s /\ c \notin start .. start + StartSize - 1
        /\ c \notin e .. e + EndSize - 1 /\ c \notin a .. a + EndSize - 1
    BY <2>1, <1>3, TagAssumption
  <2> QED BY <2>2, <1>5, <1>6, <1>7, <1>8
<1> QED BY <1>10, <1>11, <1>12 DEF tag, busy, free, e, a

(* s is large enough for a block of the size asked for at start. *)
Leaves(m, s, size, start) ==
  /\ m[s].size >= size + StartSize + EndSize + 1
  /\ start = DataOf(s) + (m[s].size - (size + StartSize))

(* A block of the size asked for is taken: a new segment behind s, *)
TookPart(m, S, L, n, g, s, start, size) ==
  /\ Consistent(g, S \cup {start}, L, n, {})
  /\ start \notin S
  /\ Busy(g, S \cup {start}) = Busy(m, S) \cup {start}
  /\ SameBlocks(m, g, Busy(m, S))
  /\ g[start].size = size
  /\ g[s].next = m[s].next

LEMMA TakesPart ==
  ASSUME NEW m, NEW S, NEW L, NEW n, Consistent(m, S, L, n, {}),
         NEW s \in S, m[s].isFree = TRUE, NEW size \in Nat,
         NEW start, Leaves(m, s, size, start),
         NEW g, g = PartTaken(m, s, size)
  PROVE  TookPart(m, S, L, n, g, s, start, size)
<1> DEFINE rest == m[s].size - (size + StartSize) - EndSize
           U    == S \cup {start}
<1>1. WellFormed(m, S) /\ ListOK(m, S, L, n, {}) /\ Coalesced(m, S, {})
  BY DEF Consistent
<1>2. /\ WrittenWithin(m, g, s)
      /\ g[s] = [m[s] EXCEPT !.size = rest]
      /\ g[DataOf(s) + rest] = [isFree |-> TRUE, size |-> rest]
      /\ g[start] = [isFree |-> FALSE, size |-> size, prev |-> Junk, next |-> Junk]
      /\ g[EndOf(m, s)] = [isFree |-> FALSE, size |-> size]
  BY <1>1, PartTakenSets DEF Leaves
<1> HIDE DEF rest
<1>3. /\ g[Head] = m[Head]
      /\ \A t \in S \ {s} : g[t] = m[t] /\ g[EndOf(m, t)] = m[EndOf(m, t)]
      /\ SameBlocks(m, g, S \ {s})
  <2>1. WrittenWithin(m, g, s)
    BY <1>2
  <2>2. OthersSame(m, S, g, s)
    BY <2>1, <1>1, OthersKept
  <2> QED BY <2>2 DEF OthersSame
<1>4. Laid(m, S)
  BY <1>1, LaidOut
<1>5. /\ s \in Nat /\ m[s].size \in Nat /\ rest \in Nat /\ rest \in 0 .. MemSize
      /\ start = DataOf(s) + rest + EndSize
      /\ rest + EndSize + StartSize <= m[s].size
      /\ size = m[s].size - (rest + EndSize + StartSize)
      /\ size \in 0 .. MemSize
  BY <1>4, TagAssumption DEF Laid, DataOf, Leaves, rest
<1>6. m[s] \in StartTag /\ m[Head] \in StartTag /\ DOMAIN g = Address
  BY <1>1, <1>2 DEF WellFormed, WrittenWithin
<1>7. /\ g[s] \in StartTag /\ g[s].isFree = m[s].isFree /\ g[s].size = rest
      /\ g[s].prev = m[s].prev /\ g[s].next = m[s].next
  <2>1. m[s] \in StartTag /\ rest \in 0 .. MemSize /\ g[s] = [m[s] EXCEPT !.size = rest]
    BY <1>2, <1>5, <1>6
  <2> QED BY <2>1, SizeSet
<1>8. m[s].isFree = TRUE
  OBVIOUS
<1>9. g[start] \in StartTag /\ g[start].isFree = FALSE /\ g[start].size = size
  <2>1. [isFree |-> FALSE, size |-> size, prev |-> Junk, next |-> Junk] \in StartTag
    BY <1>5 DEF StartTag
  <2> QED BY <1>2, <2>1
<1>10. g[DataOf(s) + rest] = [isFree |-> g[s].isFree, size |-> g[s].size]
  BY <1>2, <1>7, <1>8
<1>11. g[EndOf(m, s)] = [isFree |-> g[start].isFree, size |-> g[start].size]
  BY <1>2, <1>9
<1>12. /\ WellFormed(g, U)
       /\ start \notin S
       /\ Behind(g, s) = start
       /\ Behind(g, start) = Behind(m, s)
       /\ \A t \in S \ {s} : Behind(g, t) = Behind(m, t)
  <2>1. CutAt(m, S, g, s, rest, start)
    BY <1>3, <1>5, <1>6, <1>7, <1>9, <1>10, <1>11 DEF CutAt
  <2> QED BY <2>1, <1>1, CutInTwo
<1>13. \A t \in S : g[t].isFree = m[t].isFree /\ g[t].next = m[t].next /\ g[t].prev = m[t].prev
  BY <1>3, <1>7
<1>14. Listed(g, U, {}) = Listed(m, S, {})
  BY <1>9, <1>13 DEF Listed
<1>15. \A i \in 0 .. n : g[L[i]].next = m[L[i]].next /\ g[L[i]].prev = m[L[i]].prev
  <2>1. \A i \in 0 .. n : L[i] = Head \/ L[i] \in S
    BY <1>1, ListTags
  <2> QED BY <2>1, <1>3, <1>13
<1>16. ListOK(g, U, L, n, {})
  BY <1>1, <1>14, <1>15, ListKept
<1>17. Coalesced(g, U, {})
  <2> SUFFICES ASSUME NEW t \in U, g[t].isFree, Behind(g, t) \in U, g[Behind(g, t)].isFree
               PROVE  FALSE
    BY DEF Coalesced
  <2>1. t \in S /\ Behind(g, t) \in S /\ t # s
    BY <1>9, <1>12
  <2>2. Behind(g, t) = Behind(m, t) /\ m[t].isFree /\ m[Behind(m, t)].isFree
    BY <2>1, <1>12, <1>13
  <2> QED BY <2>1, <2>2, <1>1 DEF Coalesced
<1>18. Busy(g, U) = Busy(m, S) \cup {start}
  BY <1>9, <1>13 DEF Busy
<1>19. SameBlocks(m, g, Busy(m, S))
  <2>1. Busy(m, S) \subseteq S \ {s}
    BY <1>8 DEF Busy
  <2> QED BY <2>1, <1>3 DEF SameBlocks
<1> QED BY <1>7, <1>9, <1>12, <1>16, <1>17, <1>18, <1>19 DEF TookPart, Consistent

(* or the whole of s. *)
WholeTaken(m, s) ==
  [Unlink([m EXCEPT ![EndOf(m, s)].isFree = FALSE], s) EXCEPT ![s].isFree = FALSE]

SameApart(x, h, e, v) ==
  /\ DOMAIN x = Address
  /\ x[e] = v
  /\ \A c \in Address : c # e => x[c] = h[c]

LEMMA UnlinkApart ==
  ASSUME NEW m, DOMAIN m = Address, NEW s \in Address, NEW e \in Address,
         s # e, m[s].prev # e, m[s].next # e,
         NEW f, f = [m EXCEPT ![e].isFree = FALSE]
  PROVE  SameApart(Unlink(f, s), Unlink(m, s), e, f[e])
<1> DEFINE v == m[s].prev
           w == m[s].next
           mv == [m EXCEPT ![v].next = w]
           fv == [f EXCEPT ![v].next = w]
           mw == [mv EXCEPT ![w].prev = v]
           fw == [fv EXCEPT ![w].prev = v]
<1>1. /\ DOMAIN f = Address /\ f[s] = m[s]
      /\ \A c \in Address : c # e => f[c] = m[c]
  OBVIOUS
<1>2. /\ Unlink(m, s) = IF w = NULL THEN mv ELSE mw
      /\ Unlink(f, s) = IF w = NULL THEN fv ELSE fw
  BY <1>1 DEF Unlink
<1>3. v # e /\ w # e
  OBVIOUS
<1> HIDE DEF v, w
<1>4. /\ DOMAIN fv = Address /\ fv[e] = f[e] /\ DOMAIN mv = Address
      /\ \A c \in Address : c # e => fv[c] = mv[c]
  BY <1>1, <1>3
<1> HIDE DEF fv, mv
<1>5. /\ DOMAIN fw = Address /\ fw[e] = fv[e]
      /\ \A c \in Address : c # e => fw[c] = mw[c]
  BY <1>3, <1>4
<1> HIDE DEF fw, mw
<1> QED BY <1>2, <1>4, <1>5 DEF SameApart

LEMMA WholeTakenSets ==
  ASSUME NEW m, DOMAIN m = Address, NEW s \in Address, m[s] \in StartTag,
         NEW e \in Address, e = EndOf(m, s), s # e,
         m[e] = [isFree |-> m[s].isFree, size |-> m[s].size],
         m[s].prev # e, m[s].next # e,
         NEW h, h = Unlink(m, s), h[s] = m[s],
         NEW g, g = WholeTaken(m, s)
  PROVE  /\ DOMAIN g = Address
         /\ g[s] = [m[s] EXCEPT !.isFree = FALSE]
         /\ g[e] = [isFree |-> FALSE, size |-> m[s].size]
         /\ \A c \in Address : c # s /\ c # e => g[c] = h[c]
<1> DEFINE f == [m EXCEPT ![e].isFree = FALSE]
           x == Unlink(f, s)
<1>1. g = [x EXCEPT ![s].isFree = FALSE]
  BY DEF WholeTaken
<1>2. f[e] = [isFree |-> FALSE, size |-> m[s].size]
  <2>1. f[e] = [[isFree |-> m[s].isFree, size |-> m[s].size] EXCEPT !.isFree = FALSE]
    OBVIOUS
  <2> QED BY <2>1
<1>3. f = [m EXCEPT ![e].isFree = FALSE]
  OBVIOUS
<1> HIDE DEF f
<1>4. /\ DOMAIN x = Address /\ x[e] = f[e]
      /\ \A c \in Address : c # e => x[c] = h[c]
  <2>1. SameApart(x, h, e, f[e])
    BY <1>3, UnlinkApart
  <2> QED BY <2>1 DEF SameApart
<1> HIDE DEF x
<1>5. x[s] = m[s]
  BY <1>4
<1> QED BY <1>1, <1>2, <1>4, <1>5

TookWhole(m, S, L, n, g, s, k) ==
  /\ Consistent(g, S, CutOut(L, n, k), n - 1, {})
  /\ Busy(g, S) = Busy(m, S) \cup {s}
  /\ SameBlocks(m, g, Busy(m, S))
  /\ g[s].size = m[s].size
  /\ g[s].next = m[s].next

LEMMA TakesWhole ==
  ASSUME NEW m, NEW S, NEW L, NEW n, Consistent(m, S, L, n, {}),
         NEW k \in 1 .. n, NEW s, s = L[k],
         NEW g, g = WholeTaken(m, s)
  PROVE  TookWhole(m, S, L, n, g, s, k)
<1> DEFINE e == EndOf(m, s)
           h == Unlink(m, s)
<1>1. WellFormed(m, S) /\ ListOK(m, S, L, n, {}) /\ Coalesced(m, S, {})
  BY DEF Consistent
<1>2. /\ n \in Nat
      /\ \A i \in 0 .. n : L[i] \in Address /\ m[L[i]] \in StartTag
      /\ \A i \in 1 .. n : L[i] \in S /\ m[L[i]].isFree
      /\ \A i \in 0 .. n : i = 0 \/ L[i] \in S
      /\ L[0] = Head
  BY <1>1, ListTags
<1>3. /\ DOMAIN m = Address /\ s \in S /\ s \in Address /\ m[s] \in StartTag
      /\ m[s].isFree = TRUE
      /\ m[e] = [isFree |-> m[s].isFree, size |-> m[s].size]
  BY <1>1, <1>2 DEF WellFormed, StartTag
<1>4. /\ Head \notin S /\ e # Head /\ e \notin S /\ e \in Address
      /\ \A t \in S : t # s => EndOf(m, t) # e
  BY <1>1, <1>3, TagsApart
<1>5. \A t \in S : /\ t \in Address /\ EndOf(m, t) \in Address /\ EndOf(m, t) \notin S
                   /\ Cells(m, t) \subseteq Address
                   /\ s \notin Cells(m, t) /\ e \notin Cells(m, t)
  BY <1>1, <1>3, TagsApart DEF WellFormed
<1>6. m[s].prev # e /\ m[s].next # e
  <2>1. \A i \in 0 .. n : L[i] # e
    BY <1>2, <1>4
  <2>2. k \in 0 .. n /\ k - 1 \in 0 .. n - 1 /\ (k - 1) + 1 = k /\ k - 1 \in 0 .. n
    BY <1>2
  <2>3. m[L[k]].prev = L[k - 1]
    BY <1>1, <2>2 DEF ListOK
  <2>4. CASE k = n
    BY <1>1, <1>4, <2>1, <2>2, <2>3, <2>4 DEF ListOK, NULL, Head
  <2>5. CASE k # n
    <3>1. k \in 0 .. n - 1 /\ k + 1 \in 0 .. n
      BY <2>5, <1>2
    <3>2. m[L[k]].next = L[k + 1]
      BY <1>1, <3>1 DEF ListOK
    <3> QED BY <2>1, <2>2, <2>3, <3>1, <3>2
  <2> QED BY <2>4, <2>5
<1> HIDE DEF e
<1>7. s # e
  BY <1>3, <1>4
<1>9. /\ WellFormed(h, S)
      /\ h[s] = m[s]
      /\ \A t \in S : /\ h[t].size = m[t].size /\ h[t].isFree = m[t].isFree
                      /\ EndOf(h, t) = EndOf(m, t) /\ Behind(h, t) = Behind(m, t)
                      /\ \A c \in Cells(m, t) : h[c] = m[c]
  BY <1>1, Unlinked
<1>10. \A i \in 0 .. n :
           /\ h[L[i]].next = IF i = k - 1 THEN m[L[k]].next ELSE m[L[i]].next
           /\ h[L[i]].prev = IF i = k + 1 THEN m[L[k]].prev ELSE m[L[i]].prev
  BY <1>1, UnlinkSets
<1>11. m[e] = [isFree |-> m[s].isFree, size |-> m[s].size] /\ e = EndOf(m, s)
  BY <1>3 DEF e
<1>12. h = Unlink(m, s) /\ h[s] = m[s]
  BY <1>9
<1> HIDE DEF h
<1>13. /\ DOMAIN g = Address
       /\ g[s] = [m[s] EXCEPT !.isFree = FALSE]
       /\ g[e] = [isFree |-> FALSE, size |-> m[s].size]
       /\ \A c \in Address : c # s /\ c # e => g[c] = h[c]
  BY <1>3, <1>4, <1>6, <1>7, <1>11, <1>12, WholeTakenSets
<1>14. /\ g[s] \in StartTag /\ g[s].isFree = FALSE /\ g[s].size = m[s].size
       /\ g[s].next = m[s].next
  <2>1. PICK t : t = m[s]
    OBVIOUS
  <2>2. PICK u : u = g[s]
    OBVIOUS
  <2>3. t \in StartTag /\ u = [t EXCEPT !.isFree = FALSE] /\ FALSE \in BOOLEAN
    BY <1>3, <1>13, <2>1, <2>2
  <2>4. /\ u \in StartTag
        /\ u.isFree = FALSE /\ u.size = t.size
        /\ u.prev = t.prev /\ u.next = t.next
    BY <2>3, FlagSet, Zenon
  <2> QED BY <2>1, <2>2, <2>4
<1>15. g[Head] = h[Head]
  <2>1. Head \in Address /\ Head # s /\ Head # e
    BY <1>2, <1>3, <1>4
  <2> QED BY <2>1, <1>13
<1>16. \A t \in S \ {s} : /\ g[t] = h[t] /\ g[EndOf(m, t)] = h[EndOf(m, t)]
                          /\ \A c \in Cells(m, t) : g[c] = h[c]
  <2> SUFFICES ASSUME NEW t \in S \ {s}
               PROVE  /\ g[t] = h[t] /\ g[EndOf(m, t)] = h[EndOf(m, t)]
                      /\ \A c \in Cells(m, t) : g[c] = h[c]
    OBVIOUS
  <2>1. /\ t \in Address /\ t # s /\ t # e
        /\ EndOf(m, t) \in Address /\ EndOf(m, t) # s /\ EndOf(m, t) # e
    BY <1>3, <1>4, <1>5
  <2>2. \A c \in Cells(m, t) : c \in Address /\ c # s /\ c # e
    BY <1>5
  <2> QED BY <2>1, <2>2, <1>13
<1>17. \A t \in S : /\ g[t] \in StartTag
                    /\ g[t].size = m[t].size
                    /\ g[EndOf(m, t)] = [isFree |-> g[t].isFree, size |-> g[t].size]
  <2>1. \A t \in S \ {s} : /\ g[t] \in StartTag
                    /\ g[t].size = m[t].size
                    /\ g[EndOf(m, t)] = [isFree |-> g[t].isFree, size |-> g[t].size]
    BY <1>9, <1>16 DEF WellFormed
  <2>2. g[e] = [isFree |-> g[s].isFree, size |-> g[s].size]
    BY <1>13, <1>14
  <2>3. g[EndOf(m, s)] = [isFree |-> g[s].isFree, size |-> g[s].size]
    BY <1>11, <2>2
  <2>4. g[s] \in StartTag /\ g[s].size = m[s].size
    BY <1>14
  <2> QED BY <2>1, <2>3, <2>4
<1>18. g[Head] \in StartTag
  BY <1>9, <1>15 DEF WellFormed
<1>19. /\ WellFormed(g, S)
       /\ \A t \in S : EndOf(g, t) = EndOf(m, t) /\ Behind(g, t) = Behind(m, t)
  BY <1>1, <1>13, <1>17, <1>18, SizesKept
<1>20. \A t \in S \ {s} : g[t].isFree = m[t].isFree
  BY <1>9, <1>16
<1>21. Listed(g, S, {}) = Listed(m, S, {}) \ {L[k]}
  BY <1>3, <1>14, <1>20 DEF Listed
<1>22. Bypassed(m, g, L, n, k)
  <2> SUFFICES ASSUME NEW i \in 0 .. n, i # k
               PROVE  g[L[i]] = h[L[i]]
    BY <1>10 DEF Bypassed
  <2>1. L[i] # s
    BY <1>1, <1>2 DEF ListOK
  <2> QED BY <2>1, <1>2, <1>15, <1>16
<1>23. ListOK(g, S, CutOut(L, n, k), n - 1, {})
  BY <1>1, <1>21, <1>22, ListShrinks
<1>24. Coalesced(g, S, {})
  BY <1>1, <1>14, <1>19, <1>20 DEF Coalesced
<1>25. Busy(g, S) = Busy(m, S) \cup {s}
  BY <1>3, <1>14, <1>20 DEF Busy
<1>26. SameBlocks(m, g, Busy(m, S))
  <2>1. Busy(m, S) \subseteq S \ {s}
    BY <1>3 DEF Busy
  <2> QED BY <2>1, <1>9, <1>16, <1>17 DEF SameBlocks
<1> QED BY <1>14, <1>19, <1>23, <1>24, <1>25, <1>26 DEF TookWhole, Consistent

-----------------------------------------------------------------------------
(* p is the pointer of a busy segment, which holds at least size bytes. *)
InUse(m, S, p, size) ==
  /\ p \in Address /\ p # NULL
  /\ p - StartSize \in Busy(m, S)
  /\ size \in Nat /\ size <= m[p - StartSize].size

(* A busy segment that Alloc has taken lies outside of the list; what its   *)
(* tag says of the list is still true.                                      *)
OnList(L, n, a) == \E k \in 0 .. n : a = L[k]

LeftList(m, S, L, n, a) ==
  /\ a \in Busy(m, S)
  /\ m[a].next = NULL \/ \E k \in 1 .. n : m[a].next = L[k]

(* The loop of Alloc has passed what is too small, or has got a block ... *)
Searching(m, S, L, n, l, c) ==
  /\ c.size \in Size
  /\ c.result = NULL =>
       \E k \in 0 .. n : c.at = L[k] /\ \A i \in 1 .. k : m[L[i]].size < c.size
  /\ c.result # NULL =>
       /\ InUse(m, S, c.result, c.size)
       /\ c.result \notin DOMAIN l
       /\ OnList(L, n, c.at) \/ LeftList(m, S, L, n, c.at)
  /\ c.old # NULL => c.old \in DOMAIN l /\ c.size > 0

(* ... and that of Free is about to append its segment. *)
Appending(m, S, L, n, c) ==
  /\ c.result = NULL /\ c.old = NULL
  /\ c.block \in S /\ m[c.block].isFree
  /\ OnList(L, n, c.at)

CallType == [pc : {"none", "alloc", "free"}, at : Address, size : Nat, result : Address,
             old : Address, block : Address]

CallOK(m, S, L, n, l, c) ==
  /\ c \in CallType
  /\ c.pc = "none" => c = NoCall
  /\ c.pc = "alloc" => Searching(m, S, L, n, l, c)
  /\ c.pc = "free" => Appending(m, S, L, n, c)

LiveOK(m, S, l) == \A p \in DOMAIN l : InUse(m, S, p, l[p])

(* A user that behaves like a stack: what is free is the first segment, and *)
(* every other one is a block of the user's.                                *)
StackOK(m, S, l, c) ==
  /\ \A s \in S : m[s].isFree => s = FirstSegment
  /\ \A s \in Busy(m, S) : DataOf(s) \in DOMAIN l \cup {c.result}
  /\ c.result # NULL => m[c.at].next = NULL
  /\ c.old = NULL

(* The segment that is free and not in the list. *)
Pending(c) == IF c.pc = "free" THEN {c.block} ELSE {}

StateOK(m, l, c, st, S, L, n) ==
  /\ Consistent(m, S, L, n, Pending(c))
  /\ LiveOK(m, S, l)
  /\ CallOK(m, S, L, n, l, c)
  /\ st => StackOK(m, S, l, c)

(* The invariant: the memory is a row of segments and a list of the free ones. *)
IInv == \E S, L, n : StateOK(memory, live, call, stack, S, L, n)

-----------------------------------------------------------------------------
LEMMA InUseKept ==
  ASSUME NEW m, NEW S, NEW p, NEW size, InUse(m, S, p, size),
         NEW g, NEW T, NEW B, SameBlocks(m, g, B), p - StartSize \in B,
         B \subseteq Busy(g, T)
  PROVE  InUse(g, T, p, size)
BY DEF InUse, SameBlocks

LEMMA NoCallOK ==
  ASSUME NEW m, NEW S, NEW L, NEW n, NEW l
  PROVE  CallOK(m, S, L, n, l, NoCall) /\ Pending(NoCall) = {}
<1>1. Head \in Address /\ NULL \in Address
  BY TagAssumption DEF Head, NULL, Address
<1>2. /\ NoCall.pc = "none"
      /\ NoCall \in CallType
  BY <1>1 DEF NoCall, CallType
<1> QED BY <1>2 DEF CallOK, Pending

(* The end of the list is found where there is no next one. *)
LEMMA EndOfList ==
  ASSUME NEW m, NEW S, WellFormed(m, S), NEW L, NEW n, NEW X, ListOK(m, S, L, n, X),
         NEW a, OnList(L, n, a)
  PROVE  /\ a \in Address
         /\ m[a].next = NULL => a = L[n]
         /\ m[a].next # NULL => \E k \in 1 .. n : m[a].next = L[k] /\ a = L[k - 1]
<1>1. PICK k \in 0 .. n : a = L[k]
  BY DEF OnList
<1>2. n \in Nat /\ L \in [0 .. n -> Address] /\ m[L[n]].next = NULL
  BY DEF ListOK
<1>3. \A i \in 1 .. n : L[i] \in S
  BY ListTags
<1>4. NULL \notin S
  BY TagsApart, <1>2 DEF NULL, Head, WellFormed
<1>5. CASE k = n
  BY <1>1, <1>2, <1>5
<1>6. CASE k # n
  <2>1. k \in 0 .. n - 1 /\ k + 1 \in 1 .. n /\ (k + 1) - 1 = k
    BY <1>2, <1>6
  <2>2. m[a].next = L[k + 1]
    BY <1>1, <2>1 DEF ListOK
  <2> QED BY <1>1, <1>2, <1>3, <1>4, <2>1, <2>2
<1> QED BY <1>5, <1>6

AllocRuns(m, S, L, n, l, c) ==
  /\ Consistent(m, S, L, n, {})
  /\ Searching(m, S, L, n, l, c)
  /\ LiveOK(m, S, l)
  /\ c \in CallType

LEMMA AllocState ==
  ASSUME NEW m, NEW S, NEW L, NEW n, NEW l, NEW c, NEW st,
         StateOK(m, l, c, st, S, L, n), c.pc = "alloc"
  PROVE  AllocRuns(m, S, L, n, l, c)
BY DEF StateOK, CallOK, Pending, AllocRuns

(* The loop of Alloc visits the free segment s, the one at k of the list. *)
VisitedAt(m, S, L, c, s, k) ==
  /\ s = L[k] /\ s = m[c.at].next /\ s # NULL
  /\ s \in S /\ m[s].isFree = TRUE
  /\ c.result = NULL => c.at = L[k - 1] /\ \A i \in 1 .. k - 1 : m[L[i]].size < c.size

LEMMA Visited ==
  ASSUME NEW m, NEW S, NEW L, NEW n, NEW l, NEW c, AllocRuns(m, S, L, n, l, c),
         NEW s, s = m[c.at].next, s # NULL
  PROVE  \E k \in 1 .. n : VisitedAt(m, S, L, c, s, k)
<1>1. /\ Searching(m, S, L, n, l, c)
      /\ WellFormed(m, S) /\ ListOK(m, S, L, n, {})
  BY DEF AllocRuns, Consistent
<1>2. \A k \in 1 .. n : L[k] \in S /\ m[L[k]].isFree = TRUE
  <2>1. \A k \in 1 .. n : L[k] \in S /\ m[L[k]].isFree
    BY <1>1, ListTags
  <2> QED BY <2>1, <1>1 DEF WellFormed, StartTag
<1>3. CASE c.result = NULL
  <2>1. PICK j \in 0 .. n : c.at = L[j] /\ \A i \in 1 .. j : m[L[i]].size < c.size
    BY <1>1, <1>3 DEF Searching
  <2>2. OnList(L, n, c.at)
    BY <2>1 DEF OnList
  <2>3. PICK k \in 1 .. n : s = L[k] /\ c.at = L[k - 1]
    BY <2>2, <1>1, EndOfList
  <2>4. n \in Nat /\ (\A i, h \in 0 .. n : L[i] = L[h] => i = h) /\ k - 1 \in 0 .. n
    BY <1>1 DEF ListOK
  <2>5. j = k - 1
    BY <2>1, <2>3, <2>4
  <2> QED BY <1>2, <2>1, <2>3, <2>5 DEF VisitedAt
<1>4. CASE c.result # NULL
  <2>1. OnList(L, n, c.at) \/ LeftList(m, S, L, n, c.at)
    BY <1>1, <1>4 DEF Searching
  <2>2. \E k \in 1 .. n : s = L[k]
    BY <2>1, <1>1, EndOfList DEF LeftList
  <2> QED BY <2>2, <1>2, <1>4 DEF VisitedAt
<1> QED BY <1>3, <1>4

(* Such a user's list has one segment at most. *)
LEMMA StackList ==
  ASSUME NEW m, NEW S, NEW L, NEW n, NEW l, NEW c, NEW X,
         WellFormed(m, S), ListOK(m, S, L, n, X), StackOK(m, S, l, c), NEW k \in 1 .. n
  PROVE  m[L[k]].next = NULL
<1>1. /\ n \in Nat /\ m[L[n]].next = NULL
      /\ \A i, j \in 0 .. n : L[i] = L[j] => i = j
  BY DEF ListOK
<1>2. \A i \in 1 .. n : L[i] = FirstSegment
  <2>1. \A i \in 1 .. n : L[i] \in S /\ m[L[i]].isFree
    BY ListTags
  <2> QED BY <2>1 DEF StackOK
<1>3. k \in 0 .. n /\ n \in 0 .. n /\ n \in 1 .. n
  BY <1>1
<1>4. L[k] = L[n]
  BY <1>2, <1>3
<1> QED BY <1>1, <1>3, <1>4

LEMMA CallMoves ==
  ASSUME NEW c \in CallType, NEW a \in Address, NEW d, d = [c EXCEPT !.at = a]
  PROVE  /\ d \in CallType /\ d.at = a /\ d.result = c.result
         /\ d.pc = c.pc /\ d.size = c.size /\ d.old = c.old /\ d.block = c.block
BY DEF CallType

(* Alloc gets the segment b, which was not busy, from the free segment s. *)
Got(m, S, g, T, M, k, c, s, b) ==
  /\ Consistent(g, T, M, k, {})
  /\ b \in T /\ b \notin Busy(m, S) /\ Busy(g, T) = Busy(m, S) \cup {b}
  /\ SameBlocks(m, g, Busy(m, S))
  /\ \A t \in T : g[t].isFree => t \in S /\ m[t].isFree
  /\ c.size <= g[b].size
  /\ g[s].next = m[s].next
  /\ OnList(M, k, s) \/ LeftList(g, T, M, k, s)

LEMMA BlockTaken ==
  ASSUME NEW m, NEW S, NEW L, NEW n, NEW l, NEW c, NEW st,
         AllocRuns(m, S, L, n, l, c), st => StackOK(m, S, l, c),
         NEW s \in Address, NEW j \in 1 .. n, VisitedAt(m, S, L, c, s, j),
         NEW g, NEW T, NEW M, NEW k, NEW b, Got(m, S, g, T, M, k, c, s, b),
         NEW d, d = [c EXCEPT !.at = s, !.result = DataOf(b)], c.pc = "alloc"
  PROVE  StateOK(g, l, d, st, T, M, k)
<1>0. /\ Consistent(g, T, M, k, {})
      /\ b \in T /\ b \notin Busy(m, S) /\ Busy(g, T) = Busy(m, S) \cup {b}
      /\ SameBlocks(m, g, Busy(m, S))
      /\ \A t \in T : g[t].isFree => t \in S /\ m[t].isFree
      /\ c.size <= g[b].size
      /\ g[s].next = m[s].next
      /\ OnList(M, k, s) \/ LeftList(g, T, M, k, s)
  BY DEF Got
<1>1. /\ LiveOK(m, S, l)
      /\ Consistent(m, S, L, n, {})
      /\ Searching(m, S, L, n, l, c)
      /\ c \in CallType
  BY DEF AllocRuns
<1>2. WellFormed(g, T) /\ Laid(g, T) /\ WellFormed(m, S) /\ ListOK(m, S, L, n, {})
  BY <1>0, <1>1, LaidOut DEF Consistent
<1>3. /\ b \in Nat /\ DataOf(b) \in Address /\ DataOf(b) # NULL
      /\ DataOf(b) - StartSize = b
  <2>1. /\ b \in Nat /\ b >= StartSize /\ g[b].size \in Nat
        /\ b + StartSize + g[b].size + EndSize <= MemSize
    BY <1>0, <1>2 DEF Laid
  <2> QED BY <2>1, TagAssumption DEF DataOf, Address, NULL
<1>4. /\ d \in CallType /\ d.at = s /\ d.result = DataOf(b)
      /\ d.pc = c.pc /\ d.size = c.size /\ d.old = c.old
  <2>1. c \in CallType /\ DataOf(b) \in Address
    BY <1>1, <1>3
  <2> QED BY <2>1 DEF CallType
<1>5. LiveOK(g, T, l)
  <2> SUFFICES ASSUME NEW p \in DOMAIN l
               PROVE  InUse(g, T, p, l[p])
    BY DEF LiveOK
  <2>1. InUse(m, S, p, l[p])
    BY <1>1 DEF LiveOK
  <2>2. p - StartSize \in Busy(m, S)
    BY <2>1 DEF InUse
  <2>3. Busy(m, S) \subseteq Busy(g, T) /\ SameBlocks(m, g, Busy(m, S))
    BY <1>0
  <2> QED BY <2>1, <2>2, <2>3, InUseKept
<1>6. Searching(g, T, M, k, l, d)
  <2>1. InUse(g, T, DataOf(b), c.size)
    <3>1. c.size \in Nat
      BY <1>1 DEF CallType
    <3>2. b \in Busy(g, T) /\ c.size <= g[b].size
      BY <1>0
    <3> QED BY <3>1, <3>2, <1>3 DEF InUse
  <2>2. DataOf(b) \notin DOMAIN l
    BY <1>0, <1>1, <1>3 DEF LiveOK, InUse
  <2>3. c.size \in Size /\ (c.old # NULL => c.old \in DOMAIN l /\ c.size > 0)
    BY <1>1 DEF Searching
  <2> QED BY <2>1, <2>2, <2>3, <1>0, <1>3, <1>4 DEF Searching
<1>7. CallOK(g, T, M, k, l, d) /\ Pending(d) = {}
  <2>1. d.pc = "alloc"
    BY <1>4
  <2> QED BY <1>4, <1>6, <2>1 DEF CallOK, Pending
<1>8. ASSUME StackOK(m, S, l, c)
      PROVE  StackOK(g, T, l, d)
  <2>1. c.result = NULL /\ c.old = NULL
    BY <1>8 DEF StackOK, VisitedAt
  <2>2. \A t \in Busy(m, S) : DataOf(t) \in DOMAIN l
    <3>1. ASSUME NEW t \in Busy(m, S)
          PROVE  DataOf(t) # NULL
      <4>1. t \in S /\ Laid(m, S)
        BY <1>2, LaidOut DEF Busy
      <4>2. t \in Nat
        BY <4>1 DEF Laid
      <4> QED BY <4>2, TagAssumption DEF DataOf, NULL
    <3> QED BY <1>8, <2>1, <3>1 DEF StackOK
  <2>3. \A t \in Busy(g, T) : DataOf(t) \in DOMAIN l \cup {d.result}
    BY <1>0, <1>4, <2>2
  <2>4. s = L[j]
    BY DEF VisitedAt
  <2>5. m[s].next = NULL
    BY <1>2, <1>8, <2>4, StackList
  <2>6. \A t \in T : g[t].isFree => t = FirstSegment
    BY <1>0, <1>8 DEF StackOK
  <2> QED BY <1>0, <1>4, <2>1, <2>3, <2>5, <2>6 DEF StackOK
<1>9. Consistent(g, T, M, k, Pending(d))
  BY <1>0, <1>7
<1> QED BY <1>5, <1>7, <1>8, <1>9 DEF StateOK

(* What every step leaves: the invariant, and the busy segments in B as they were. *)
Kept(B) == IInv' /\ SameBlocks(memory, memory', B)

LEMMA PassOK ==
  ASSUME NEW S, NEW L, NEW n, StateOK(memory, live, call, stack, S, L, n),
         NEW s \in Address, Pass(s)
  PROVE  IInv'
<1> DEFINE m == memory
<1>1. /\ call.pc = "alloc" /\ s = m[call.at].next /\ s # NULL
      /\ ~ (m[s].size >= call.size)
      /\ call' = [call EXCEPT !.at = s]
      /\ memory' = memory /\ live' = live /\ stack' = stack
  BY DEF Pass, Visits, Fits
<1>2. AllocRuns(m, S, L, n, live, call)
  BY <1>1, AllocState
<1>3. PICK k \in 1 .. n : VisitedAt(m, S, L, call, s, k)
  BY <1>1, <1>2, Visited
<1>4. /\ Consistent(m, S, L, n, {}) /\ Searching(m, S, L, n, live, call)
      /\ LiveOK(m, S, live) /\ call \in CallType
  BY <1>2 DEF AllocRuns
<1>5. s = L[k] /\ s \in S
      /\ (call.result = NULL => \A i \in 1 .. k - 1 : m[L[i]].size < call.size)
  BY <1>3 DEF VisitedAt
<1>6. /\ call' \in CallType /\ call'.at = s /\ call'.result = call.result
      /\ call'.pc = "alloc" /\ call'.size = call.size /\ call'.old = call.old
  BY <1>1, <1>4, CallMoves
<1>7. n \in Nat /\ k \in 0 .. n /\ \A i \in 1 .. k : i = k \/ i \in 1 .. k - 1
  BY <1>4 DEF Consistent, ListOK
<1>8. m[s].size < call.size
  <2>1. m[s].size \in Nat
    BY <1>4, <1>5, LaidOut DEF Laid, Consistent
  <2>2. call.size \in Nat
    BY <1>4 DEF CallType
  <2> QED BY <1>1, <2>1, <2>2
<1>9. Searching(m, S, L, n, live, call')
  <2>1. call'.result = NULL =>
          \E j \in 0 .. n : call'.at = L[j] /\ \A i \in 1 .. j : m[L[i]].size < call'.size
    BY <1>5, <1>6, <1>7, <1>8
  <2>2. OnList(L, n, call'.at)
    BY <1>5, <1>6, <1>7 DEF OnList
  <2> QED BY <2>1, <2>2, <1>4, <1>6 DEF Searching
<1>10. CallOK(m, S, L, n, live, call') /\ Pending(call') = {}
  BY <1>6, <1>9 DEF CallOK, Pending
<1>11. ASSUME StackOK(m, S, live, call)
       PROVE  StackOK(m, S, live, call')
  <2>1. call.result = NULL
    BY <1>1, <1>11 DEF StackOK
  <2> QED BY <2>1, <1>6, <1>11 DEF StackOK
<1>12. StateOK(m, live, call', stack, S, L, n)
  BY <1>4, <1>10, <1>11 DEF StateOK
<1> QED BY <1>1, <1>12 DEF IInv

LEMMA TakePartOK ==
  ASSUME NEW S, NEW L, NEW n, StateOK(memory, live, call, stack, S, L, n),
         NEW s \in Address, TakePart(s)
  PROVE  Kept(Busy(memory, S))
<1> DEFINE m == memory
           start == DataOf(s) + (m[s].size - (call.size + StartSize))
<1>1. /\ call.pc = "alloc" /\ s = m[call.at].next /\ s # NULL
      /\ m[s].size >= call.size + StartSize + EndSize + 1
      /\ memory' = PartTaken(m, s, call.size)
      /\ call' = [call EXCEPT !.at = s, !.result = DataOf(start)]
      /\ live' = live /\ stack' = stack
  BY DEF TakePart, Visits, LeavesFree, PartTaken
<1>2. AllocRuns(m, S, L, n, live, call)
  BY <1>1, AllocState
<1>3. PICK k \in 1 .. n : VisitedAt(m, S, L, call, s, k)
  BY <1>1, <1>2, Visited
<1>4. /\ Consistent(m, S, L, n, {}) /\ call.size \in Nat
  BY <1>2 DEF AllocRuns, CallType
<1>5. s = L[k] /\ s \in S /\ m[s].isFree = TRUE
  BY <1>3 DEF VisitedAt
<1>6. Leaves(m, s, call.size, start)
  BY <1>1 DEF Leaves
<1> HIDE DEF start
<1>7. TookPart(m, S, L, n, memory', s, start, call.size)
  BY <1>1, <1>4, <1>5, <1>6, TakesPart
<1>8. /\ Consistent(memory', S \cup {start}, L, n, {})
      /\ start \notin S
      /\ Busy(memory', S \cup {start}) = Busy(m, S) \cup {start}
      /\ SameBlocks(m, memory', Busy(m, S))
      /\ memory'[start].size = call.size
      /\ memory'[s].next = m[s].next
  BY <1>7 DEF TookPart
<1>9. Got(m, S, memory', S \cup {start}, L, n, call, s, start)
  <2>1. \A t \in S \cup {start} : memory'[t].isFree => t \in S /\ m[t].isFree
    BY <1>8 DEF Busy
  <2>2. start \notin Busy(m, S)
    BY <1>8 DEF Busy
  <2>3. n \in Nat /\ k \in 0 .. n
    BY <1>4 DEF Consistent, ListOK
  <2>4. OnList(L, n, s)
    BY <1>5, <2>3 DEF OnList
  <2>5. call.size <= memory'[start].size
    BY <1>4, <1>8
  <2> QED BY <1>8, <2>1, <2>2, <2>4, <2>5 DEF Got
<1>10. stack => StackOK(m, S, live, call)
  BY DEF StateOK
<1>11. StateOK(memory', live, call', stack, S \cup {start}, L, n)
  BY <1>1, <1>2, <1>3, <1>9, <1>10, BlockTaken
<1>12. IInv'
  BY <1>1, <1>11 DEF IInv
<1>13. SameBlocks(memory, memory', Busy(memory, S))
  BY <1>8, Zenon
<1> QED BY <1>12, <1>13, Zenon DEF Kept

LEMMA TakeWholeOK ==
  ASSUME NEW S, NEW L, NEW n, StateOK(memory, live, call, stack, S, L, n),
         NEW s \in Address, TakeWhole(s)
  PROVE  Kept(Busy(memory, S))
<1> DEFINE m == memory
<1>1. /\ call.pc = "alloc" /\ s = m[call.at].next /\ s # NULL
      /\ m[s].size >= call.size
      /\ memory' = WholeTaken(m, s)
      /\ call' = [call EXCEPT !.at = s, !.result = DataOf(s)]
      /\ live' = live /\ stack' = stack
  BY DEF TakeWhole, Visits, Fits, WholeTaken
<1>2. AllocRuns(m, S, L, n, live, call)
  BY <1>1, AllocState
<1>3. PICK k \in 1 .. n : VisitedAt(m, S, L, call, s, k)
  BY <1>1, <1>2, Visited
<1>4. /\ Consistent(m, S, L, n, {}) /\ call.size \in Nat
  BY <1>2 DEF AllocRuns, CallType
<1>5. s = L[k] /\ s \in S /\ m[s].isFree = TRUE
  BY <1>3 DEF VisitedAt
<1> DEFINE M == CutOut(L, n, k)
<1>6. TookWhole(m, S, L, n, memory', s, k)
  BY <1>1, <1>4, <1>5, TakesWhole
<1>7. /\ Consistent(memory', S, M, n - 1, {})
      /\ Busy(memory', S) = Busy(m, S) \cup {s}
      /\ SameBlocks(m, memory', Busy(m, S))
      /\ memory'[s].size = m[s].size
      /\ memory'[s].next = m[s].next
  BY <1>6 DEF TookWhole
<1>8. LeftList(memory', S, M, n - 1, s)
  <2>1. n \in Nat /\ m[L[n]].next = NULL
        /\ \A i \in 0 .. n - 1 : m[L[i]].next = L[i + 1]
    BY <1>4 DEF Consistent, ListOK
  <2>2. CASE k = n
    <3>1. memory'[s].next = NULL
      BY <1>5, <1>7, <2>1, <2>2
    <3> QED BY <1>7, <3>1 DEF LeftList
  <2>3. CASE k # n
    <3>1. k \in 1 .. n - 1 /\ k \in 0 .. n - 1 /\ ~ (k < k)
      BY <2>1, <2>3
    <3>2. M[k] = L[k + 1] /\ memory'[s].next = L[k + 1]
      BY <1>5, <1>7, <2>1, <3>1 DEF CutOut
    <3> QED BY <1>7, <3>1, <3>2 DEF LeftList
  <2> QED BY <2>2, <2>3
<1> HIDE DEF M
<1>9. Got(m, S, memory', S, M, n - 1, call, s, s)
  <2>1. \A t \in S : memory'[t].isFree => t \in S /\ m[t].isFree
    BY <1>7 DEF Busy
  <2>2. s \notin Busy(m, S)
    BY <1>5 DEF Busy
  <2>3. call.size <= memory'[s].size
    BY <1>1, <1>7
  <2> QED BY <1>5, <1>7, <1>8, <2>1, <2>2, <2>3 DEF Got
<1>10. stack => StackOK(m, S, live, call)
  BY DEF StateOK
<1>11. StateOK(memory', live, call', stack, S, M, n - 1)
  BY <1>1, <1>2, <1>3, <1>9, <1>10, BlockTaken
<1>12. IInv'
  BY <1>1, <1>11 DEF IInv
<1>13. SameBlocks(memory, memory', Busy(memory, S))
  BY <1>7, Zenon
<1> QED BY <1>12, <1>13, Zenon DEF Kept

LEMMA WalkOK ==
  ASSUME NEW S, NEW L, NEW n, StateOK(memory, live, call, stack, S, L, n), Walk
  PROVE  IInv'
<1> DEFINE m == memory
<1>1. /\ call.pc = "free" /\ m[call.at].next # NULL
      /\ call' = [call EXCEPT !.at = m[call.at].next]
      /\ memory' = memory /\ live' = live /\ stack' = stack
  BY DEF Walk
<1>2. /\ Consistent(m, S, L, n, Pending(call)) /\ LiveOK(m, S, live)
      /\ call \in CallType /\ Appending(m, S, L, n, call)
      /\ stack => StackOK(m, S, live, call)
  BY <1>1 DEF StateOK, CallOK
<1>3. WellFormed(m, S) /\ ListOK(m, S, L, n, Pending(call)) /\ OnList(L, n, call.at)
  BY <1>2 DEF Consistent, Appending
<1>4. PICK k \in 1 .. n : m[call.at].next = L[k]
  BY <1>1, <1>3, EndOfList
<1>5. L[k] \in Address /\ k \in 0 .. n
  BY <1>3 DEF ListOK
<1>6. /\ call' \in CallType /\ call'.at = L[k] /\ call'.result = call.result
      /\ call'.pc = "free" /\ call'.old = call.old /\ call'.block = call.block
  BY <1>1, <1>2, <1>4, <1>5, CallMoves
<1>7. OnList(L, n, call'.at)
  BY <1>5, <1>6 DEF OnList
<1>8. CallOK(m, S, L, n, live, call') /\ Pending(call') = Pending(call)
  BY <1>1, <1>2, <1>6, <1>7 DEF CallOK, Appending, Pending
<1>9. ASSUME StackOK(m, S, live, call)
      PROVE  StackOK(m, S, live, call')
  <2>1. call.result = NULL
    BY <1>2 DEF Appending
  <2> QED BY <2>1, <1>6, <1>9 DEF StackOK
<1>10. StateOK(m, live, call', stack, S, L, n)
  BY <1>2, <1>8, <1>9 DEF StateOK
<1> QED BY <1>1, <1>10 DEF IInv

(* The segment b behind the last one of the list. *)
Appended(m, a, b) == [m EXCEPT ![a].next = b, ![b].prev = a, ![b].next = NULL]

LEMMA AppendedSets ==
  ASSUME NEW m, DOMAIN m = Address, NEW a \in Address, m[a] \in StartTag,
         NEW b \in Address, m[b] \in StartTag, a # b,
         NEW g, g = Appended(m, a, b)
  PROVE  /\ DOMAIN g = Address
         /\ \A c \in Address : c # a /\ c # b => g[c] = m[c]
         /\ g[a] \in StartTag /\ g[a].isFree = m[a].isFree /\ g[a].size = m[a].size
         /\ g[a].prev = m[a].prev /\ g[a].next = b
         /\ g[b] \in StartTag /\ g[b].isFree = m[b].isFree /\ g[b].size = m[b].size
         /\ g[b].prev = a /\ g[b].next = NULL
<1>1. /\ DOMAIN g = Address
      /\ \A c \in Address : c # a /\ c # b => g[c] = m[c]
      /\ g[a] = [m[a] EXCEPT !.next = b]
      /\ g[b] = [[m[b] EXCEPT !.prev = a] EXCEPT !.next = NULL]
  BY DEF Appended
<1>2. NULL \in Address
  BY TagAssumption DEF NULL, Address
<1> DEFINE t == [m[b] EXCEPT !.prev = a]
<1>3. /\ t \in StartTag /\ t.isFree = m[b].isFree /\ t.size = m[b].size /\ t.prev = a
  BY PrevSet
<1> HIDE DEF t
<1>4. /\ g[b] \in StartTag /\ g[b].isFree = t.isFree /\ g[b].size = t.size
      /\ g[b].prev = t.prev /\ g[b].next = NULL
  <2>1. g[b] = [t EXCEPT !.next = NULL]
    BY <1>1 DEF t
  <2> QED BY <2>1, <1>2, <1>3, NextSet
<1>5. /\ g[a] \in StartTag /\ g[a].isFree = m[a].isFree /\ g[a].size = m[a].size
      /\ g[a].prev = m[a].prev /\ g[a].next = b
  BY <1>1, NextSet
<1> QED BY <1>1, <1>3, <1>4, <1>5

LEMMA AppendsBlock ==
  ASSUME NEW m, NEW S, NEW L, NEW n, NEW b \in S, Consistent(m, S, L, n, {b}),
         m[b].isFree = TRUE, NEW a, a = L[n],
         NEW h, h = Appended(m, a, b)
  PROVE  \E T, M, k : /\ Consistent(JoinRight(h, b, EndOf(m, b)), T, M, k, {})
                      /\ SameUse(m, S, JoinRight(h, b, EndOf(m, b)), T)
<1>1. WellFormed(m, S) /\ ListOK(m, S, L, n, {b}) /\ Coalesced(m, S, {b})
  BY DEF Consistent
<1>2. /\ n \in Nat
      /\ \A i \in 0 .. n : L[i] \in Address /\ m[L[i]] \in StartTag
      /\ \A i \in 0 .. n : i = 0 \/ L[i] \in S
      /\ L[0] = Head
  BY <1>1, ListTags
<1>3. n \in 0 .. n /\ b \in Address /\ m[b] \in StartTag /\ DOMAIN m = Address
  BY <1>1, <1>2 DEF WellFormed
<1>4. b # Head /\ \A i \in 0 .. n : L[i] # b
  <2>1. b # Head
    BY <1>1, TagsApart
  <2>2. \A i \in 1 .. n : L[i] # b
    BY <1>1 DEF ListOK, Listed
  <2>3. \A i \in 0 .. n : i = 0 \/ i \in 1 .. n
    BY <1>2
  <2> QED BY <2>1, <2>2, <2>3, <1>2
<1>5. a \in Address /\ m[a] \in StartTag /\ a # b
  BY <1>2, <1>3, <1>4
<1>6. /\ DOMAIN h = Address
      /\ \A c \in Address : c # a /\ c # b => h[c] = m[c]
      /\ h[a] \in StartTag /\ h[a].isFree = m[a].isFree /\ h[a].size = m[a].size
      /\ h[a].prev = m[a].prev /\ h[a].next = b
      /\ h[b] \in StartTag /\ h[b].isFree = m[b].isFree /\ h[b].size = m[b].size
      /\ h[b].prev = a /\ h[b].next = NULL
  BY <1>3, <1>5, AppendedSets
<1>7. h[Head] \in StartTag
  <2>1. Head \in Address
    BY TagAssumption DEF Head, Address
  <2> QED BY <2>1, <1>1, <1>4, <1>6 DEF WellFormed
<1>8. a = Head \/ a \in S
  BY <1>2, <1>3
<1>9. ASSUME NEW t \in S
      PROVE  /\ h[t] \in StartTag /\ h[t].size = m[t].size /\ h[t].isFree = m[t].isFree
             /\ h[EndOf(m, t)] = [isFree |-> h[t].isFree, size |-> h[t].size]
             /\ \A c \in Cells(m, t) : h[c] = m[c]
  <2>1. /\ t \in Address /\ m[t] \in StartTag
        /\ m[EndOf(m, t)] = [isFree |-> m[t].isFree, size |-> m[t].size]
    BY <1>1 DEF WellFormed
  <2>2. h[t] \in StartTag /\ h[t].size = m[t].size /\ h[t].isFree = m[t].isFree
    BY <1>6, <2>1
  <2>3. /\ EndOf(m, t) \in Address /\ Cells(m, t) \subseteq Address
        /\ EndOf(m, t) \notin S /\ EndOf(m, t) # Head
        /\ Head \notin Cells(m, t)
        /\ \A u \in S : u \notin Cells(m, t)
    BY <1>1, TagsApart
  <2>4. h[EndOf(m, t)] = m[EndOf(m, t)]
    BY <2>3, <1>6, <1>8
  <2>5. \A c \in Cells(m, t) : h[c] = m[c]
    BY <2>3, <1>6, <1>8
  <2> QED BY <2>1, <2>2, <2>4, <2>5
<1>10. /\ WellFormed(h, S)
       /\ \A t \in S : EndOf(h, t) = EndOf(m, t) /\ Behind(h, t) = Behind(m, t)
  BY <1>1, <1>6, <1>7, <1>9, SizesKept
<1>11. Linked(m, h, L, n, b)
  <2>1. \A i \in 0 .. n : /\ h[L[i]].next = IF i = n THEN b ELSE m[L[i]].next
                          /\ h[L[i]].prev = m[L[i]].prev
    <3> SUFFICES ASSUME NEW i \in 0 .. n
                 PROVE  /\ h[L[i]].next = IF i = n THEN b ELSE m[L[i]].next
                        /\ h[L[i]].prev = m[L[i]].prev
      OBVIOUS
    <3>1. CASE i = n
      BY <3>1, <1>6
    <3>2. CASE i # n
      <4>1. L[i] # a
        BY <3>2, <1>1, <1>3 DEF ListOK
      <4> QED BY <4>1, <3>2, <1>2, <1>4, <1>6
    <3> QED BY <3>1, <3>2
  <2> QED BY <2>1, <1>6 DEF Linked
<1>12. Listed(h, S, {}) = Listed(m, S, {b}) \cup {b}
  BY <1>9 DEF Listed
<1>13. b \notin Listed(m, S, {b})
  BY DEF Listed
<1>14. ListOK(h, S, Extended(L, n, b), n + 1, {})
  BY <1>1, <1>3, <1>4, <1>11, <1>12, <1>13, ListGrows
<1>15. Coalesced(h, S, {b})
  BY <1>1, <1>9, <1>10 DEF Coalesced
<1>16. h[b].isFree = TRUE /\ EndOf(h, b) = EndOf(m, b)
  BY <1>9, <1>10
<1> DEFINE g == JoinRight(h, b, EndOf(h, b))
<1>17. \E T, M, k : Consistent(g, T, M, k, {}) /\ SameUse(h, S, g, T)
  BY <1>10, <1>14, <1>15, <1>16, RightJoined
<1> HIDE DEF g
<1>18. PICK T, M, k : Consistent(g, T, M, k, {}) /\ SameUse(h, S, g, T)
  BY <1>17
<1>19. SameUse(m, S, g, T)
  <2>1. Busy(h, S) = Busy(m, S)
    BY <1>9 DEF Busy
  <2>2. SameBlocks(m, h, Busy(m, S))
    BY <1>9 DEF SameBlocks, Busy
  <2>3. SameBlocks(h, g, Busy(m, S))
    BY <1>18, <2>1 DEF SameUse
  <2>4. SameBlocks(m, g, Busy(m, S))
    BY <2>2, <2>3, SameBlocksTwice
  <2> QED BY <1>18, <2>1, <2>4 DEF SameUse
<1>20. g = JoinRight(h, b, EndOf(m, b))
  BY <1>16 DEF g
<1> QED BY <1>18, <1>19, <1>20

LEMMA LiveKept ==
  ASSUME NEW m, NEW S, NEW k, LiveOK(m, S, k),
         NEW g, NEW T, NEW B, SameBlocks(m, g, B), B \subseteq Busy(g, T),
         \A p \in DOMAIN k : p - StartSize \in B
  PROVE  LiveOK(g, T, k)
<1> SUFFICES ASSUME NEW p \in DOMAIN k
             PROVE  InUse(g, T, p, k[p])
  BY DEF LiveOK
<1>1. InUse(m, S, p, k[p]) /\ p - StartSize \in B
  BY DEF LiveOK
<1> QED BY <1>1, InUseKept

LEMMA AppendOK ==
  ASSUME NEW S, NEW L, NEW n, StateOK(memory, live, call, stack, S, L, n), Append
  PROVE  Kept(Busy(memory, S))
<1> DEFINE m == memory
           b == call.block
           h == Appended(m, call.at, b)
           g == JoinRight(h, b, EndOf(m, b))
<1>1. /\ call.pc = "free" /\ m[call.at].next = NULL
      /\ memory' = g
      /\ call' = NoCall
      /\ live' = live /\ stack' = stack
  BY DEF Append, Appended
<1>2. /\ Consistent(m, S, L, n, {b}) /\ LiveOK(m, S, live)
      /\ call \in CallType /\ Appending(m, S, L, n, call)
      /\ stack => StackOK(m, S, live, call)
  BY <1>1 DEF StateOK, CallOK, Pending
<1>3. WellFormed(m, S) /\ ListOK(m, S, L, n, {b}) /\ OnList(L, n, call.at)
  BY <1>2 DEF Consistent, Appending
<1>4. call.at = L[n]
  BY <1>1, <1>3, EndOfList
<1>5. b \in S /\ m[b].isFree = TRUE
  BY <1>2, <1>3 DEF Appending, WellFormed, StartTag
<1>6. \E T, M, k : Consistent(g, T, M, k, {}) /\ SameUse(m, S, g, T)
  BY <1>2, <1>4, <1>5, AppendsBlock
<1> HIDE DEF g
<1>7. PICK T, M, k : Consistent(g, T, M, k, {}) /\ SameUse(m, S, g, T)
  BY <1>6
<1>8. T \subseteq S /\ Busy(g, T) = Busy(m, S) /\ SameBlocks(m, g, Busy(m, S))
  BY <1>7 DEF SameUse
<1>9. LiveOK(g, T, live)
  <2>1. \A p \in DOMAIN live : p - StartSize \in Busy(m, S)
    BY <1>2 DEF LiveOK, InUse
  <2> QED BY <2>1, <1>2, <1>8, LiveKept
<1>10. ASSUME StackOK(m, S, live, call)
       PROVE  StackOK(g, T, live, NoCall)
  <2>1. \A t \in T : g[t].isFree => t = FirstSegment
    BY <1>8, <1>10 DEF StackOK, Busy
  <2>2. \A t \in Busy(g, T) : DataOf(t) \in DOMAIN live \cup {NoCall.result}
    BY <1>2, <1>8, <1>10 DEF StackOK, NoCall, Appending
  <2> QED BY <2>1, <2>2 DEF StackOK, NoCall
<1>11. CallOK(g, T, M, k, live, NoCall) /\ Pending(NoCall) = {}
  BY NoCallOK
<1>12. StateOK(g, live, NoCall, stack, T, M, k)
  BY <1>2, <1>7, <1>9, <1>10, <1>11 DEF StateOK
<1>13. IInv'
  BY <1>1, <1>12 DEF IInv
<1> QED BY <1>1, <1>8, <1>13 DEF Kept

(* What a user like a stack frees is its lowest block. *)
StackFree(m, S, k, p) ==
  /\ \A s \in S : m[s].isFree => s = FirstSegment
  /\ \A s \in Busy(m, S) : DataOf(s) \in DOMAIN k \cup {p} /\ p <= DataOf(s)

(* The head of Free, on the memory m; afterwards the user holds the blocks in k. *)
LEMMA FreeOK ==
  ASSUME NEW m, NEW S, NEW L, NEW n, Consistent(m, S, L, n, {}),
         NEW p \in Address, p - StartSize \in Busy(m, S), StartFree(m, p),
         NEW k, LiveOK(m, S, k), p \notin DOMAIN k,
         NEW st, st => StackFree(m, S, k, p)
  PROVE  /\ \E T, M, j : StateOK(memory', k, call', st, T, M, j)
         /\ SameBlocks(m, memory', Busy(m, S) \ {p - StartSize})
<1> DEFINE s == p - StartSize
           g == memory'
<1>1. p \in Int /\ p = DataOf(s) /\ \A q \in Address : q # p => q - StartSize # s
  BY TagAssumption DEF Address, DataOf
<1>2. Ended(m, S, s, g, call') \/ ToAppend(m, S, L, n, s, g, call')
  BY <1>1, StartFreeDoes
<1> HIDE DEF s
<1>3. s \in Busy(m, S) /\ s \in S /\ Laid(m, S) /\ WellFormed(m, S)
  BY LaidOut DEF s, Busy, Consistent
<1>4. \A q \in DOMAIN k : q - StartSize \in Busy(m, S) \ {s}
  BY <1>1 DEF LiveOK, InUse
<1>5. ASSUME NEW T, Freed(m, S, g, T, s)
      PROVE  LiveOK(g, T, k)
  <2>1. Busy(g, T) = Busy(m, S) \ {s} /\ SameBlocks(m, g, Busy(m, S) \ {s})
    BY <1>5 DEF Freed
  <2> QED BY <2>1, <1>4, LiveKept
<1>6. ASSUME NEW T, NEW c, Freed(m, S, g, T, s), StackFree(m, S, k, p),
             c.result = NULL, c.old = NULL, T \subseteq S \ {s} \/ s = FirstSegment
      PROVE  StackOK(g, T, k, c)
  <2>1. T \subseteq S /\ Busy(g, T) = Busy(m, S) \ {s}
    BY <1>6 DEF Freed
  <2>2. \A t \in T : g[t].isFree => t = FirstSegment
    BY <2>1, <1>6 DEF StackFree, Busy
  <2>3. \A t \in Busy(g, T) : DataOf(t) \in DOMAIN k
    <3> SUFFICES ASSUME NEW t \in Busy(m, S), t # s
                 PROVE  DataOf(t) \in DOMAIN k
      BY <2>1
    <3>1. t \in Nat /\ s \in Nat
      BY <1>3 DEF Busy, Laid
    <3>2. DataOf(t) # p
      BY <3>1, <1>1, TagAssumption DEF DataOf
    <3> QED BY <3>2, <1>6 DEF StackFree
  <2> QED BY <2>2, <2>3, <1>6 DEF StackOK
<1>7. CASE Ended(m, S, s, g, call')
  <2>1. PICK T, M, j : /\ Consistent(g, T, M, j, {})
                       /\ Freed(m, S, g, T, s) /\ T \subseteq S \ {s}
    BY <1>7 DEF Ended
  <2>2. call' = NoCall /\ CallOK(g, T, M, j, k, NoCall) /\ Pending(NoCall) = {}
    BY <1>7, NoCallOK DEF Ended
  <2>3. NoCall.result = NULL /\ NoCall.old = NULL
    BY DEF NoCall
  <2>4. st => StackOK(g, T, k, call')
    BY <1>6, <2>1, <2>2, <2>3
  <2>5. StateOK(g, k, call', st, T, M, j)
    BY <1>5, <2>1, <2>2, <2>4 DEF StateOK
  <2>6. SameBlocks(m, g, Busy(m, S) \ {s})
    BY <2>1 DEF Freed
  <2> QED BY <2>5, <2>6 DEF s
<1>8. CASE ToAppend(m, S, L, n, s, g, call')
  <2>1. /\ call' = [NoCall EXCEPT !.pc = "free", !.block = s]
        /\ Consistent(g, S, L, n, {s})
        /\ Freed(m, S, g, S, s)
        /\ s \in S /\ g[s].isFree
        /\ s = FirstSegment \/ \E r \in S \ {s} : Behind(m, r) = s /\ r < s /\ ~ m[r].isFree
    BY <1>8 DEF ToAppend
  <2>2. Head \in Address /\ NULL \in Address /\ s \in Address
    BY <2>1, TagAssumption DEF Head, NULL, Address, Consistent, WellFormed
  <2>3. /\ call' \in CallType /\ call'.pc = "free" /\ call'.at = Head
        /\ call'.result = NULL /\ call'.old = NULL /\ call'.block = s
    BY <2>1, <2>2 DEF NoCall, CallType
  <2>4. OnList(L, n, Head)
    <3>1. 0 \in 0 .. n /\ L[0] = Head
      BY <2>1 DEF Consistent, ListOK
    <3> QED BY <3>1 DEF OnList
  <2>5. CallOK(g, S, L, n, k, call') /\ Pending(call') = {s}
    BY <2>1, <2>3, <2>4 DEF CallOK, Appending, Pending
  <2>6. StackFree(m, S, k, p) => s = FirstSegment
    <3> SUFFICES ASSUME StackFree(m, S, k, p), s # FirstSegment PROVE FALSE
      OBVIOUS
    <3>1. PICK r \in S \ {s} : r < s /\ ~ m[r].isFree
      BY <2>1
    <3>2. p <= DataOf(r)
      BY <3>1 DEF StackFree, Busy
    <3>3. r \in Nat /\ s \in Nat
      BY <1>3 DEF Laid
    <3> QED BY <3>1, <3>2, <3>3, <1>1, TagAssumption DEF DataOf
  <2>7. st => StackOK(g, S, k, call')
    BY <1>6, <2>1, <2>3, <2>6
  <2>8. StateOK(g, k, call', st, S, L, n)
    BY <1>5, <2>1, <2>5, <2>7 DEF StateOK
  <2>9. SameBlocks(m, g, Busy(m, S) \ {s})
    BY <2>1 DEF Freed
  <2> QED BY <2>8, <2>9 DEF s
<1> QED BY <1>2, <1>7, <1>8

(* Between the calls nothing is pending, and no segment is lost sight of. *)
LEMMA Idle ==
  ASSUME NEW S, NEW L, NEW n, StateOK(memory, live, call, stack, S, L, n), call = NoCall
  PROVE  /\ Consistent(memory, S, L, n, {})
         /\ LiveOK(memory, S, live)
         /\ stack => /\ \A s \in S : memory[s].isFree => s = FirstSegment
                     /\ \A s \in Busy(memory, S) : DataOf(s) \in DOMAIN live
<1>1. Consistent(memory, S, L, n, {}) /\ LiveOK(memory, S, live)
  BY DEF StateOK, Pending, NoCall
<1>2. ASSUME StackOK(memory, S, live, call)
      PROVE  /\ \A s \in S : memory[s].isFree => s = FirstSegment
             /\ \A s \in Busy(memory, S) : DataOf(s) \in DOMAIN live
  <2>1. \A s \in Busy(memory, S) : DataOf(s) # NULL
    <3>1. \A s \in S : s \in Nat
      BY <1>1, LaidOut DEF Consistent, Laid
    <3> QED BY <3>1, TagAssumption DEF Busy, DataOf, NULL
  <2> QED BY <2>1, <1>2 DEF StackOK, NoCall
<1> QED BY <1>1, <1>2 DEF StateOK

(* The head of Alloc. *)
LEMMA AllocStarts ==
  ASSUME NEW S, NEW L, NEW n, StateOK(memory, live, call, stack, S, L, n), call = NoCall,
         NEW size \in Size, NEW p, p = NULL \/ (p \in DOMAIN live /\ size > 0 /\ ~ stack),
         call' = [pc |-> "alloc", at |-> Head, size |-> size,
                  result |-> NULL, old |-> p, block |-> NULL],
         memory' = memory, live' = live, stack' = stack
  PROVE  IInv'
<1> DEFINE m == memory
<1>1. /\ Consistent(m, S, L, n, {}) /\ LiveOK(m, S, live)
      /\ stack => /\ \A s \in S : m[s].isFree => s = FirstSegment
                  /\ \A s \in Busy(m, S) : DataOf(s) \in DOMAIN live
  BY Idle
<1>2. Head \in Address /\ NULL \in Address
  BY TagAssumption DEF Head, NULL, Address
<1>3. p \in Address /\ size \in Nat
  BY <1>1, <1>2, TagAssumption DEF LiveOK, InUse
<1>4. /\ call' \in CallType /\ call'.pc = "alloc" /\ call'.at = Head
      /\ call'.size = size /\ call'.result = NULL /\ call'.old = p
  BY <1>2, <1>3 DEF CallType
<1>5. \E k \in 0 .. n : call'.at = L[k] /\ \A i \in 1 .. k : m[L[i]].size < call'.size
  <2>1. 0 \in 0 .. n /\ L[0] = Head
    BY <1>1 DEF Consistent, ListOK
  <2> QED BY <2>1, <1>4
<1>6. Searching(m, S, L, n, live, call')
  BY <1>4, <1>5 DEF Searching
<1>7. CallOK(m, S, L, n, live, call') /\ Pending(call') = {}
  BY <1>4, <1>6 DEF CallOK, Pending
<1>8. stack => StackOK(m, S, live, call')
  BY <1>1, <1>4 DEF StackOK
<1>9. StateOK(m, live, call', stack, S, L, n)
  BY <1>1, <1>7, <1>8 DEF StateOK
<1> QED BY <1>9 DEF IInv

LEMMA AllocOK ==
  ASSUME NEW S, NEW L, NEW n, StateOK(memory, live, call, stack, S, L, n),
         NEW size \in Size, Alloc(size)
  PROVE  IInv'
<1>1. /\ call = NoCall /\ memory' = memory /\ live' = live /\ stack' = stack
      /\ call' = [pc |-> "alloc", at |-> Head, size |-> size,
                  result |-> NULL, old |-> NULL, block |-> NULL]
  BY DEF Alloc, NoCall
<1> QED BY <1>1, AllocStarts

(* Free, and ReAlloc to no bytes. *)
LEMMA UserFrees ==
  ASSUME NEW S, NEW L, NEW n, StateOK(memory, live, call, stack, S, L, n), call = NoCall,
         NEW p \in DOMAIN live, stack => \A q \in DOMAIN live : p <= q,
         StartFree(memory, p), live' = Without(live, p), stack' = stack
  PROVE  Kept(Busy(memory, S) \ {p - StartSize})
<1> DEFINE m == memory
           k == Without(live, p)
<1>1. /\ Consistent(m, S, L, n, {}) /\ LiveOK(m, S, live)
      /\ stack => /\ \A s \in S : m[s].isFree => s = FirstSegment
                  /\ \A s \in Busy(m, S) : DataOf(s) \in DOMAIN live
  BY Idle
<1>2. p \in Address /\ p - StartSize \in Busy(m, S)
  BY <1>1 DEF LiveOK, InUse
<1>3. DOMAIN k = DOMAIN live \ {p} /\ \A q \in DOMAIN k : k[q] = live[q]
  BY DEF Without
<1> HIDE DEF k
<1>4. LiveOK(m, S, k)
  BY <1>1, <1>3 DEF LiveOK
<1>5. stack => StackFree(m, S, k, p)
  BY <1>1, <1>3 DEF StackFree
<1>6. /\ \E T, M, j : StateOK(memory', k, call', stack, T, M, j)
      /\ SameBlocks(m, memory', Busy(m, S) \ {p - StartSize})
  BY <1>1, <1>2, <1>3, <1>4, <1>5, FreeOK
<1>7. IInv'
  BY <1>6 DEF IInv, k
<1> QED BY <1>6, <1>7 DEF Kept

LEMMA ReturnNullOK ==
  ASSUME NEW S, NEW L, NEW n, StateOK(memory, live, call, stack, S, L, n), ReturnNull
  PROVE  /\ IInv'
         /\ \A s \in S : memory[s].isFree => memory[s].size < call.size
<1> DEFINE m == memory
<1>1. /\ call.pc = "alloc" /\ m[call.at].next = NULL /\ call.result = NULL
      /\ call' = NoCall /\ memory' = memory /\ live' = live /\ stack' = stack
  BY DEF ReturnNull, AllocEnds
<1>2. AllocRuns(m, S, L, n, live, call)
  BY <1>1, AllocState
<1>3. /\ Consistent(m, S, L, n, {}) /\ Searching(m, S, L, n, live, call)
      /\ LiveOK(m, S, live)
  BY <1>2 DEF AllocRuns
<1>4. WellFormed(m, S) /\ ListOK(m, S, L, n, {})
  BY <1>3 DEF Consistent
<1>5. \A s \in S : m[s].isFree => m[s].size < call.size
  <2>1. PICK k \in 0 .. n : call.at = L[k] /\ \A i \in 1 .. k : m[L[i]].size < call.size
    BY <1>1, <1>3 DEF Searching
  <2>2. OnList(L, n, call.at)
    BY <2>1 DEF OnList
  <2>3. call.at = L[n]
    BY <2>2, <1>1, <1>4, EndOfList
  <2>4. k = n
    <3>1. n \in 0 .. n /\ \A i, j \in 0 .. n : L[i] = L[j] => i = j
      BY <1>4 DEF ListOK
    <3> QED BY <2>1, <2>3, <3>1
  <2>5. \A s \in S : m[s].isFree => \E i \in 1 .. n : L[i] = s
    BY <1>4 DEF ListOK, Listed
  <2> QED BY <2>1, <2>4, <2>5
<1>6. ASSUME StackOK(m, S, live, call)
      PROVE  StackOK(m, S, live, NoCall)
  BY <1>1, <1>6 DEF StackOK, NoCall
<1>7. CallOK(m, S, L, n, live, NoCall) /\ Pending(NoCall) = {}
  BY NoCallOK
<1>8. StateOK(m, live, NoCall, stack, S, L, n)
  BY <1>3, <1>6, <1>7 DEF StateOK
<1>9. IInv'
  BY <1>1, <1>8 DEF IInv
<1> QED BY <1>5, <1>9

LEMMA ReturnResultOK ==
  ASSUME NEW S, NEW L, NEW n, StateOK(memory, live, call, stack, S, L, n), ReturnResult
  PROVE  IInv'
<1> DEFINE m == memory
           k == With(live, call.result, call.size)
<1>1. /\ call.pc = "alloc" /\ call.result # NULL
      /\ call' = NoCall /\ memory' = memory /\ live' = k /\ stack' = stack
  BY DEF ReturnResult, AllocEnds
<1>2. AllocRuns(m, S, L, n, live, call)
  BY <1>1, AllocState
<1>3. /\ Consistent(m, S, L, n, {}) /\ LiveOK(m, S, live)
      /\ InUse(m, S, call.result, call.size)
  BY <1>1, <1>2 DEF AllocRuns, Searching
<1>4. /\ DOMAIN k = DOMAIN live \cup {call.result}
      /\ \A p \in DOMAIN k : k[p] = IF p = call.result THEN call.size ELSE live[p]
  BY DEF With
<1> HIDE DEF k
<1>5. LiveOK(m, S, k)
  BY <1>3, <1>4 DEF LiveOK
<1>6. ASSUME StackOK(m, S, live, call)
      PROVE  StackOK(m, S, k, NoCall)
  BY <1>4, <1>6 DEF StackOK, NoCall
<1>7. CallOK(m, S, L, n, k, NoCall) /\ Pending(NoCall) = {}
  BY NoCallOK
<1>8. StateOK(m, k, NoCall, stack, S, L, n)
  BY <1>3, <1>5, <1>6, <1>7 DEF StateOK
<1> QED BY <1>1, <1>8 DEF IInv

LEMMA FreeStepOK ==
  ASSUME NEW S, NEW L, NEW n, StateOK(memory, live, call, stack, S, L, n),
         NEW p \in DOMAIN live, Free(p)
  PROVE  Kept(Busy(memory, S) \ {p - StartSize})
BY UserFrees DEF Free

LEMMA ReAllocOK ==
  ASSUME NEW S, NEW L, NEW n, StateOK(memory, live, call, stack, S, L, n),
         NEW p \in DOMAIN live, NEW size \in Size, ReAlloc(p, size)
  PROVE  /\ size > 0 => IInv' /\ memory' = memory /\ live' = live
         /\ ~ (size > 0) => /\ live' = Without(live, p)
                            /\ Kept(Busy(memory, S) \ {p - StartSize})
<1>1. call = NoCall /\ ~ stack /\ stack' = stack
  BY DEF ReAlloc
<1>2. ASSUME size > 0
      PROVE  IInv' /\ memory' = memory /\ live' = live
  <2>1. /\ memory' = memory /\ live' = live
        /\ call' = [pc |-> "alloc", at |-> Head, size |-> size,
                    result |-> NULL, old |-> p, block |-> NULL]
    BY <1>2 DEF ReAlloc, NoCall
  <2> QED BY <1>1, <1>2, <2>1, AllocStarts
<1>3. ASSUME ~ (size > 0)
      PROVE  live' = Without(live, p) /\ Kept(Busy(memory, S) \ {p - StartSize})
  <2>1. StartFree(memory, p) /\ live' = Without(live, p)
    BY <1>3 DEF ReAlloc
  <2> QED BY <1>1, <2>1, UserFrees
<1> QED BY <1>2, <1>3

(* ReAlloc moves the block: in the new one are the bytes of the old one. *)
LEMMA CopyOK ==
  ASSUME NEW S, NEW L, NEW n, StateOK(memory, live, call, stack, S, L, n), Copy
  PROVE  /\ Kept(Busy(memory, S) \ {call.old - StartSize, call.result - StartSize})
         /\ InUse(memory, S, call.result, call.size)
         /\ call.old \in DOMAIN live /\ call.result \notin DOMAIN live
         /\ \A i \in Nat : i < call.size /\ i < live[call.old] =>
              memory'[call.result + i] = memory[call.old + i]
<1> DEFINE m == memory
           p == call.old
           q == call.result
           old == m[p - StartSize].size
           count == IF call.size <= old THEN call.size ELSE old
           h == memcpy(m, q, p, count)
           k == With(Without(live, p), q, call.size)
<1>1. /\ call.pc = "alloc" /\ q # NULL /\ p # NULL
      /\ StartFree(h, p)
      /\ live' = k /\ stack' = stack
  BY DEF Copy, AllocEnds
<1>2. AllocRuns(m, S, L, n, live, call)
  BY <1>1, AllocState
<1>3. /\ Consistent(m, S, L, n, {}) /\ LiveOK(m, S, live)
      /\ InUse(m, S, q, call.size) /\ q \notin DOMAIN live /\ p \in DOMAIN live
  BY <1>1, <1>2 DEF AllocRuns, Searching
<1>4. InUse(m, S, p, live[p])
  BY <1>3 DEF LiveOK
<1>5. /\ p \in Address /\ p - StartSize \in Busy(m, S)
      /\ live[p] \in Nat /\ live[p] <= old
      /\ q \in Address /\ q - StartSize \in Busy(m, S)
      /\ call.size \in Nat /\ call.size <= m[q - StartSize].size
  BY <1>3, <1>4 DEF InUse
<1>6. WellFormed(m, S) /\ Laid(m, S)
  BY <1>3, LaidOut DEF Consistent
<1>7. p - StartSize \in S /\ q - StartSize \in S
  BY <1>5 DEF Busy
<1> DEFINE s == q - StartSize
<1>8. /\ old \in Nat /\ m[s].size \in Nat
      /\ Cells(m, s) = q .. q + m[s].size - 1
      /\ count \in Nat /\ count <= call.size /\ count <= m[s].size
      /\ \A i \in Nat : i < call.size /\ i < live[p] => i < count
  <2>1. /\ old \in Nat /\ m[s].size \in Nat /\ q \in Int
        /\ EndOf(m, s) = s + StartSize + m[s].size
    BY <1>5, <1>6, <1>7, TagAssumption DEF Laid, Address
  <2>2. Cells(m, s) = q .. q + m[s].size - 1
    BY <2>1, TagAssumption DEF Cells, DataOf
  <2> QED BY <1>5, <2>1, <2>2
<1> HIDE DEF count
<1>9. /\ DOMAIN h = Address
      /\ \A c \in Address : c \notin q .. q + count - 1 => h[c] = m[c]
      /\ \A i \in Nat : i < count /\ q + i \in Address => h[q + i] = m[p + i]
  <2>1. DOMAIN h = Address
        /\ \A c \in Address : h[c] = IF c \in q .. q + count - 1 THEN m[p + c - q] ELSE m[c]
    BY <1>6 DEF memcpy, WellFormed
  <2>2. \A i \in Nat : i < count => q + i \in q .. q + count - 1 /\ p + (q + i) - q = p + i
    <3>1. p \in Int /\ q \in Int /\ count \in Nat
      BY <1>5, <1>8, TagAssumption DEF Address
    <3> QED BY <3>1
  <2>3. ASSUME NEW i \in Nat, i < count, q + i \in Address PROVE h[q + i] = m[p + i]
    <3>1. PICK c : c = q + i
      OBVIOUS
    <3>2. c \in Address /\ c \in q .. q + count - 1 /\ p + c - q = p + i
      BY <2>2, <2>3, <3>1
    <3> QED BY <2>1, <3>1, <3>2
  <2>4. \A c \in Address : c \notin q .. q + count - 1 => h[c] = m[c]
    BY <2>1
  <2> QED BY <2>1, <2>3, <2>4
<1> HIDE DEF h
<1>10. DataWritten(m, S, h, s)
  <2>1. \A c \in Address : c \notin Cells(m, s) => c \notin q .. q + count - 1
    BY <1>5, <1>8, TagAssumption, SMTT(30) DEF Address
  <2> QED BY <1>7, <1>9, <2>1 DEF DataWritten
<1>11. WellFormed(h, S) /\ TagsKept(m, S, h) /\ SameBlocks(m, h, S \ {s})
  BY <1>6, <1>10, DataKept
<1>12. Consistent(h, S, L, n, {}) /\ Busy(h, S) = Busy(m, S)
  BY <1>3, <1>11, ConsistentKept
<1>13. /\ DOMAIN k = (DOMAIN live \ {p}) \cup {q}
       /\ \A r \in DOMAIN k : k[r] = IF r = q THEN call.size ELSE live[r]
  BY DEF With, Without
<1>14. p # q
  BY <1>3
<1> HIDE DEF k
<1>15. LiveOK(h, S, k)
  <2> SUFFICES ASSUME NEW r \in DOMAIN k
               PROVE  InUse(h, S, r, k[r])
    BY DEF LiveOK
  <2>1. InUse(m, S, r, k[r])
    BY <1>3, <1>13 DEF LiveOK
  <2>2. r - StartSize \in Busy(m, S) /\ r - StartSize \in S
    BY <2>1 DEF InUse, Busy
  <2>3. h[r - StartSize] = m[r - StartSize]
    BY <2>2, <1>11 DEF TagsKept
  <2> QED BY <2>1, <2>2, <2>3, <1>12 DEF InUse
<1>16. ~ stack
  BY <1>1 DEF StateOK, StackOK
<1>17. /\ \E T, M, j : StateOK(memory', k, call', stack, T, M, j)
       /\ SameBlocks(h, memory', Busy(h, S) \ {p - StartSize})
  <2>1. p - StartSize \in Busy(h, S) /\ p \notin DOMAIN k
    BY <1>5, <1>12, <1>13, <1>14
  <2> QED BY <2>1, <1>1, <1>5, <1>12, <1>15, <1>16, FreeOK
<1>18. IInv'
  BY <1>1, <1>17 DEF IInv
<1>19. SameBlocks(m, memory', Busy(m, S) \ {p - StartSize, s})
  <2>1. Busy(m, S) \ {p - StartSize, s} \subseteq S \ {s}
    BY DEF Busy
  <2>2. Busy(m, S) \ {p - StartSize, s} \subseteq Busy(h, S) \ {p - StartSize}
    BY <1>12
  <2> QED BY <2>1, <2>2, <1>11, <1>17, SameBlocksTwice
<1>20. ASSUME NEW i \in Nat, i < call.size, i < live[p]
       PROVE  memory'[q + i] = m[p + i]
  <2>1. i < count
    BY <1>8, <1>20
  <2>2. q + i \in Cells(m, s) /\ q + i \in Address
    <3>1. q + i \in Cells(m, s)
      <4>1. q \in Int /\ count \in Nat /\ m[s].size \in Nat /\ count <= m[s].size
        BY <1>5, <1>8, TagAssumption DEF Address
      <4>2. q + i \in q .. q + m[s].size - 1
        BY <2>1, <4>1
      <4> QED BY <4>2, <1>8
    <3> QED BY <3>1, <1>6, <1>7, TagsApart
  <2>3. h[q + i] = m[p + i]
    BY <2>1, <2>2, <1>9
  <2>4. s \in Busy(h, S) \ {p - StartSize}
    BY <1>5, <1>12, <1>14, TagAssumption DEF Address
  <2>5. Cells(h, s) = Cells(m, s)
    BY <1>7, <1>11 DEF TagsKept, Cells
  <2>6. memory'[q + i] = h[q + i]
    BY <2>2, <2>4, <2>5, <1>17 DEF SameBlocks
  <2> QED BY <2>3, <2>6
<1> QED BY <1>3, <1>18, <1>19, <1>20 DEF Kept

(* The user writes to its data, and there are no tags. *)
LEMMA WriteOK ==
  ASSUME NEW S, NEW L, NEW n, StateOK(memory, live, call, stack, S, L, n),
         NEW p \in DOMAIN live, NEW i \in Address, NEW v \in Value, Write(p, i, v)
  PROVE  /\ Kept(Busy(memory, S) \ {p - StartSize})
         /\ live' = live
         /\ memory' = [memory EXCEPT ![p + i] = v] /\ p + i \in Address
<1> DEFINE m == memory
           s == p - StartSize
<1>1. /\ call = NoCall /\ i < live[p]
      /\ memory' = [m EXCEPT ![p + i] = v]
      /\ live' = live /\ call' = call /\ stack' = stack
  BY DEF Write
<1>2. /\ Consistent(m, S, L, n, {}) /\ LiveOK(m, S, live)
      /\ stack => /\ \A t \in S : m[t].isFree => t = FirstSegment
                  /\ \A t \in Busy(m, S) : DataOf(t) \in DOMAIN live
  BY <1>1, Idle
<1>3. WellFormed(m, S) /\ Laid(m, S) /\ InUse(m, S, p, live[p])
  BY <1>2, LaidOut DEF Consistent, LiveOK
<1>4. /\ p \in Address /\ s \in Busy(m, S) /\ s \in S
      /\ live[p] \in Nat /\ live[p] <= m[s].size
  BY <1>3 DEF InUse, Busy
<1>5. p + i \in Cells(m, s)
  <2>1. m[s].size \in Nat /\ p \in Int /\ i \in Nat /\ i < live[p]
        /\ EndOf(m, s) = s + StartSize + m[s].size
    BY <1>1, <1>3, <1>4, TagAssumption DEF Laid, Address
  <2>2. Cells(m, s) = p .. p + m[s].size - 1
    BY <2>1, TagAssumption DEF Cells, DataOf
  <2>3. p + i \in p .. p + m[s].size - 1
    BY <1>4, <2>1
  <2> QED BY <2>2, <2>3
<1>6. p + i \in Address
  BY <1>3, <1>4, <1>5, TagsApart
<1> HIDE DEF s
<1>7. DataWritten(m, S, memory', s)
  BY <1>1, <1>3, <1>4, <1>5 DEF DataWritten, WellFormed
<1>8. WellFormed(memory', S) /\ TagsKept(m, S, memory') /\ SameBlocks(m, memory', S \ {s})
  BY <1>3, <1>7, DataKept
<1>9. Consistent(memory', S, L, n, {}) /\ Busy(memory', S) = Busy(m, S)
  BY <1>2, <1>8, ConsistentKept
<1>10. \A t \in S : memory'[t] = m[t]
  BY <1>8 DEF TagsKept
<1>11. LiveOK(memory', S, live)
  <2> SUFFICES ASSUME NEW q \in DOMAIN live
               PROVE  InUse(memory', S, q, live[q])
    BY DEF LiveOK
  <2>1. InUse(m, S, q, live[q])
    BY <1>2 DEF LiveOK
  <2>2. q - StartSize \in Busy(m, S) /\ q - StartSize \in S
    BY <2>1 DEF InUse, Busy
  <2> QED BY <2>1, <2>2, <1>9, <1>10 DEF InUse
<1>12. ASSUME StackOK(m, S, live, NoCall)
       PROVE  StackOK(memory', S, live, NoCall)
  BY <1>9, <1>10, <1>12 DEF StackOK, NoCall
<1>13. CallOK(memory', S, L, n, live, NoCall) /\ Pending(NoCall) = {}
  BY NoCallOK
<1>14. StateOK(memory', live, NoCall, stack, S, L, n)
  BY <1>1, <1>9, <1>11, <1>12, <1>13 DEF StateOK
<1>15. IInv'
  BY <1>1, <1>14 DEF IInv
<1>16. SameBlocks(m, memory', Busy(m, S) \ {s})
  BY <1>8 DEF SameBlocks, Busy
<1> QED BY <1>1, <1>6, <1>15, <1>16 DEF Kept, s

-----------------------------------------------------------------------------
(* The constructor lays out one segment, and it is the list. *)
LEMMA InitOK ==
  ASSUME Init
  PROVE  IInv
<1> DEFINE size  == MemSize - (2 * StartSize + EndSize)
           e     == MemSize - EndSize
           empty == [a \in Address |-> Junk]
           tag0  == [isFree |-> TRUE, size |-> MemSize - StartSize,
                     prev |-> NULL, next |-> FirstSegment]
           tag1  == [isFree |-> TRUE, size |-> size, prev |-> NULL, next |-> NULL]
           tag2  == [isFree |-> TRUE, size |-> size]
           head  == Put(empty, Head, StartSize, tag0)
           first == Put(head, FirstSegment, StartSize, tag1)
           S     == {FirstSegment}
           L     == [i \in 0 .. 1 |-> IF i = 0 THEN Head ELSE FirstSegment]
<1>1. /\ memory = Put(first, e, EndSize, tag2)
      /\ live = [p \in {} |-> 0] /\ call = NoCall
  BY DEF Init, PutStart, PutEnd
<1>2. /\ size \in 0 .. MemSize /\ MemSize - StartSize \in 0 .. MemSize
      /\ Head \in Address /\ NULL \in Address /\ FirstSegment \in Address /\ e \in Address
      /\ e = FirstSegment + StartSize + size /\ FirstSegment > 0
      /\ Head = 0 /\ NULL = 0 /\ FirstSegment = StartSize
  BY TagAssumption DEF Head, NULL, FirstSegment, Address
<1>3. tag0 \in StartTag /\ tag1 \in StartTag
  <2> HIDE DEF size
  <2> QED BY <1>2 DEF StartTag
<1>4. /\ tag0.next = FirstSegment
      /\ tag1.isFree = TRUE /\ tag1.size = size /\ tag1.prev = Head /\ tag1.next = NULL
  BY DEF Head, NULL
<1>5. DOMAIN empty = Address
  OBVIOUS
<1> HIDE DEF size, e, empty, tag0, tag1, head, first
<1>6. DOMAIN head = Address /\ head[Head] = tag0
  BY <1>2, <1>5, PutSets, TagAssumption DEF head
<1>7. /\ DOMAIN first = Address /\ first[FirstSegment] = tag1
      /\ \A c \in Address :
           c \notin FirstSegment .. FirstSegment + StartSize - 1 => first[c] = head[c]
  BY <1>2, <1>6, PutSets, TagAssumption DEF first
<1>8. /\ DOMAIN memory = Address /\ memory[e] = tag2
      /\ \A c \in Address : c \notin e .. e + EndSize - 1 => memory[c] = first[c]
  BY <1>1, <1>2, <1>7, PutSets, TagAssumption
<1>9. /\ Head \notin FirstSegment .. FirstSegment + StartSize - 1
      /\ Head \notin e .. e + EndSize - 1
      /\ FirstSegment \notin e .. e + EndSize - 1
  BY <1>2, TagAssumption
<1>10. memory[Head] = tag0 /\ memory[FirstSegment] = tag1
  BY <1>2, <1>6, <1>7, <1>8, <1>9
<1>11. EndOf(memory, FirstSegment) = e /\ Behind(memory, FirstSegment) = MemSize
  <2>1. EndOf(memory, FirstSegment) = e
    BY <1>2, <1>4, <1>10 DEF EndOf, DataOf
  <2> QED BY <2>1, TagAssumption DEF Behind, e
<1>12. memory[EndOf(memory, FirstSegment)]
         = [isFree |-> memory[FirstSegment].isFree, size |-> memory[FirstSegment].size]
  BY <1>4, <1>8, <1>10, <1>11
<1>13. WellFormed(memory, S)
  <2>1. \A s \in S : s = FirstSegment /\ s >= FirstSegment
    BY <1>2, TagAssumption
  <2>2. \A r, s \in S : ~ (r < s)
    BY <1>2, TagAssumption
  <2> QED BY <2>1, <2>2, <1>2, <1>3, <1>8, <1>10, <1>11, <1>12 DEF WellFormed
<1>14. /\ L \in [0 .. 1 -> Address] /\ L[0] = Head /\ L[1] = FirstSegment
       /\ Head # FirstSegment
  BY <1>2
<1>15. Listed(memory, S, {}) = {FirstSegment}
  BY <1>4, <1>10 DEF Listed
<1>16. memory[Head].next = FirstSegment
       /\ memory[FirstSegment].prev = Head /\ memory[FirstSegment].next = NULL
  BY <1>4, <1>10
<1> HIDE DEF L, S
<1>17. ListOK(memory, S, L, 1, {})
  <2>1. \A i, j \in 0 .. 1 : L[i] = L[j] => i = j
    BY <1>14
  <2>2. \A i \in 1 .. 1 : L[i] = FirstSegment
    BY <1>14
  <2>3. \A i \in 0 .. 1 - 1 : memory[L[i]].next = L[i + 1] /\ memory[L[i + 1]].prev = L[i]
    BY <1>14, <1>16
  <2>4. \A s \in Listed(memory, S, {}) : \E i \in 1 .. 1 : L[i] = s
    BY <1>14, <1>15
  <2> QED BY <2>1, <2>2, <2>3, <2>4, <1>14, <1>15, <1>16 DEF ListOK
<1>18. Coalesced(memory, S, {})
  <2>1. \A s \in S : Behind(memory, s) \notin S
    BY <1>2, <1>11, TagAssumption DEF S, Address
  <2> QED BY <2>1 DEF Coalesced
<1>19. StackOK(memory, S, live, NoCall)
  BY <1>4, <1>10 DEF StackOK, NoCall, S, Busy
<1>20. CallOK(memory, S, L, 1, live, NoCall) /\ Pending(NoCall) = {}
  BY NoCallOK
<1>21. LiveOK(memory, S, live)
  BY <1>1 DEF LiveOK
<1>22. StateOK(memory, live, call, stack, S, L, 1)
  BY <1>1, <1>13, <1>17, <1>18, <1>19, <1>20, <1>21 DEF StateOK, Consistent
<1> QED BY <1>22 DEF IInv

-----------------------------------------------------------------------------
LEMMA StepKeeps ==
  ASSUME IInv, [Next]_vars
  PROVE  IInv'
<1>0. PICK S, L, n : StateOK(memory, live, call, stack, S, L, n)
  BY DEF IInv
<1>1. ASSUME NEW s \in Address, Pass(s) PROVE IInv'
  BY <1>0, <1>1, PassOK
<1>2. ASSUME NEW s \in Address, TakePart(s) PROVE IInv'
  <2>1. Kept(Busy(memory, S))
    BY <1>0, <1>2, TakePartOK
  <2> QED BY <2>1 DEF Kept
<1>3. ASSUME NEW s \in Address, TakeWhole(s) PROVE IInv'
  <2>1. Kept(Busy(memory, S))
    BY <1>0, <1>3, TakeWholeOK
  <2> QED BY <2>1 DEF Kept
<1>4. ASSUME ReturnNull PROVE IInv'
  BY <1>0, <1>4, ReturnNullOK
<1>5. ASSUME ReturnResult PROVE IInv'
  BY <1>0, <1>5, ReturnResultOK
<1>6. ASSUME Copy PROVE IInv'
  <2>1. Kept(Busy(memory, S) \ {call.old - StartSize, call.result - StartSize})
    BY <1>0, <1>6, CopyOK
  <2> QED BY <2>1 DEF Kept
<1>7. ASSUME Walk PROVE IInv'
  BY <1>0, <1>7, WalkOK
<1>8. ASSUME Append PROVE IInv'
  <2>1. Kept(Busy(memory, S))
    BY <1>0, <1>8, AppendOK
  <2> QED BY <2>1 DEF Kept
<1>9. ASSUME NEW size \in Size, Alloc(size) PROVE IInv'
  BY <1>0, <1>9, AllocOK
<1>10. ASSUME NEW p \in DOMAIN live, NEW size \in Size, ReAlloc(p, size) PROVE IInv'
  <2>1. CASE size > 0
    BY <1>0, <1>10, <2>1, ReAllocOK
  <2>2. CASE ~ (size > 0)
    <3>1. Kept(Busy(memory, S) \ {p - StartSize})
      BY <1>0, <1>10, <2>2, ReAllocOK
    <3> QED BY <3>1 DEF Kept
  <2> QED BY <2>1, <2>2
<1>11. ASSUME NEW p \in DOMAIN live, Free(p) PROVE IInv'
  <2>1. Kept(Busy(memory, S) \ {p - StartSize})
    BY <1>0, <1>11, FreeStepOK
  <2> QED BY <2>1 DEF Kept
<1>12. ASSUME NEW p \in DOMAIN live, NEW i \in Address, NEW v \in Value, Write(p, i, v)
       PROVE  IInv'
  <2>1. Kept(Busy(memory, S) \ {p - StartSize})
    BY <1>0, <1>12, WriteOK
  <2> QED BY <2>1 DEF Kept
<1>13. CASE UNCHANGED vars
  BY <1>13 DEF vars, IInv
<1> QED
  BY <1>1, <1>2, <1>3, <1>4, <1>5, <1>6, <1>7, <1>8, <1>9, <1>10, <1>11, <1>12, <1>13
  DEF Next, CallStep, UserStep

THEOREM InvariantHolds == Spec => []IInv
<1>1. Init => IInv
  BY InitOK
<1>2. IInv /\ [Next]_vars => IInv'
  BY StepKeeps
<1> QED BY <1>1, <1>2, PTL DEF Spec

(* What every state has, between the steps of a call too. *)
LEMMA Rows ==
  ASSUME IInv
  PROVE  \E S, L, n : /\ StateOK(memory, live, call, stack, S, L, n)
                      /\ Consistent(memory, S, L, n, Pending(call))
                      /\ LiveOK(memory, S, live)
                      /\ WellFormed(memory, S) /\ Laid(memory, S)
                      /\ Segments = S
<1>1. PICK S, L, n : StateOK(memory, live, call, stack, S, L, n)
  BY DEF IInv
<1>2. Consistent(memory, S, L, n, Pending(call)) /\ LiveOK(memory, S, live)
  BY <1>1 DEF StateOK
<1>3. WellFormed(memory, S)
  BY <1>2 DEF Consistent
<1>4. Laid(memory, S) /\ Segments = S
  BY <1>3, LaidOut, SegmentsFound
<1> QED BY <1>1, <1>2, <1>3, <1>4

(* However often Alloc cuts segments and Free joins them, and whatever the *)
(* user stores through its pointers, the tags describe one row of segments *)
(* that ends where Memory does, and the two tags of a segment agree.       *)
THEOREM TagsCorrect == Spec => []TagsAgree
<1>1. ASSUME IInv PROVE TagsAgree
  <2>1. PICK S : WellFormed(memory, S) /\ Laid(memory, S) /\ Segments = S
    BY <1>1, Rows
  <2>2. \E s \in S : EndOf(memory, s) + EndSize = MemSize
    <3>1. \A s \in S : s \in 0 .. MemSize
      BY <2>1, TagAssumption DEF Laid
    <3>2. S \in SUBSET (0 .. MemSize) /\ S # {} /\ MemSize \in Nat
      BY <3>1, <2>1, TagAssumption DEF WellFormed
    <3>3. PICK s \in S : \A t \in S : t <= s
      BY <3>2, Greatest
    <3>4. /\ Behind(memory, s) \in S \/ Behind(memory, s) = MemSize
          /\ Behind(memory, s) > s /\ Behind(memory, s) \in Nat /\ s \in Nat
      BY <2>1, TagAssumption DEF Laid
    <3> QED BY <3>3, <3>4 DEF Behind
  <2> QED BY <2>1, <2>2 DEF WellFormed, TagsAgree
<1> QED BY <1>1, InvariantHolds, PTL

(* Between the steps of Free and Alloc too, the list from the head on links *)
(* every segment that is marked free, except for one that Free is walking   *)
(* the list for, and prev is the inverse of next.                           *)
THEOREM FreeListCorrect == Spec => []FreeListOK
<1>1. ASSUME IInv PROVE FreeListOK
  <2>1. PICK S, L, n : /\ Consistent(memory, S, L, n, Pending(call))
                       /\ WellFormed(memory, S) /\ Segments = S
    BY <1>1, Rows
  <2> DEFINE listed == FreeSegments \ (IF call.pc = "free" THEN {call.block} ELSE {})
  <2>2. listed = Listed(memory, S, Pending(call))
    BY <2>1 DEF FreeSegments, Listed, Pending
  <2> HIDE DEF listed
  <2>3. /\ n \in Nat /\ L[0] = Head
        /\ \A i \in 1 .. n : L[i] \in listed
        /\ \A s \in listed : \E i \in 1 .. n : L[i] = s
        /\ \A i \in 0 .. n - 1 : memory[L[i]].next = L[i + 1] /\ memory[L[i + 1]].prev = L[i]
        /\ memory[L[n]].next = NULL
    BY <2>1, <2>2 DEF Consistent, ListOK
  <2>4. \A s \in listed : memory[memory[s].prev].next = s
    <3> SUFFICES ASSUME NEW s \in listed PROVE memory[memory[s].prev].next = s
      OBVIOUS
    <3>1. PICK i \in 1 .. n : L[i] = s
      BY <2>3
    <3>2. i - 1 \in 0 .. n - 1 /\ (i - 1) + 1 = i
      BY <2>3
    <3>3. memory[L[(i - 1) + 1]].prev = L[i - 1] /\ memory[L[i - 1]].next = L[(i - 1) + 1]
      BY <2>3, <3>2
    <3> QED BY <3>1, <3>2, <3>3
  <2>5. ASSUME NEW s \in listed \cup {Head}, memory[s].next # NULL
        PROVE  memory[s].next \in listed /\ memory[memory[s].next].prev = s
    <3>1. PICK i \in 0 .. n : L[i] = s
      BY <2>3
    <3>2. i \in 0 .. n - 1 /\ i + 1 \in 1 .. n
      BY <2>3, <2>5, <3>1
    <3> QED BY <2>3, <3>1, <3>2
  <2> QED BY <2>4, <2>5 DEF FreeListOK, listed
<1> QED BY <1>1, InvariantHolds, PTL

(* Between calls no free segment has a free neighbour: Free joins the block *)
(* to both, whatever order the user frees its blocks in.                    *)
THEOREM NoFragmentation == Spec => []FreeMemoryCoalesced
<1>1. ASSUME IInv PROVE FreeMemoryCoalesced
  <2> SUFFICES ASSUME call = NoCall, NEW s \in FreeSegments,
                      EndOf(memory, s) + EndSize \in FreeSegments
               PROVE  FALSE
    BY DEF FreeMemoryCoalesced
  <2>1. PICK S, L, n : Consistent(memory, S, L, n, Pending(call)) /\ Segments = S
    BY <1>1, Rows
  <2>2. Pending(call) = {}
    BY DEF Pending, NoCall
  <2>3. /\ s \in S /\ memory[s].isFree
        /\ Behind(memory, s) \in S /\ memory[Behind(memory, s)].isFree
    BY <2>1 DEF FreeSegments, Behind
  <2> QED BY <2>1, <2>2, <2>3 DEF Consistent, Coalesced
<1> QED BY <1>1, InvariantHolds, PTL

(* A user that frees in the reverse order of Alloc has, between its calls,  *)
(* all of Memory in its blocks and one free segment at most, although the   *)
(* loop of Alloc does not stop at the first segment that fits.              *)
THEOREM NothingLeaks == Spec => []NoLeak
<1>1. ASSUME IInv PROVE NoLeak
  <2> SUFFICES ASSUME stack, call = NoCall
               PROVE  /\ \A s \in Segments : memory[s].isFree \/ DataOf(s) \in DOMAIN live
                      /\ \A s, t \in FreeSegments : s = t
    BY DEF NoLeak
  <2>1. PICK S, L, n : StateOK(memory, live, call, stack, S, L, n) /\ Segments = S
    BY <1>1, Rows
  <2>2. /\ \A s \in S : memory[s].isFree => s = FirstSegment
        /\ \A s \in Busy(memory, S) : DataOf(s) \in DOMAIN live
    BY <2>1, Idle
  <2> QED BY <2>1, <2>2 DEF Busy, FreeSegments
<1> QED BY <1>1, InvariantHolds, PTL

(* The call gives up only if no segment that is free would have been large *)
(* enough.                                                                 *)
THEOREM GivesUpOnlyWhenNothingFits == Spec => FailsOnlyWhenNothingFits
<1> DEFINE Right == ReturnNull => \A s \in FreeSegments : memory[s].size < call.size
<1>1. ASSUME IInv PROVE Right
  <2> SUFFICES ASSUME ReturnNull
               PROVE  \A s \in FreeSegments : memory[s].size < call.size
    OBVIOUS
  <2>1. PICK S, L, n : StateOK(memory, live, call, stack, S, L, n) /\ Segments = S
    BY <1>1, Rows
  <2>2. \A s \in S : memory[s].isFree => memory[s].size < call.size
    BY <2>1, ReturnNullOK
  <2> QED BY <2>1, <2>2 DEF FreeSegments
<1> HIDE DEF Right
<1>2. Spec => [][Right]_vars
  BY <1>1, InvariantHolds, PTL DEF Spec
<1> QED BY <1>2 DEF FailsOnlyWhenNothingFits, Right

-----------------------------------------------------------------------------
(* The refinement: what the user sees of the allocator. *)
Seen(m, a) == IF m[a] \in Value THEN m[a] ELSE Junk

View == [p \in DOMAIN live |-> [i \in 0 .. live[p] - 1 |-> Seen(memory, p + i)]]

(* The bytes of a pointer are data of its segment. *)
LEMMA BytesOf ==
  ASSUME NEW m, NEW S, WellFormed(m, S), NEW p, NEW size, InUse(m, S, p, size)
  PROVE  /\ p \in Int /\ size \in Nat /\ p - StartSize \in S
         /\ \A i \in 0 .. size - 1 : p + i \in Cells(m, p - StartSize) /\ p + i \in Address
<1> DEFINE s == p - StartSize
<1>1. /\ p \in Nat /\ s \in S /\ size \in Nat /\ size <= m[s].size
      /\ StartSize \in Nat
  BY TagAssumption DEF InUse, Busy, Address
<1>2. Laid(m, S) /\ Cells(m, s) \subseteq Address
  BY <1>1, LaidOut, TagsApart
<1>3. m[s].size \in Nat /\ DataOf(s) = p /\ EndOf(m, s) = p + m[s].size
  <2>1. m[s].size \in Nat
    BY <1>1, <1>2 DEF Laid
  <2> QED BY <1>1, <2>1 DEF DataOf, EndOf
<1>4. \A i \in 0 .. size - 1 : p + i \in p .. p + m[s].size - 1
  BY <1>1, <1>3
<1> HIDE DEF s
<1>5. Cells(m, s) = DataOf(s) .. EndOf(m, s) - 1
  BY DEF Cells
<1>6. \A i \in 0 .. size - 1 : p + i \in Cells(m, s)
  BY <1>1, <1>3, <1>4, <1>5
<1>7. \A i \in 0 .. size - 1 : p + i \in Address
  BY <1>2, <1>6
<1> QED BY <1>1, <1>6, <1>7 DEF s

LEMMA BytesKept ==
  ASSUME NEW m, NEW S, WellFormed(m, S), NEW p, NEW size, InUse(m, S, p, size),
         NEW g, NEW B, SameBlocks(m, g, B), p - StartSize \in B
  PROVE  \A i \in 0 .. size - 1 : g[p + i] = m[p + i]
BY BytesOf DEF SameBlocks

(* The data of two pointers share no byte, and lie in the memory. *)
DataApart ==
  \A p \in DOMAIN live :
    /\ p \in Int /\ live[p] \in Nat
    /\ \A i \in 0 .. live[p] - 1 : p + i \in Address
    /\ \A q \in DOMAIN live \ {p} :
         \A i \in 0 .. live[p] - 1, j \in 0 .. live[q] - 1 : p + i # q + j

LEMMA DataIsApart == IInv => DataApart
<1> SUFFICES ASSUME IInv PROVE DataApart
  OBVIOUS
<1>1. PICK S : LiveOK(memory, S, live) /\ WellFormed(memory, S)
  BY Rows
<1>2. ASSUME NEW p \in DOMAIN live
      PROVE  /\ p \in Int /\ live[p] \in Nat /\ p - StartSize \in S
             /\ \A i \in 0 .. live[p] - 1 :
                  p + i \in Cells(memory, p - StartSize) /\ p + i \in Address
  <2>1. InUse(memory, S, p, live[p])
    BY <1>1 DEF LiveOK
  <2> QED BY <1>1, <2>1, BytesOf
<1>3. ASSUME NEW p \in DOMAIN live, NEW q \in DOMAIN live \ {p},
             NEW i \in 0 .. live[p] - 1, NEW j \in 0 .. live[q] - 1
      PROVE  p + i # q + j
  <2>1. p - StartSize # q - StartSize
    BY <1>2, TagAssumption
  <2>2. Cells(memory, p - StartSize) \cap Cells(memory, q - StartSize) = {}
    BY <1>1, <1>2, <2>1, TagsApart
  <2> QED BY <1>2, <2>2
<1> QED BY <1>2, <1>3 DEF DataApart

(* Each block fits beside all the others: the contract's demand on Alloc    *)
(* and ReAlloc, as a property of every state.                               *)
BlocksFit ==
  \A p \in DOMAIN View :
    /\ View[p] \in [0 .. live[p] - 1 -> Byte]
    /\ DOMAIN View[p] = 0 .. live[p] - 1
    /\ Contract!Fits(p, View[p], Contract!Without(View, p))

LEMMA BlocksDoFit == IInv => BlocksFit
<1> SUFFICES ASSUME IInv, NEW p \in DOMAIN View
             PROVE  /\ View[p] \in [0 .. live[p] - 1 -> Byte]
                    /\ DOMAIN View[p] = 0 .. live[p] - 1
                    /\ Contract!Fits(p, View[p], Contract!Without(View, p))
  BY DEF BlocksFit
<1>1. DataApart
  BY DataIsApart
<1>2. /\ p \in DOMAIN live
      /\ View[p] = [i \in 0 .. live[p] - 1 |-> Seen(memory, p + i)]
  BY DEF View
<1>3. View[p] \in [0 .. live[p] - 1 -> Byte] /\ DOMAIN View[p] = 0 .. live[p] - 1
  BY <1>2 DEF Seen, Byte
<1>4. Contract!Extent(p, View[p]) \subseteq 0 .. MemSize - 1
  BY <1>1, <1>2, <1>3 DEF DataApart, Contract!Extent, Address
<1>5. ASSUME NEW q \in DOMAIN Contract!Without(View, p)
      PROVE  /\ q # p
             /\ Contract!Extent(p, View[p]) \cap
                  Contract!Extent(q, Contract!Without(View, p)[q]) = {}
  <2>1. /\ q \in DOMAIN live \ {p}
        /\ Contract!Without(View, p)[q] = [i \in 0 .. live[q] - 1 |-> Seen(memory, q + i)]
    BY DEF Contract!Without, View
  <2>2. \A i \in 0 .. live[p] - 1, j \in 0 .. live[q] - 1 : p + i # q + j
    BY <1>1, <1>2, <2>1 DEF DataApart
  <2> QED BY <1>3, <2>1, <2>2 DEF Contract!Extent
<1> QED BY <1>3, <1>4, <1>5 DEF Contract!Fits

LEMMA RefinesInit == Init => Contract!Init
<1> SUFFICES ASSUME Init PROVE View = [p \in {} |-> <<>>]
  BY DEF Contract!Init, View, Seen
<1> QED BY DEF Init, View

(* The bytes of q, and the size the user knows, are what they were. *)
Undisturbed(q) ==
  /\ q \in DOMAIN live' /\ live'[q] = live[q]
  /\ \A i \in 0 .. live[q] - 1 : memory'[q + i] = memory[q + i]

LEMMA SeenSame ==
  ASSUME NEW q \in DOMAIN live, Undisturbed(q)
  PROVE  View'[q] = View[q]
<1>1. /\ View[q] = [i \in 0 .. live[q] - 1 |-> Seen(memory, q + i)]
      /\ View'[q] = [i \in 0 .. live[q] - 1 |-> Seen(memory', q + i)]
  BY DEF View, Undisturbed, Seen
<1>2. \A i \in 0 .. live[q] - 1 : Seen(memory', q + i) = Seen(memory, q + i)
  BY DEF Undisturbed, Seen
<1> QED BY <1>1, <1>2

(* A step that keeps the pointers and their bytes is a stutter. *)
LEMMA NothingSeen ==
  ASSUME live' = live, \A q \in DOMAIN live : Undisturbed(q)
  PROVE  View' = View
<1>1. View' = [q \in DOMAIN live |-> View'[q]] /\ View = [q \in DOMAIN live |-> View[q]]
  BY DEF View
<1>2. \A q \in DOMAIN live : View'[q] = View[q]
  BY SeenSame
<1> QED BY <1>1, <1>2

(* What a step that keeps the segments in B does to the user's blocks. *)
LEMMA BlocksKept ==
  ASSUME NEW S, WellFormed(memory, S), LiveOK(memory, S, live),
         NEW B, SameBlocks(memory, memory', B),
         NEW q \in DOMAIN live, q - StartSize \in B, q \in DOMAIN live', live'[q] = live[q]
  PROVE  Undisturbed(q)
<1>1. InUse(memory, S, q, live[q])
  BY DEF LiveOK
<1>2. \A i \in 0 .. live[q] - 1 : memory'[q + i] = memory[q + i]
  BY <1>1, BytesKept
<1> QED BY <1>2 DEF Undisturbed

(* No two pointers have the same segment. *)
LEMMA OtherSegments ==
  ASSUME NEW S, LiveOK(memory, S, live), NEW p \in DOMAIN live
  PROVE  /\ p \in Nat /\ p - StartSize \in Busy(memory, S)
         /\ \A q \in Nat : q # p => p - StartSize # q - StartSize
<1>1. p \in Nat /\ p - StartSize \in Busy(memory, S)
  BY TagAssumption DEF LiveOK, InUse, Address
<1> QED BY <1>1, TagAssumption

LEMMA RefinesStutter ==
  ASSUME NEW S, WellFormed(memory, S), LiveOK(memory, S, live),
         live' = live, SameBlocks(memory, memory', Busy(memory, S))
  PROVE  View' = View
<1>1. ASSUME NEW q \in DOMAIN live PROVE Undisturbed(q)
  BY OtherSegments, BlocksKept
<1> QED BY <1>1, NothingSeen

LEMMA RefinesFree ==
  ASSUME NEW S, WellFormed(memory, S), LiveOK(memory, S, live),
         NEW p \in DOMAIN live, live' = Without(live, p),
         SameBlocks(memory, memory', Busy(memory, S) \ {p - StartSize})
  PROVE  Contract!Next
<1>1. DOMAIN live' = DOMAIN live \ {p} /\ \A q \in DOMAIN live' : live'[q] = live[q]
  BY DEF Without
<1>2. ASSUME NEW q \in DOMAIN live \ {p} PROVE View'[q] = View[q]
  <2>1. q - StartSize \in Busy(memory, S) \ {p - StartSize}
    BY OtherSegments
  <2>2. Undisturbed(q)
    BY <1>1, <2>1, BlocksKept
  <2> QED BY <2>2, SeenSame
<1>3. /\ DOMAIN View = DOMAIN live
      /\ View' = [q \in DOMAIN live \ {p} |-> View'[q]]
  BY <1>1 DEF View
<1>4. View' = Contract!Without(View, p)
  BY <1>2, <1>3 DEF Contract!Without
<1> QED BY <1>3, <1>4 DEF Contract!Next, Contract!Free, View, Seen

LEMMA RefinesWrite ==
  ASSUME IInv, NEW S, WellFormed(memory, S), LiveOK(memory, S, live),
         NEW p \in DOMAIN live, NEW i \in Address, NEW v \in Value, i < live[p],
         live' = live, memory' = [memory EXCEPT ![p + i] = v], p + i \in Address,
         SameBlocks(memory, memory', Busy(memory, S) \ {p - StartSize})
  PROVE  Contract!Next
<1>1. DataApart
  BY DataIsApart
<1>2. /\ i \in 0 .. live[p] - 1 /\ v \in Byte /\ i \in 0 .. MemSize - 1
      /\ DOMAIN memory = Address
  BY <1>1 DEF DataApart, Address, Byte, WellFormed
<1>3. ASSUME NEW q \in DOMAIN live, q # p PROVE View'[q] = View[q]
  <2>1. q - StartSize \in Busy(memory, S) \ {p - StartSize}
    BY <1>3, OtherSegments
  <2>2. Undisturbed(q)
    BY <2>1, BlocksKept
  <2> QED BY <2>2, SeenSame
<1>4. View'[p] = [View[p] EXCEPT ![i] = v]
  <2>1. /\ View[p] = [j \in 0 .. live[p] - 1 |-> Seen(memory, p + j)]
        /\ View'[p] = [j \in 0 .. live[p] - 1 |-> Seen(memory', p + j)]
    BY DEF View, Seen
  <2>2. \A j \in 0 .. live[p] - 1 : p + j \in Address /\ (p + j = p + i <=> j = i)
    BY <1>1, <1>2 DEF DataApart, Address
  <2>3. \A j \in 0 .. live[p] - 1 :
           Seen(memory', p + j) = IF j = i THEN v ELSE Seen(memory, p + j)
    BY <1>2, <2>2 DEF Seen
  <2>4. View'[p] = [j \in 0 .. live[p] - 1 |-> IF j = i THEN v ELSE Seen(memory, p + j)]
    BY <2>1, <2>3
  <2>5. [View[p] EXCEPT ![i] = v] =
          [j \in 0 .. live[p] - 1 |-> IF j = i THEN v ELSE Seen(memory, p + j)]
    BY <2>1
  <2> QED BY <2>4, <2>5
<1> DEFINE W == [View EXCEPT ![p][i] = v]
<1>5. W = [q \in DOMAIN live |-> IF q = p THEN [View[p] EXCEPT ![i] = v] ELSE View[q]]
  BY DEF View
<1>6. View' = [q \in DOMAIN live |-> View'[q]]
  BY DEF View
<1> HIDE DEF W
<1>7. View' = W
  BY <1>3, <1>4, <1>5, <1>6
<1>8. i \in DOMAIN View[p] /\ p \in DOMAIN View
  BY <1>2 DEF View
<1>9. Contract!Write(p, i, v)
  BY <1>7, <1>8 DEF Contract!Write, View, Seen, W
<1> QED BY <1>2, <1>8, <1>9 DEF Contract!Next, View, Seen

(* ReturnResult: the user has a block more. *)
LEMMA RefinesAlloc ==
  ASSUME IInv', NEW p, p \notin DOMAIN live, NEW size \in Size,
         live' = With(live, p, size), \A q \in DOMAIN live : Undisturbed(q)
  PROVE  Contract!Next
<1>1. /\ DOMAIN live' = DOMAIN live \cup {p} /\ live'[p] = size
      /\ DOMAIN View' = DOMAIN View \cup {p} /\ DOMAIN View = DOMAIN live
  BY DEF With, View
<1>2. \A q \in DOMAIN live : View'[q] = View[q]
  BY SeenSame
<1>3. BlocksFit'
  BY BlocksDoFit, PTL
<1>4. /\ View'[p] \in [0 .. size - 1 -> Byte]
      /\ Contract!Fits(p, View'[p], Contract!Without(View', p))
      /\ p \in DOMAIN View'
  BY <1>1, <1>3 DEF BlocksFit
<1>5. Contract!Without(View', p) = View
  <2>1. View = [q \in DOMAIN View |-> View[q]]
    BY DEF View
  <2>2. DOMAIN View' \ {p} = DOMAIN View
    BY <1>1
  <2> QED BY <1>1, <1>2, <2>1, <2>2 DEF Contract!Without
<1>6. View' = Contract!With(View, p, View'[p])
  <2>1. View' = [q \in DOMAIN View' |-> View'[q]]
    BY DEF View
  <2> QED BY <1>1, <1>2, <2>1 DEF Contract!With
<1>7. Contract!Alloc(size)
  BY <1>4, <1>5, <1>6 DEF Contract!Alloc, View, Seen
<1> QED BY <1>7 DEF Contract!Next

(* Copy: a block at q instead of the one at p, holding the same. *)
LEMMA RefinesReAlloc ==
  ASSUME IInv, IInv', NEW p \in DOMAIN live, NEW size \in Size, NEW q, q \notin DOMAIN live,
         live' = With(Without(live, p), q, size),
         \A r \in DOMAIN live \ {p} : Undisturbed(r),
         \A i \in Nat : i < size /\ i < live[p] => memory'[q + i] = memory[p + i]
  PROVE  Contract!Next
<1>1. /\ DOMAIN live' = (DOMAIN live \ {p}) \cup {q} /\ live'[q] = size
      /\ DOMAIN View' = DOMAIN live' /\ DOMAIN View = DOMAIN live
  BY DEF With, Without, View
<1>2. BlocksFit'
  BY BlocksDoFit, PTL
<1>3. /\ View'[q] \in [0 .. size - 1 -> Byte]
      /\ DOMAIN View'[q] = 0 .. size - 1
      /\ Contract!Fits(q, View'[q], Contract!Without(View', q))
      /\ q \in DOMAIN View'
  BY <1>1, <1>2 DEF BlocksFit
<1>4. \A r \in DOMAIN live \ {p} : View'[r] = View[r]
  BY SeenSame
<1>5. Contract!Without(View', q) = Contract!Without(View, p)
  <2>1. DOMAIN View' \ {q} = DOMAIN View \ {p}
    BY <1>1
  <2> QED BY <1>1, <1>4, <2>1 DEF Contract!Without
<1>6. View' = Contract!With(Contract!Without(View, p), q, View'[q])
  <2>1. DOMAIN View' = DOMAIN Contract!Without(View, p) \cup {q}
    BY <1>1 DEF Contract!Without
  <2>2. \A r \in DOMAIN View' : r # q => View'[r] = Contract!Without(View, p)[r]
    BY <1>1, <1>4 DEF Contract!Without
  <2>3. View' = [r \in DOMAIN View' |-> View'[r]]
    BY DEF View
  <2> QED BY <2>1, <2>2, <2>3 DEF Contract!With
<1>7. \A i \in DOMAIN View'[q] \cap DOMAIN View[p] : View'[q][i] = View[p][i]
  <2>1. /\ View'[q] = [i \in 0 .. size - 1 |-> Seen(memory', q + i)]
        /\ View[p] = [i \in 0 .. live[p] - 1 |-> Seen(memory, p + i)]
    BY <1>1 DEF View, Seen
  <2>2. live[p] \in Nat /\ size \in Nat
    BY DataIsApart, TagAssumption DEF DataApart
  <2>3. \A i \in 0 .. size - 1 : i \in 0 .. live[p] - 1 =>
           Seen(memory', q + i) = Seen(memory, p + i)
    BY <2>2 DEF Seen
  <2> QED BY <2>1, <2>3
<1>8. Contract!ReAlloc(p, size)
  BY <1>3, <1>5, <1>6, <1>7 DEF Contract!ReAlloc, View, Seen
<1> QED BY <1>1, <1>8 DEF Contract!Next, View, Seen

LEMMA RefinesCopy ==
  ASSUME IInv, IInv', NEW S, NEW L, NEW n, StateOK(memory, live, call, stack, S, L, n),
         WellFormed(memory, S), LiveOK(memory, S, live), Copy
  PROVE  Contract!Next
<1> DEFINE p == call.old
           q == call.result
<1>1. /\ Kept(Busy(memory, S) \ {p - StartSize, q - StartSize})
      /\ InUse(memory, S, q, call.size)
      /\ p \in DOMAIN live /\ q \notin DOMAIN live
      /\ \A i \in Nat : i < call.size /\ i < live[p] => memory'[q + i] = memory[p + i]
  BY CopyOK
<1>2. /\ call.pc = "alloc"
      /\ live' = With(Without(live, p), q, call.size)
  BY DEF Copy, AllocEnds
<1>3. call.size \in Size
  <2>1. AllocRuns(memory, S, L, n, live, call)
    BY <1>2, AllocState
  <2> QED BY <2>1 DEF AllocRuns, Searching
<1>4. ASSUME NEW r \in DOMAIN live \ {p} PROVE Undisturbed(r)
  <2>1. r \in DOMAIN live' /\ live'[r] = live[r]
    BY <1>1, <1>2 DEF With, Without
  <2>2. /\ r - StartSize \in Busy(memory, S) /\ r \in Nat
        /\ r - StartSize # p - StartSize /\ r - StartSize # q - StartSize
    <3>1. q \in Nat /\ r # q
      BY <1>1 DEF InUse, Address
    <3> QED BY <1>1, <3>1, OtherSegments
  <2>3. SameBlocks(memory, memory', Busy(memory, S) \ {p - StartSize, q - StartSize})
    BY <1>1 DEF Kept
  <2> QED BY <2>1, <2>2, <2>3, BlocksKept
<1> QED BY <1>1, <1>2, <1>3, <1>4, RefinesReAlloc

LEMMA RefinesResult ==
  ASSUME IInv, IInv', NEW S, NEW L, NEW n, StateOK(memory, live, call, stack, S, L, n),
         ReturnResult
  PROVE  Contract!Next
<1>1. /\ call.pc = "alloc" /\ call.result # NULL
      /\ memory' = memory /\ live' = With(live, call.result, call.size)
  BY DEF ReturnResult, AllocEnds
<1>2. call.size \in Size /\ call.result \notin DOMAIN live
  <2>1. AllocRuns(memory, S, L, n, live, call)
    BY <1>1, AllocState
  <2> QED BY <1>1, <2>1 DEF AllocRuns, Searching
<1>3. \A q \in DOMAIN live : Undisturbed(q)
  BY <1>1, <1>2 DEF With, Undisturbed
<1> QED BY <1>1, <1>2, <1>3, RefinesAlloc

LEMMA RefinesStep ==
  ASSUME IInv, IInv', [Next]_vars
  PROVE  Contract!Next \/ View' = View
<1>0. PICK S, L, n : /\ StateOK(memory, live, call, stack, S, L, n)
                     /\ LiveOK(memory, S, live) /\ WellFormed(memory, S)
  BY Rows
<1>1. ASSUME live' = live, memory' = memory PROVE View' = View
  BY <1>1 DEF View, Seen
<1>2. ASSUME live' = live, Kept(Busy(memory, S)) PROVE View' = View
  <2>1. SameBlocks(memory, memory', Busy(memory, S))
    BY <1>2 DEF Kept
  <2> QED BY <1>0, <1>2, <2>1, RefinesStutter
<1>3. ASSUME NEW p \in DOMAIN live, live' = Without(live, p),
             Kept(Busy(memory, S) \ {p - StartSize})
      PROVE  Contract!Next
  <2>1. SameBlocks(memory, memory', Busy(memory, S) \ {p - StartSize})
    BY <1>3 DEF Kept
  <2> QED BY <1>0, <1>3, <2>1, RefinesFree
<1>4. ASSUME NEW s \in Address, Pass(s) PROVE View' = View
  BY <1>1, <1>4 DEF Pass
<1>5. ASSUME NEW s \in Address, TakePart(s) PROVE View' = View
  <2>1. live' = live
    BY <1>5 DEF TakePart
  <2>2. Kept(Busy(memory, S))
    BY <1>0, <1>5, TakePartOK
  <2> QED BY <1>2, <2>1, <2>2
<1>6. ASSUME NEW s \in Address, TakeWhole(s) PROVE View' = View
  <2>1. live' = live
    BY <1>6 DEF TakeWhole
  <2>2. Kept(Busy(memory, S))
    BY <1>0, <1>6, TakeWholeOK
  <2> QED BY <1>2, <2>1, <2>2
<1>7. ASSUME ReturnNull \/ Walk \/ UNCHANGED vars PROVE View' = View
  BY <1>1, <1>7 DEF ReturnNull, Walk, vars
<1>8. ASSUME ReturnResult PROVE Contract!Next
  BY <1>0, <1>8, RefinesResult
<1>9. ASSUME Copy PROVE Contract!Next
  BY <1>0, <1>9, RefinesCopy
<1>10. ASSUME Append PROVE View' = View
  <2>1. live' = live
    BY <1>10 DEF Append
  <2>2. Kept(Busy(memory, S))
    BY <1>0, <1>10, AppendOK
  <2> QED BY <1>2, <2>1, <2>2
<1>11. ASSUME NEW size \in Size, Alloc(size) PROVE View' = View
  BY <1>1, <1>11 DEF Alloc
<1>12. ASSUME NEW p \in DOMAIN live, NEW size \in Size, ReAlloc(p, size)
       PROVE  Contract!Next \/ View' = View
  <2>1. CASE size > 0
    <3>1. memory' = memory /\ live' = live
      BY <1>0, <1>12, <2>1, ReAllocOK
    <3> QED BY <1>1, <3>1
  <2>2. CASE ~ (size > 0)
    <3>1. live' = Without(live, p) /\ Kept(Busy(memory, S) \ {p - StartSize})
      BY <1>0, <1>12, <2>2, ReAllocOK
    <3> QED BY <1>3, <3>1
  <2> QED BY <2>1, <2>2
<1>13. ASSUME NEW p \in DOMAIN live, Free(p) PROVE Contract!Next
  <2>1. Kept(Busy(memory, S) \ {p - StartSize})
    BY <1>0, <1>13, FreeStepOK
  <2>2. live' = Without(live, p)
    BY <1>13 DEF Free
  <2> QED BY <1>3, <2>1, <2>2
<1>14. ASSUME NEW p \in DOMAIN live, NEW i \in Address, NEW v \in Value, Write(p, i, v)
       PROVE  Contract!Next
  <2>1. /\ Kept(Busy(memory, S) \ {p - StartSize})
        /\ live' = live
        /\ memory' = [memory EXCEPT ![p + i] = v] /\ p + i \in Address
    BY <1>0, <1>14, WriteOK
  <2>2. SameBlocks(memory, memory', Busy(memory, S) \ {p - StartSize}) /\ i < live[p]
    BY <1>14, <2>1 DEF Kept, Write
  <2> QED BY <1>0, <2>1, <2>2, RefinesWrite
<1> QED
  BY <1>4, <1>5, <1>6, <1>7, <1>8, <1>9, <1>10, <1>11, <1>12, <1>13, <1>14
  DEF Next, CallStep, UserStep

(* The boundary-tag allocator implements the contract of a SmallAllocator,  *)
(* for every size of memory and of tags and every use: blocks in use never  *)
(* overlap, ReAlloc keeps the contents, and nobody's bytes change but       *)
(* through its own pointer, though the tags lie between them.               *)
THEOREM ImplementsContract == Spec => KeepsContract
<1>1. Init => Contract!Init
  BY RefinesInit
<1>2. IInv /\ IInv' /\ [Next]_vars => [Contract!Next]_View
  BY RefinesStep
<1>3. Spec => Contract!Init /\ [][Contract!Next]_View
  BY <1>1, <1>2, InvariantHolds, PTL DEF Spec
<1> QED BY <1>3, PTL DEF KeepsContract, Contract!Spec, View, Seen
=============================================================================
