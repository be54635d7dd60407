---------------------------- MODULE MemoryProofs -----------------------------
(***************************************************************************)
(* Proofs about MemoryPool and MemoryManager: for any pools, requests and  *)
(* granule, the two lists of a pool tile its memory, the free list is      *)
(* merged, no method leaves its vector, and the calls keep the promise of  *)
(* Allocator.  Everything is said of addresses: an address of the pool is  *)
(* covered by a segment of one list and by none of the other.              *)
(***************************************************************************)
EXTENDS MemoryManager, IterationProofs, FiniteSetTheorems

(* No request comes so near 2^32 that rounding it up wraps around.         *)
Modest == \A n \in Requests : n + Granule - 1 < SizeMax

-----------------------------------------------------------------------------
(* Segments                                                                *)

Whole(s) == s.size > 0 /\ s.next = s.base + s.size

(* The segments of q cover address a.                                      *)
Covered(q, a) == \E i \in 1 .. Len(q) : In(q[i], a)

Apart(s, t) == s.next <= t.base \/ t.next <= s.base

(* A free list: in order, with a gap after each segment.                   *)
FreeOK(q) ==
  /\ \A i \in 1 .. Len(q) : Whole(q[i])
  /\ \A i, j \in 1 .. Len(q) : i < j => q[i].next < q[j].base

(* An allocated list: in any order, without an overlap.                    *)
AllocOK(q) ==
  /\ \A i \in 1 .. Len(q) : Whole(q[i])
  /\ \A i, j \in 1 .. Len(q) : i # j => Apart(q[i], q[j])

(* All of the segments of q lie between lo and hi.                         *)
Within(q, lo, hi) ==
  \A i \in 1 .. Len(q) : lo <= q[i].base /\ q[i].next <= hi

(* The sizes of requests are rounded up to what the pool can serve.        *)
LEMMA RoundUpType ==
  ASSUME NEW n \in Size \ {0}, n + Granule - 1 < SizeMax
  PROVE  RoundUp(n) \in Size \ {0} /\ RoundUp(n) >= n
<1> DEFINE sum == n + Granule - 1
<1>1. Granule \in Nat \ {0} /\ SizeMax \in Nat \ {0} /\ n \in Nat \ {0}
  BY GranuleAssumption DEF Size
<1>2. sum \in 0 .. SizeMax - 1
  BY <1>1
<1>3. sum % SizeMax = sum
  BY <1>1, <1>2
<1>4. sum % Granule \in 0 .. Granule - 1
  BY <1>1, <1>2
<1>5. RoundUp(n) = sum - (sum % Granule)
  BY <1>3 DEF RoundUp
<1> DEFINE r == sum % Granule
<1>6. sum - r >= n /\ sum - r \in 1 .. SizeMax - 1
  <2>1. r \in 0 .. Granule - 1
    BY <1>4
  <2> HIDE DEF r
  <2> QED BY <1>1, <1>2, <2>1
<1> QED BY <1>5, <1>6 DEF Size

(* Two segments that have no address in common lie apart.                  *)
LEMMA ApartCommon ==
  ASSUME NEW s \in Segments, NEW t \in Segments, Whole(s), Whole(t),
         \A a \in Nat : ~ (In(s, a) /\ In(t, a))
  PROVE  Apart(s, t)
<1>1. s.base \in Nat /\ t.base \in Nat /\ s.size \in Nat /\ t.size \in Nat
  BY GranuleAssumption DEF Segments, Size
<1>2. ~ (In(s, s.base) /\ In(t, s.base)) /\ ~ (In(s, t.base) /\ In(t, t.base))
  BY <1>1
<1> QED BY <1>1, <1>2 DEF Apart, Whole, In

(* The fields of a segment are numbers, and it is what its fields say.     *)
LEMMA Fields ==
  ASSUME NEW s \in Segments
  PROVE  /\ s.base \in Nat /\ s.size \in Nat /\ s.next \in Nat
         /\ s.size < SizeMax /\ SizeMax \in Nat
         /\ s = [base |-> s.base, size |-> s.size, next |-> s.next]
<1>1. SizeMax \in Nat
  BY GranuleAssumption
<1>2. s.base \in Nat /\ s.size \in 0 .. SizeMax - 1 /\ s.next \in Nat
  BY DEF Segments, Size
<1>3. s = [base |-> s.base, size |-> s.size, next |-> s.next]
  BY DEF Segments
<1> QED BY <1>1, <1>2, <1>3

LEMMA EntryFields ==
  ASSUME NEW q \in Seq(Segments)
  PROVE  \A i \in 1 .. Len(q) :
           /\ q[i] \in Segments
           /\ q[i].base \in Nat /\ q[i].size \in Nat /\ q[i].next \in Nat
           /\ q[i].size < SizeMax
  BY ElementOfSeq, Fields

-----------------------------------------------------------------------------
(* Merging a block into a free list                                        *)

(* Does g hold w in the place of the segments lo .. lo + d of f?           *)
Spliced(f, w, lo, d, g) ==
  /\ Len(g) = Len(f) - d
  /\ \A j \in 1 .. Len(g) :
       g[j] = IF j < lo THEN f[j] ELSE IF j = lo THEN w ELSE f[j + d]

(* The block s lies above the first k segments of f and below the others.  *)
Splits(f, s, k) ==
  /\ \A j \in 1 .. k : f[j].next <= s.base
  /\ \A j \in k + 1 .. Len(f) : s.next <= f[j].base

(* A segment that takes the place of others, and does not touch those that *)
(* stay, keeps a free list in order.                                       *)
LEMMA SplicedFree ==
  ASSUME NEW f \in Seq(Segments), NEW g \in Seq(Segments), NEW w \in Segments,
         NEW lo \in 1 .. Len(f) + 1, NEW d \in -1 .. 1, lo + d <= Len(f),
         FreeOK(f), Whole(w), Spliced(f, w, lo, d, g),
         \A j \in 1 .. lo - 1 : f[j].next < w.base,
         \A j \in lo + d + 1 .. Len(f) : w.next < f[j].base
  PROVE  FreeOK(g)
<1> DEFINE n == Len(f)
           m == Len(g)
<1>1. n \in Nat /\ m \in Nat /\ m = n - d
  BY LenProperties DEF Spliced
<1>2. /\ \A j \in 1 .. m : j < lo => g[j] = f[j] /\ j \in 1 .. n /\ j \in 1 .. lo - 1
      /\ \A j \in 1 .. m : j = lo => g[j] = w
      /\ \A j \in 1 .. m : j > lo => /\ g[j] = f[j + d]
                                     /\ j + d \in 1 .. n
                                     /\ j + d \in lo + d + 1 .. n
  BY <1>1 DEF Spliced
<1>3. \A i \in 1 .. n : Whole(f[i])
  BY DEF FreeOK
<1>4. \A i, j \in 1 .. n : i < j => f[i].next < f[j].base
  BY DEF FreeOK
<1>5. /\ \A j \in 1 .. lo - 1 : f[j].next < w.base
      /\ \A j \in lo + d + 1 .. n : w.next < f[j].base
  OBVIOUS
<1>6. \A j \in 1 .. m : j < lo \/ j = lo \/ j > lo
  BY <1>1
<1>7. m = Len(g)
  OBVIOUS
<1>8. lo \in Nat /\ d \in Int
  BY <1>1
<1> HIDE DEF n, m
<1>9. ASSUME NEW i \in 1 .. m PROVE Whole(g[i])
  BY <1>2, <1>3, <1>6
<1>10. ASSUME NEW i \in 1 .. m, NEW j \in 1 .. m, i < j
       PROVE  g[i].next < g[j].base
  <2>0. i \in Nat /\ j \in Nat
    OBVIOUS
  <2>1. CASE j < lo
    <3>1. i < lo
      BY <2>0, <1>8, <1>10, <2>1
    <3> QED BY <1>2, <1>4, <1>10, <2>1, <3>1
  <2>2. CASE j = lo
    <3>1. i < lo
      BY <2>0, <1>8, <1>10, <2>2
    <3> QED BY <1>2, <1>5, <2>2, <3>1
  <2>3. CASE i = lo
    <3>1. j > lo
      BY <2>0, <1>8, <1>10, <2>3
    <3> QED BY <1>2, <1>5, <2>3, <3>1
  <2>4. CASE i < lo /\ j > lo
    <3>1. i < j + d
      BY <2>0, <1>8, <1>10, <2>4
    <3> QED BY <1>2, <1>4, <2>4, <3>1
  <2>5. CASE i > lo
    <3>1. j > lo /\ i + d < j + d
      BY <2>0, <1>8, <1>10, <2>5
    <3> QED BY <1>2, <1>4, <2>5, <3>1
  <2> QED BY <2>0, <1>8, <1>10, <2>1, <2>2, <2>3, <2>4, <2>5
<1> QED BY <1>7, <1>9, <1>10 DEF FreeOK

(* It covers what it covers itself and what the ones that stay cover.      *)
LEMMA SplicedCovered ==
  ASSUME NEW f \in Seq(Segments), NEW g \in Seq(Segments), NEW w \in Segments,
         NEW lo \in 1 .. Len(f) + 1, NEW d \in -1 .. 1, lo + d <= Len(f),
         Spliced(f, w, lo, d, g), NEW s, NEW a,
         In(w, a) <=> In(s, a) \/ \E j \in lo .. lo + d : In(f[j], a)
  PROVE  Covered(g, a) <=> Covered(f, a) \/ In(s, a)
<1> DEFINE n == Len(f)
           m == Len(g)
<1>1. n \in Nat /\ m \in Nat /\ m = n - d
  BY LenProperties DEF Spliced
<1>2. /\ \A j \in 1 .. m : j < lo => g[j] = f[j] /\ j \in 1 .. n
      /\ \A j \in 1 .. m : j = lo => g[j] = w
      /\ \A j \in 1 .. m : j > lo => g[j] = f[j + d] /\ j + d \in 1 .. n
  BY <1>1 DEF Spliced
<1>3. m = Len(g) /\ lo \in Nat /\ d \in Int /\ lo \in 1 .. m
      /\ lo .. lo + d \in SUBSET (1 .. n)
  BY <1>1
<1>4. \A j \in 1 .. n : \/ j < lo /\ j \in 1 .. m
                        \/ j \in lo .. lo + d
                        \/ j - d > lo /\ j - d \in 1 .. m /\ (j - d) + d = j
  BY <1>1, <1>3
<1>5. In(w, a) <=> In(s, a) \/ \E j \in lo .. lo + d : In(f[j], a)
  OBVIOUS
<1>6. Covered(g, a) <=> \E i \in 1 .. m : In(g[i], a)
  BY DEF Covered
<1>7. Covered(f, a) <=> \E i \in 1 .. n : In(f[i], a)
  BY DEF Covered
<1> HIDE DEF n, m
<1>8. ASSUME NEW i \in 1 .. m, In(g[i], a) PROVE Covered(f, a) \/ In(s, a)
  <2>1. i < lo \/ i = lo \/ i > lo
    BY <1>1, <1>3
  <2>2. CASE i = lo
    BY <1>2, <1>3, <1>5, <1>7, <1>8, <2>2
  <2>3. CASE i < lo
    BY <1>2, <1>7, <1>8, <2>3
  <2>4. CASE i > lo
    BY <1>2, <1>7, <1>8, <2>4
  <2> QED BY <2>1, <2>2, <2>3, <2>4
<1>9. ASSUME NEW i \in 1 .. n, In(f[i], a) PROVE \E j \in 1 .. m : In(g[j], a)
  <2>1. CASE i < lo /\ i \in 1 .. m
    BY <1>2, <1>9, <2>1
  <2>2. CASE i \in lo .. lo + d
    BY <1>2, <1>3, <1>5, <1>9, <2>2
  <2>3. CASE i - d > lo /\ i - d \in 1 .. m /\ (i - d) + d = i
    BY <1>2, <1>9, <2>3
  <2> QED BY <1>4, <2>1, <2>2, <2>3
<1>10. ASSUME In(s, a) PROVE \E j \in 1 .. m : In(g[j], a)
  BY <1>2, <1>3, <1>5, <1>10
<1> QED BY <1>6, <1>7, <1>8, <1>9, <1>10

(* A block that touches no segment has its place among them.               *)
LEMMA SplitsExists ==
  ASSUME NEW f \in Seq(Segments), NEW s \in Segments, FreeOK(f), Whole(s),
         \A i \in 1 .. Len(f) : Apart(f[i], s)
  PROVE  \E k \in 0 .. Len(f) :
           /\ Splits(f, s, k)
           /\ \A j \in 1 .. k : f[j].base <= s.base
           /\ k < Len(f) => f[k + 1].base > s.base
<1> DEFINE n == Len(f)
           Above == {i \in 1 .. n + 1 : i <= n => f[i].base > s.base}
<1>1. n \in Nat /\ n = Len(f)
  BY LenProperties
<1>2. PICK i \in Above : \A j \in Above : i <= j
  <2>1. n + 1 \in Above
    BY <1>1
  <2>2. Above \in SUBSET Nat
    BY <1>1
  <2> HIDE DEF Above
  <2> QED BY <2>1, <2>2, LeastNatural
<1>3. i \in 1 .. n + 1 /\ (i <= n => f[i].base > s.base)
  BY <1>2
<1>4. \A j \in 1 .. i - 1 : j \in 1 .. n /\ ~ (f[j].base > s.base)
  BY <1>1, <1>2
<1>5. \A j \in 1 .. n : f[j].base \in Nat /\ f[j].next \in Nat /\ f[j].size \in Nat
  BY EntryFields
<1>6. s.base \in Nat /\ s.next \in Nat /\ s.size \in Nat
  BY Fields
<1>7. s.next > s.base /\ \A j \in 1 .. n : f[j].next > f[j].base
  <2>1. s.next > s.base
    BY <1>6 DEF Whole
  <2>2. \A j \in 1 .. n : f[j].size > 0 /\ f[j].next = f[j].base + f[j].size
    BY DEF FreeOK, Whole
  <2> HIDE DEF n
  <2> QED BY <1>5, <2>1, <2>2
<1>8. \A j, l \in 1 .. n : j < l => f[j].next < f[l].base
  BY DEF FreeOK
<1>9. \A j \in 1 .. n : f[j].next <= s.base \/ s.next <= f[j].base
  BY DEF Apart
<1> HIDE DEF n, Above
<1>10. \A j \in 1 .. i - 1 : f[j].base <= s.base /\ f[j].next <= s.base
  BY <1>4, <1>5, <1>6, <1>7, <1>9
<1>11. \A j \in i .. n : s.next <= f[j].base
  <2> SUFFICES ASSUME NEW j \in i .. n PROVE s.next <= f[j].base
    OBVIOUS
  <2>1. i \in 1 .. n /\ j \in 1 .. n /\ (i = j \/ i < j)
    BY <1>1, <1>3
  <2>2. f[j].base > s.base
    BY <1>3, <1>5, <1>6, <1>7, <1>8, <2>1
  <2> QED BY <1>5, <1>6, <1>7, <1>9, <2>1, <2>2
<1>12. i - 1 \in 0 .. n /\ (i - 1) + 1 = i
  BY <1>1, <1>3
<1>13. Splits(f, s, i - 1)
  BY <1>1, <1>10, <1>11, <1>12 DEF Splits
<1> QED BY <1>1, <1>3, <1>10, <1>12, <1>13

(* What freeing s makes of the free list f.                                *)
FreedInto(f, s, g) ==
  /\ g \in Seq(Segments)
  /\ FreeOK(g)
  /\ \A a \in Nat : Covered(g, a) <=> Covered(f, a) \/ In(s, a)

(* What the merge may assume: s touches nothing in f, and all of them lie  *)
(* in a memory smaller than 2^32.                                          *)
Mergeable(f, s, lo, hi) ==
  /\ f \in Seq(Segments) /\ FreeOK(f) /\ Within(f, lo, hi)
  /\ s \in Segments /\ Whole(s) /\ lo <= s.base /\ s.next <= hi
  /\ \A i \in 1 .. Len(f) : Apart(f[i], s)
  /\ lo \in Nat /\ hi \in Nat /\ hi - lo < SizeMax

Meets(s, t) == s.next = t.base

Fresh(base, size, next) == [base |-> base, size |-> size, next |-> next]

LEMMA MergeNowhere ==
  ASSUME NEW f, NEW s, NEW lo, NEW hi, Mergeable(f, s, lo, hi),
         NEW k \in 0 .. Len(f), Splits(f, s, k),
         k > 0 => ~ Meets(f[k], s), k < Len(f) => ~ Meets(s, f[k + 1]),
         NEW g \in Seq(Segments), Spliced(f, s, k + 1, -1, g)
  PROVE  FreedInto(f, s, g)
<1> USE DEF Mergeable
<1>1. Len(f) \in Nat /\ k \in Nat /\ k + 1 \in 1 .. Len(f) + 1 /\ (k + 1) + (-1) = k
      /\ -1 \in -1 .. 1 /\ k <= Len(f) /\ (k + 1) - 1 = k
  BY LenProperties
<1>2. \A j \in 1 .. Len(f) : f[j].base \in Nat /\ f[j].next \in Nat /\ f[j].size \in Nat
  BY EntryFields
<1>3. s.base \in Nat /\ s.next \in Nat /\ s.size \in Nat
  BY Fields
<1>4. \A j \in 1 .. Len(f) : f[j].next > f[j].base
  <2>1. \A j \in 1 .. Len(f) : f[j].size > 0 /\ f[j].next = f[j].base + f[j].size
    BY DEF FreeOK, Whole
  <2> QED BY <1>2, <2>1
<1>5. ASSUME NEW j \in 1 .. k PROVE f[j].next < s.base
  <2>1. j \in 1 .. Len(f) /\ k \in 1 .. Len(f) /\ (j = k \/ j < k)
    BY <1>1
  <2>2. f[k].next <= s.base /\ f[k].next # s.base
    BY <1>1, <2>1 DEF Splits, Meets
  <2>3. j < k => f[j].next < f[k].base
    BY <2>1 DEF FreeOK
  <2> HIDE DEF Mergeable
  <2>4. f[k].next < s.base
    BY <1>2, <1>3, <2>1, <2>2
  <2>5. CASE j = k
    BY <2>4, <2>5
  <2>6. CASE j < k
    <3>1. f[j].next < f[k].base /\ f[k].base < f[k].next
      BY <1>4, <2>1, <2>3, <2>6
    <3> QED BY <1>2, <1>3, <2>1, <2>4, <3>1
  <2> QED BY <2>1, <2>5, <2>6
<1>6. ASSUME NEW j \in k + 1 .. Len(f) PROVE s.next < f[j].base
  <2>1. j \in 1 .. Len(f) /\ k + 1 \in 1 .. Len(f) /\ (j = k + 1 \/ k + 1 < j) /\ k < Len(f)
    BY <1>1
  <2>2. s.next <= f[k + 1].base /\ f[k + 1].base # s.next
    BY <1>1, <2>1 DEF Splits, Meets
  <2>3. k + 1 < j => f[k + 1].next < f[j].base
    BY <2>1 DEF FreeOK
  <2> HIDE DEF Mergeable
  <2>4. s.next < f[k + 1].base
    BY <1>2, <1>3, <2>1, <2>2
  <2>5. CASE j = k + 1
    BY <2>4, <2>5
  <2>6. CASE k + 1 < j
    <3>1. f[k + 1].next < f[j].base /\ f[k + 1].base < f[k + 1].next
      BY <1>4, <2>1, <2>3, <2>6
    <3> QED BY <1>2, <1>3, <2>1, <2>4, <3>1
  <2> QED BY <2>1, <2>5, <2>6
<1>7. FreeOK(g)
  <2>1. /\ \A j \in 1 .. (k + 1) - 1 : f[j].next < s.base
        /\ \A j \in (k + 1) + (-1) + 1 .. Len(f) : s.next < f[j].base
    BY <1>1, <1>5, <1>6
  <2> QED BY <1>1, <2>1, SplicedFree
<1>8. ASSUME NEW a \in Nat PROVE Covered(g, a) <=> Covered(f, a) \/ In(s, a)
  <2>1. In(s, a) <=> In(s, a) \/ \E j \in k + 1 .. (k + 1) + (-1) : In(f[j], a)
    BY <1>1
  <2> QED BY <1>1, <2>1, SplicedCovered
<1> QED BY <1>7, <1>8 DEF FreedInto

(* The numbers that a merge compares.                                      *)
LEMMA MergeFacts ==
  ASSUME NEW f, NEW s, NEW lo, NEW hi, Mergeable(f, s, lo, hi),
         NEW k \in 0 .. Len(f), Splits(f, s, k)
  PROVE  /\ Len(f) \in Nat /\ k \in 0 .. Len(f)
         /\ lo \in Nat /\ hi \in Nat /\ SizeMax \in Nat /\ hi - lo < SizeMax
         /\ s.base \in Nat /\ s.next \in Nat /\ s.size \in Nat
         /\ s.size > 0 /\ s.next = s.base + s.size /\ lo <= s.base /\ s.next <= hi
         /\ \A j \in 1 .. Len(f) :
              /\ f[j].base \in Nat /\ f[j].next \in Nat /\ f[j].size \in Nat
              /\ f[j].size > 0 /\ f[j].next = f[j].base + f[j].size
              /\ lo <= f[j].base /\ f[j].next <= hi
              /\ j <= k => f[j].next <= s.base
              /\ j > k => s.next <= f[j].base
         /\ \A i, j \in 1 .. Len(f) : i < j => f[i].next < f[j].base
<1>1. f \in Seq(Segments) /\ s \in Segments /\ FreeOK(f) /\ Whole(s) /\ Within(f, lo, hi)
  BY DEF Mergeable
<1>2. Len(f) \in Nat
  BY <1>1, LenProperties
<1>3. lo \in Nat /\ hi \in Nat /\ SizeMax \in Nat /\ hi - lo < SizeMax
  BY GranuleAssumption DEF Mergeable
<1>4. s.base \in Nat /\ s.next \in Nat /\ s.size \in Nat
  BY <1>1, Fields
<1>5. s.size > 0 /\ s.next = s.base + s.size /\ lo <= s.base /\ s.next <= hi
  BY DEF Mergeable, Whole
<1>6. \A j \in 1 .. Len(f) :
        f[j].base \in Nat /\ f[j].next \in Nat /\ f[j].size \in Nat
  BY <1>1, EntryFields
<1>7. \A j \in 1 .. Len(f) : f[j].size > 0 /\ f[j].next = f[j].base + f[j].size
  BY <1>1 DEF FreeOK, Whole
<1>8. \A j \in 1 .. Len(f) : lo <= f[j].base /\ f[j].next <= hi
  BY <1>1 DEF Within
<1>9. \A j \in 1 .. Len(f) : j <= k => f[j].next <= s.base
  BY <1>2 DEF Splits
<1>10. \A j \in 1 .. Len(f) : j > k => s.next <= f[j].base
  BY <1>2 DEF Splits
<1>11. \A i, j \in 1 .. Len(f) : i < j => f[i].next < f[j].base
  BY <1>1 DEF FreeOK
<1> QED BY <1>2, <1>3, <1>4, <1>5, <1>6, <1>7, <1>8, <1>9, <1>10, <1>11

(* The block continues the segment below it and touches none above.        *)
LEMMA MergeBelow ==
  ASSUME NEW f, NEW s, NEW lo, NEW hi, Mergeable(f, s, lo, hi),
         NEW k \in 0 .. Len(f), Splits(f, s, k),
         k > 0, Meets(f[k], s), k < Len(f) => ~ Meets(s, f[k + 1]),
         NEW w, w = Fresh(f[k].base, f[k].size + s.size, s.next),
         NEW g, w \in Segments => g \in Seq(Segments), Spliced(f, w, k, 0, g)
  PROVE  FreedInto(f, s, g)
<1>1. k \in 1 .. Len(f) /\ k \in 1 .. Len(f) + 1 /\ k + 0 <= Len(f) /\ 0 \in -1 .. 1
      /\ k + 0 = k /\ Len(f) \in Nat /\ f \in Seq(Segments) /\ FreeOK(f)
  BY LenProperties DEF Mergeable
<1>2. \E b, x, y \in Nat :
        /\ f[k].base = b /\ f[k].size = x
        /\ s.base = b + x /\ s.size = y /\ s.next = b + x + y
        /\ x > 0 /\ lo <= b /\ b + x + y <= hi
  <2>1. f[k].base \in Nat /\ f[k].size \in Nat /\ s.size \in Nat /\ lo <= f[k].base /\ f[k].size > 0
    BY <1>1, MergeFacts
  <2>2. s.base = f[k].base + f[k].size /\ s.next = s.base + s.size /\ s.next <= hi
    BY <1>1, MergeFacts DEF Meets
  <2> QED BY <2>1, <2>2
<1>3. PICK b, x, y \in Nat :
        /\ f[k].base = b /\ f[k].size = x
        /\ s.base = b + x /\ s.size = y /\ s.next = b + x + y
        /\ x > 0 /\ lo <= b /\ b + x + y <= hi
  BY <1>2
<1>4. w = Fresh(b, x + y, b + (x + y))
  <2>1. b + x + y = b + (x + y)
    OBVIOUS
  <2> QED BY <1>3, <2>1
<1>5. w \in Segments /\ Whole(w)
  <2>1. lo \in Nat /\ hi \in Nat /\ SizeMax \in Nat /\ hi - lo < SizeMax
    BY MergeFacts
  <2>2. x + y \in 0 .. SizeMax - 1
    BY <1>3, <2>1
  <2>3. x + y > 0 /\ b + (x + y) \in Nat
    BY <1>3
  <2>4. w = [base |-> b, size |-> x + y, next |-> b + (x + y)]
    BY <1>4 DEF Fresh
  <2>5. w \in Segments
    BY <2>2, <2>3, <2>4 DEF Segments, Size
  <2> QED BY <2>3, <2>4, <2>5 DEF Whole
<1>10. g \in Seq(Segments)
  BY <1>5
<1>6. ASSUME NEW j \in 1 .. k - 1 PROVE f[j].next < w.base
  <2>1. j \in 1 .. Len(f) /\ j < k
    BY <1>1
  <2>2. f[j].next < f[k].base
    BY <1>1, <2>1, MergeFacts
  <2> QED BY <2>2 DEF Fresh
<1>7. ASSUME NEW j \in k + 1 .. Len(f) PROVE w.next < f[j].base
  <2>1. j \in 1 .. Len(f) /\ k + 1 \in 1 .. Len(f) /\ (j = k + 1 \/ k + 1 < j)
        /\ k < Len(f) /\ k + 1 > k
    BY <1>1
  <2>2. s.next <= f[k + 1].base /\ f[k + 1].base # s.next
    BY <2>1, MergeFacts DEF Meets
  <2>3. k + 1 < j => f[k + 1].next < f[j].base
    BY <2>1, MergeFacts
  <2>4. /\ f[k + 1].base \in Nat /\ f[k + 1].next \in Nat /\ f[j].base \in Nat /\ s.next \in Nat
        /\ f[k + 1].size > 0 /\ f[k + 1].next = f[k + 1].base + f[k + 1].size
        /\ f[k + 1].size \in Nat
    BY <2>1, MergeFacts
  <2>5. s.next < f[j].base
    BY <2>1, <2>2, <2>3, <2>4
  <2> QED BY <2>5 DEF Fresh
<1>8. FreeOK(g)
  <2>1. \A j \in k + 0 + 1 .. Len(f) : w.next < f[j].base
    BY <1>1, <1>7
  <2> QED BY <1>1, <1>5, <1>10, <1>6, <2>1, SplicedFree
<1>9. ASSUME NEW a \in Nat PROVE Covered(g, a) <=> Covered(f, a) \/ In(s, a)
  <2>1. In(w, a) <=> In(s, a) \/ In(f[k], a)
    <3>1. In(w, a) <=> b <= a /\ a < b + (x + y)
      BY <1>4 DEF In, Fresh
    <3>2. In(s, a) <=> b + x <= a /\ a < b + x + y
      BY <1>3 DEF In
    <3>3. In(f[k], a) <=> b <= a /\ a < b + x
      BY <1>3 DEF In
    <3> QED BY <1>3, <3>1, <3>2, <3>3
  <2>2. In(w, a) <=> In(s, a) \/ \E j \in k .. k + 0 : In(f[j], a)
    <3>1. \A j : j \in k .. k + 0 <=> j = k
      BY <1>1
    <3> QED BY <2>1, <3>1
  <2> QED BY <1>1, <1>5, <1>10, <2>2, SplicedCovered
<1> QED BY <1>8, <1>9, <1>10 DEF FreedInto

(* It is continued by the segment above it and touches none below.         *)
LEMMA MergeAbove ==
  ASSUME NEW f, NEW s, NEW lo, NEW hi, Mergeable(f, s, lo, hi),
         NEW k \in 0 .. Len(f), Splits(f, s, k),
         k > 0 => ~ Meets(f[k], s), k < Len(f), Meets(s, f[k + 1]),
         NEW w, w = Fresh(s.base, f[k + 1].size + s.size, f[k + 1].next),
         NEW g, w \in Segments => g \in Seq(Segments), Spliced(f, w, k + 1, 0, g)
  PROVE  FreedInto(f, s, g)
<1> DEFINE h == k + 1
<1>1. h \in 1 .. Len(f) /\ h \in 1 .. Len(f) + 1 /\ h + 0 <= Len(f) /\ 0 \in -1 .. 1
      /\ h + 0 = h /\ Len(f) \in Nat /\ f \in Seq(Segments) /\ FreeOK(f) /\ h > k
      /\ h - 1 = k /\ k \in Nat
  BY LenProperties DEF Mergeable
<1>0. w = Fresh(s.base, f[h].size + s.size, f[h].next) /\ Spliced(f, w, h, 0, g)
  OBVIOUS
<1>2. \E b, x, y \in Nat :
        /\ s.base = b /\ s.size = x
        /\ f[h].base = b + x /\ f[h].size = y /\ f[h].next = b + x + y
        /\ x > 0 /\ lo <= b /\ b + x + y <= hi
  <2>1. s.base \in Nat /\ s.size \in Nat /\ f[h].size \in Nat /\ lo <= s.base /\ s.size > 0
    BY <1>1, MergeFacts
  <2>2. f[h].base = s.base + s.size /\ f[h].next = f[h].base + f[h].size /\ f[h].next <= hi
    BY <1>1, MergeFacts DEF Meets
  <2> HIDE DEF h
  <2> QED BY <2>1, <2>2
<1> HIDE DEF h
<1>3. PICK b, x, y \in Nat :
        /\ s.base = b /\ s.size = x
        /\ f[h].base = b + x /\ f[h].size = y /\ f[h].next = b + x + y
        /\ x > 0 /\ lo <= b /\ b + x + y <= hi
  BY <1>2
<1>4. w = Fresh(b, x + y, b + (x + y))
  <2>1. b + x + y = b + (x + y) /\ y + x = x + y
    OBVIOUS
  <2> QED BY <1>0, <1>3, <2>1
<1>5. w \in Segments /\ Whole(w)
  <2>1. lo \in Nat /\ hi \in Nat /\ SizeMax \in Nat /\ hi - lo < SizeMax
    BY MergeFacts
  <2>2. x + y \in 0 .. SizeMax - 1
    BY <1>3, <2>1
  <2>3. x + y > 0 /\ b + (x + y) \in Nat
    BY <1>3
  <2>4. w = [base |-> b, size |-> x + y, next |-> b + (x + y)]
    BY <1>4 DEF Fresh
  <2>5. w \in Segments
    BY <2>2, <2>3, <2>4 DEF Segments, Size
  <2> QED BY <2>3, <2>4, <2>5 DEF Whole
<1>10. g \in Seq(Segments)
  BY <1>5
<1>6. ASSUME NEW j \in 1 .. k PROVE f[j].next < w.base
  <2>1. j \in 1 .. Len(f) /\ k \in 1 .. Len(f) /\ (j = k \/ j < k) /\ k > 0
    BY <1>1
  <2>2. f[k].next <= s.base /\ f[k].next # s.base
    BY <2>1, MergeFacts DEF Meets
  <2>3. j < k => f[j].next < f[k].base
    BY <2>1, MergeFacts
  <2>4. /\ f[k].base \in Nat /\ f[k].next \in Nat /\ f[j].next \in Nat /\ f[k].size \in Nat
        /\ f[k].size > 0 /\ f[k].next = f[k].base + f[k].size /\ s.base \in Nat
    BY <2>1, MergeFacts
  <2>5. f[j].next < s.base
    <3>1. f[k].base < f[k].next
      BY <2>4
    <3>2. CASE j = k
      BY <2>2, <2>4, <3>2
    <3>3. CASE j < k
      BY <2>2, <2>3, <2>4, <3>1, <3>3
    <3> QED BY <2>1, <3>2, <3>3
  <2> QED BY <1>0, <2>5 DEF Fresh
<1>7. ASSUME NEW j \in h + 1 .. Len(f) PROVE w.next < f[j].base
  <2>1. j \in 1 .. Len(f) /\ h < j
    BY <1>1
  <2>2. f[h].next < f[j].base
    BY <1>1, <2>1, MergeFacts
  <2> QED BY <1>0, <2>2 DEF Fresh
<1>8. FreeOK(g)
  <2>1. \A j \in h + 0 + 1 .. Len(f) : w.next < f[j].base
    BY <1>1, <1>7
  <2>2. \A j \in 1 .. h - 1 : f[j].next < w.base
    BY <1>1, <1>6
  <2> QED BY <1>0, <1>1, <1>5, <1>10, <2>1, <2>2, SplicedFree
<1>9. ASSUME NEW a \in Nat PROVE Covered(g, a) <=> Covered(f, a) \/ In(s, a)
  <2>1. In(w, a) <=> In(s, a) \/ In(f[h], a)
    <3>1. In(w, a) <=> b <= a /\ a < b + (x + y)
      BY <1>4 DEF In, Fresh
    <3>2. In(f[h], a) <=> b + x <= a /\ a < b + x + y
      BY <1>3 DEF In
    <3>3. In(s, a) <=> b <= a /\ a < b + x
      BY <1>3 DEF In
    <3> QED BY <1>3, <3>1, <3>2, <3>3
  <2>2. In(w, a) <=> In(s, a) \/ \E j \in h .. h + 0 : In(f[j], a)
    <3>1. \A j : j \in h .. h + 0 <=> j = h
      BY <1>1
    <3> QED BY <2>1, <3>1
  <2> QED BY <1>0, <1>1, <1>5, <1>10, <2>2, SplicedCovered
<1> QED BY <1>8, <1>9, <1>10 DEF FreedInto

(* It closes the gap between two segments.                                 *)
LEMMA MergeBoth ==
  ASSUME NEW f, NEW s, NEW lo, NEW hi, Mergeable(f, s, lo, hi),
         NEW k \in 0 .. Len(f), Splits(f, s, k),
         k > 0, Meets(f[k], s), k < Len(f), Meets(s, f[k + 1]),
         NEW w, w = Fresh(f[k].base, f[k].size + f[k + 1].size + s.size, f[k + 1].next),
         NEW g, w \in Segments => g \in Seq(Segments), Spliced(f, w, k, 1, g)
  PROVE  FreedInto(f, s, g)
<1> DEFINE h == k + 1
<1>1. /\ k \in 1 .. Len(f) /\ k \in 1 .. Len(f) + 1 /\ k + 1 <= Len(f) /\ 1 \in -1 .. 1
      /\ h \in 1 .. Len(f) /\ h = k + 1 /\ h > k
      /\ Len(f) \in Nat /\ f \in Seq(Segments) /\ FreeOK(f)
  BY LenProperties DEF Mergeable
<1>0. w = Fresh(f[k].base, f[k].size + f[h].size + s.size, f[h].next)
  OBVIOUS
<1>2. \E b, x, y, z \in Nat :
        /\ f[k].base = b /\ f[k].size = x
        /\ s.base = b + x /\ s.size = y
        /\ f[h].base = b + x + y /\ f[h].size = z /\ f[h].next = b + x + y + z
        /\ x > 0 /\ lo <= b /\ b + x + y + z <= hi
  <2>1. /\ f[k].base \in Nat /\ f[k].size \in Nat /\ f[k].size > 0 /\ lo <= f[k].base
        /\ s.size \in Nat /\ f[h].size \in Nat
    BY <1>1, MergeFacts
  <2>2. /\ s.base = f[k].base + f[k].size
        /\ f[h].base = s.base + s.size
        /\ f[h].next = f[h].base + f[h].size /\ f[h].next <= hi
    BY <1>1, MergeFacts DEF Meets
  <2> HIDE DEF h
  <2> QED BY <2>1, <2>2
<1> HIDE DEF h
<1>3. PICK b, x, y, z \in Nat :
        /\ f[k].base = b /\ f[k].size = x
        /\ s.base = b + x /\ s.size = y
        /\ f[h].base = b + x + y /\ f[h].size = z /\ f[h].next = b + x + y + z
        /\ x > 0 /\ lo <= b /\ b + x + y + z <= hi
  BY <1>2
<1>4. w = Fresh(b, x + y + z, b + (x + y + z))
  <2>1. b + x + y + z = b + (x + y + z) /\ x + z + y = x + y + z
    OBVIOUS
  <2> QED BY <1>0, <1>3, <2>1
<1>5. w \in Segments /\ Whole(w)
  <2>1. lo \in Nat /\ hi \in Nat /\ SizeMax \in Nat /\ hi - lo < SizeMax
    BY MergeFacts
  <2>2. x + y + z \in 0 .. SizeMax - 1
    <3>1. lo <= b /\ b + x + y + z <= hi
      BY <1>3
    <3> QED BY <2>1, <3>1
  <2>3. x + y + z > 0 /\ b + (x + y + z) \in Nat
    BY <1>3
  <2>4. w = [base |-> b, size |-> x + y + z, next |-> b + (x + y + z)]
    BY <1>4 DEF Fresh
  <2>5. w \in Segments
    BY <2>2, <2>3, <2>4 DEF Segments, Size
  <2> QED BY <2>3, <2>4, <2>5 DEF Whole
<1>10. g \in Seq(Segments)
  BY <1>5
<1>6. ASSUME NEW j \in 1 .. k - 1 PROVE f[j].next < w.base
  <2>1. j \in 1 .. Len(f) /\ j < k
    BY <1>1
  <2>2. f[j].next < f[k].base
    BY <1>1, <2>1, MergeFacts
  <2> QED BY <1>0, <2>2 DEF Fresh
<1>7. ASSUME NEW j \in h + 1 .. Len(f) PROVE w.next < f[j].base
  <2>1. j \in 1 .. Len(f) /\ h < j
    BY <1>1
  <2>2. f[h].next < f[j].base
    BY <1>1, <2>1, MergeFacts
  <2> QED BY <1>0, <2>2 DEF Fresh
<1>8. FreeOK(g)
  <2>1. \A j \in k + 1 + 1 .. Len(f) : w.next < f[j].base
    BY <1>1, <1>7
  <2> QED BY <1>1, <1>5, <1>10, <1>6, <2>1, SplicedFree
<1>9. ASSUME NEW a \in Nat PROVE Covered(g, a) <=> Covered(f, a) \/ In(s, a)
  <2>1. In(w, a) <=> In(s, a) \/ In(f[k], a) \/ In(f[h], a)
    <3>1. In(w, a) <=> b <= a /\ a < b + (x + y + z)
      BY <1>4 DEF In, Fresh
    <3>2. In(f[k], a) <=> b <= a /\ a < b + x
      BY <1>3 DEF In
    <3>3. In(s, a) <=> b + x <= a /\ a < b + x + y
      BY <1>3 DEF In
    <3>4. In(f[h], a) <=> b + x + y <= a /\ a < b + x + y + z
      BY <1>3 DEF In
    <3> QED BY <1>3, <3>1, <3>2, <3>3, <3>4
  <2>2. In(w, a) <=> In(s, a) \/ \E j \in k .. k + 1 : In(f[j], a)
    <3>1. \A j : j \in k .. k + 1 <=> j = k \/ j = h
      BY <1>1
    <3> QED BY <2>1, <3>1
  <2> QED BY <1>1, <1>5, <1>10, <2>2, SplicedCovered
<1> QED BY <1>8, <1>9, <1>10 DEF FreedInto

(* What is where after an entry has been put in front of entry i.          *)
LEMMA InsertAtEntries ==
  ASSUME NEW T, NEW q \in Seq(T), NEW e \in T, NEW i \in 1 .. Len(q) + 1
  PROVE  /\ InsertAt(q, i, e) \in Seq(T)
         /\ Len(InsertAt(q, i, e)) = Len(q) + 1
         /\ \A j \in 1 .. Len(q) + 1 :
              InsertAt(q, i, e)[j] = IF j < i THEN q[j] ELSE IF j = i THEN e ELSE q[j - 1]
<1> DEFINE a == SubSeq(q, 1, i - 1)
           b == SubSeq(q, i, Len(q))
           c == a \o <<e>>
<1>0. Len(q) \in Nat
  BY LenProperties
<1>1. a \in Seq(T) /\ Len(a) = i - 1 /\ \A j \in 1 .. i - 1 : a[j] = q[j]
  BY <1>0, SubSeqProperties
<1>2. b \in Seq(T) /\ Len(b) = Len(q) - i + 1
      /\ \A j \in 1 .. Len(q) - i + 1 : b[j] = q[i + j - 1]
  BY <1>0, SubSeqProperties
<1>3. <<e>> \in Seq(T) /\ Len(<<e>>) = 1 /\ <<e>>[1] = e
  OBVIOUS
<1>4. InsertAt(q, i, e) = c \o b
  BY DEF InsertAt
<1> HIDE DEF a, b
<1>5. c \in Seq(T) /\ Len(c) = i /\ \A j \in 1 .. i - 1 : c[j] = q[j]
  BY <1>0, <1>1, <1>3, ConcatProperties
<1>6. c[i] = e
  <2>1. i \in 1 .. Len(a) + Len(<<e>>) /\ ~ (i <= Len(a)) /\ i - Len(a) = 1
    BY <1>0, <1>1, <1>3
  <2> QED BY <1>1, <1>3, <2>1, ConcatProperties
<1> HIDE DEF c
<1>7. c \o b \in Seq(T) /\ Len(c \o b) = Len(q) + 1
  <2>1. c \o b \in Seq(T) /\ Len(c \o b) = Len(c) + Len(b)
    BY <1>2, <1>5, ConcatProperties
  <2>2. Len(c) + Len(b) = Len(q) + 1
    BY <1>0, <1>2, <1>5
  <2> QED BY <2>1, <2>2
<1>8. ASSUME NEW j \in 1 .. Len(q) + 1
      PROVE  (c \o b)[j] = IF j < i THEN q[j] ELSE IF j = i THEN e ELSE q[j - 1]
  <2>1. j \in 1 .. Len(c) + Len(b)
    BY <1>0, <1>2, <1>5
  <2>2. (c \o b)[j] = IF j <= Len(c) THEN c[j] ELSE b[j - Len(c)]
    BY <1>2, <1>5, <2>1, ConcatProperties
  <2>3. CASE j < i
    <3>1. j <= Len(c) /\ j \in 1 .. i - 1
      BY <1>0, <1>5, <2>3
    <3> QED BY <1>5, <2>2, <2>3, <3>1
  <2>4. CASE j = i
    BY <1>0, <1>5, <1>6, <2>2, <2>4
  <2>5. CASE j > i
    <3>1. ~ (j <= Len(c)) /\ j - Len(c) \in 1 .. Len(q) - i + 1 /\ i + (j - Len(c)) - 1 = j - 1
      BY <1>0, <1>5, <2>5
    <3>2. b[j - Len(c)] = q[j - 1]
      BY <1>2, <3>1
    <3> QED BY <2>2, <2>5, <3>1, <3>2
  <2>6. j < i \/ j = i \/ j > i
    BY <1>0
  <2> QED BY <2>3, <2>4, <2>5, <2>6
<1> QED BY <1>4, <1>7, <1>8

(* The assignments of the merge.                                           *)
Replaced(f, k, w) == [f EXCEPT ![k] = w]

GrowUp(f, k, next, size) == [f EXCEPT ![k].next = next, ![k].size = @ + size]

GrowDown(f, k, base, size) == [f EXCEPT ![k].base = base, ![k].size = @ + size]

GrowOver(f, k, next, size, more) ==
  [f EXCEPT ![k].next = next, ![k].size = @ + size + more]

LEMMA FieldsChanged ==
  ASSUME NEW r \in Segments, NEW a, NEW c
  PROVE  /\ [r EXCEPT !.next = a, !.size = c] = Fresh(r.base, c, a)
         /\ [r EXCEPT !.base = a, !.size = c] = Fresh(a, c, r.next)
<1>1. ASSUME NEW x, NEW y, NEW z, NEW u \in [base : {x}, size : {y}, next : {z}]
      PROVE  u = Fresh(x, y, z)
  BY <1>1 DEF Fresh
<1>2. [r EXCEPT !.next = a, !.size = c] \in [base : {r.base}, size : {c}, next : {a}]
  BY DEF Segments
<1>3. [r EXCEPT !.base = a, !.size = c] \in [base : {a}, size : {c}, next : {r.next}]
  BY DEF Segments
<1> QED BY <1>1, <1>2, <1>3

LEMMA EntryChanged ==
  ASSUME NEW f \in Seq(Segments), NEW k \in 1 .. Len(f), NEW a, NEW b
  PROVE  /\ GrowUp(f, k, a, b) = Replaced(f, k, Fresh(f[k].base, f[k].size + b, a))
         /\ GrowDown(f, k, a, b) = Replaced(f, k, Fresh(a, f[k].size + b, f[k].next))
<1>1. Len(f) \in Nat /\ f \in [1 .. Len(f) -> Segments] /\ f[k] \in Segments
  BY LenProperties, ElementOfSeq
<1>2. [f EXCEPT ![k].next = a, ![k].size = @ + b]
        = [f EXCEPT ![k] = [f[k] EXCEPT !.next = a, !.size = @ + b]]
  BY <1>1
<1>3. [f EXCEPT ![k].base = a, ![k].size = @ + b]
        = [f EXCEPT ![k] = [f[k] EXCEPT !.base = a, !.size = @ + b]]
  BY <1>1
<1>4. /\ [f[k] EXCEPT !.next = a, !.size = @ + b] = [f[k] EXCEPT !.next = a, !.size = f[k].size + b]
      /\ [f[k] EXCEPT !.base = a, !.size = @ + b] = [f[k] EXCEPT !.base = a, !.size = f[k].size + b]
  BY <1>1
<1>5. /\ [f[k] EXCEPT !.next = a, !.size = f[k].size + b] = Fresh(f[k].base, f[k].size + b, a)
      /\ [f[k] EXCEPT !.base = a, !.size = f[k].size + b] = Fresh(a, f[k].size + b, f[k].next)
  BY <1>1, FieldsChanged
<1> QED BY <1>2, <1>3, <1>4, <1>5 DEF GrowUp, GrowDown, Replaced

LEMMA EntryJoined ==
  ASSUME NEW f \in Seq(Segments), NEW k \in 1 .. Len(f), NEW a, NEW b, NEW c
  PROVE  GrowOver(f, k, a, b, c) = Replaced(f, k, Fresh(f[k].base, f[k].size + b + c, a))
<1>1. Len(f) \in Nat /\ f \in [1 .. Len(f) -> Segments] /\ f[k] \in Segments
  BY LenProperties, ElementOfSeq
<1>2. [f EXCEPT ![k].next = a, ![k].size = @ + b + c]
        = [f EXCEPT ![k] = [f[k] EXCEPT !.next = a, !.size = @ + b + c]]
  BY <1>1
<1>3. [f[k] EXCEPT !.next = a, !.size = @ + b + c]
        = [f[k] EXCEPT !.next = a, !.size = f[k].size + b + c]
  BY <1>1
<1>4. [f[k] EXCEPT !.next = a, !.size = f[k].size + b + c]
        = Fresh(f[k].base, f[k].size + b + c, a)
  BY <1>1, FieldsChanged
<1> QED BY <1>2, <1>3, <1>4 DEF GrowOver, Replaced

(* Merging into a segment replaces it by a larger one.                     *)
LEMMA ReplacedEntries ==
  ASSUME NEW f \in Seq(Segments), NEW k \in 1 .. Len(f), NEW w
  PROVE  /\ w \in Segments => Replaced(f, k, w) \in Seq(Segments)
         /\ Len(Replaced(f, k, w)) = Len(f)
         /\ \A j \in 1 .. Len(f) : Replaced(f, k, w)[j] = IF j = k THEN w ELSE f[j]
         /\ Spliced(f, w, k, 0, Replaced(f, k, w))
<1> DEFINE g == [f EXCEPT ![k] = w]
<1>1. Len(f) \in Nat /\ k \in 1 .. Len(f)
  BY LenProperties
<1>2. f \in [1 .. Len(f) -> Segments]
  BY LenProperties
<1>3. w \in Segments => g \in Seq(Segments)
  BY ExceptSeq
<1>4. Len(g) = Len(f)
  <2>1. f \in Seq(Segments \union {w})
    BY SeqMonotonic
  <2> QED BY <2>1, ExceptSeq
<1>5. \A j \in 1 .. Len(f) : g[j] = IF j = k THEN w ELSE f[j]
  BY <1>2
<1>6. Spliced(f, w, k, 0, g)
  BY <1>1, <1>4, <1>5 DEF Spliced
<1> QED BY <1>3, <1>4, <1>5, <1>6 DEF Replaced

(* The forms that the result of a merge takes in the code.                 *)
LEMMA MergeForms ==
  ASSUME NEW f \in Seq(Segments), NEW s \in Segments
  PROVE  /\ Len(f) = 0 =>
              <<s>> \in Seq(Segments) /\ Spliced(f, s, 0 + 1, -1, <<s>>)
         /\ <<s>> \o f \in Seq(Segments) /\ Spliced(f, s, 0 + 1, -1, <<s>> \o f)
         /\ Append(f, s) \in Seq(Segments)
         /\ Spliced(f, s, Len(f) + 1, -1, Append(f, s))
         /\ \A k \in 0 .. Len(f) :
              /\ InsertAt(f, k + 1, s) \in Seq(Segments)
              /\ Spliced(f, s, k + 1, -1, InsertAt(f, k + 1, s))
<1>1. Len(f) \in Nat
  BY LenProperties
<1>2. <<s>> \in Seq(Segments) /\ Len(<<s>>) = 1 /\ <<s>>[1] = s
  OBVIOUS
<1>3. Len(f) = 0 => Spliced(f, s, 0 + 1, -1, <<s>>)
  BY <1>1, <1>2 DEF Spliced
<1>4. <<s>> \o f \in Seq(Segments) /\ Spliced(f, s, 0 + 1, -1, <<s>> \o f)
  <2>1. /\ <<s>> \o f \in Seq(Segments)
        /\ Len(<<s>> \o f) = 1 + Len(f)
        /\ \A j \in 1 .. 1 + Len(f) :
             (<<s>> \o f)[j] = IF j <= 1 THEN <<s>>[j] ELSE f[j - 1]
    BY <1>2, ConcatProperties
  <2> DEFINE g == <<s>> \o f
  <2>2. g \in Seq(Segments) /\ Len(g) = 1 + Len(f)
    BY <2>1
  <2>3. ASSUME NEW j \in 1 .. Len(g)
        PROVE  g[j] = IF j < 0 + 1 THEN f[j] ELSE IF j = 0 + 1 THEN s ELSE f[j + (-1)]
    <3>1. CASE j = 1
      BY <1>1, <1>2, <2>1, <2>2, <3>1
    <3>2. CASE j # 1
      <4>1. ~ (j <= 1) /\ ~ (j < 0 + 1) /\ j + (-1) = j - 1 /\ j \in 1 .. 1 + Len(f)
        BY <1>1, <2>2, <3>2
      <4> QED BY <2>1, <3>2, <4>1
    <3> QED BY <3>1, <3>2
  <2> HIDE DEF g
  <2>4. Len(g) = Len(f) - (-1)
    BY <1>1, <2>2
  <2>5. Spliced(f, s, 0 + 1, -1, g)
    BY <2>3, <2>4 DEF Spliced
  <2> QED BY <2>2, <2>5 DEF g
<1>5. Append(f, s) \in Seq(Segments) /\ Spliced(f, s, Len(f) + 1, -1, Append(f, s))
  <2> DEFINE g == Append(f, s)
             n == Len(f)
  <2>1. /\ g \in Seq(Segments)
        /\ Len(g) = n + 1 /\ g[n + 1] = s
        /\ \A j \in 1 .. n : g[j] = f[j]
    BY AppendProperties
  <2>2. n \in Nat
    BY <1>1
  <2> HIDE DEF g, n
  <2>4. \A j \in 1 .. Len(g) :
          g[j] = IF j < n + 1 THEN f[j] ELSE IF j = n + 1 THEN s ELSE f[j + (-1)]
    <3>1. \A j \in 1 .. n + 1 : j = n + 1 \/ j \in 1 .. n
      BY <2>2
    <3>2. \A j \in 1 .. n : j < n + 1
      BY <2>2
    <3>3. ~ (n + 1 < n + 1) /\ Len(g) = n + 1
      BY <2>1, <2>2
    <3> QED BY <2>1, <3>1, <3>2, <3>3
  <2>5. Len(g) = n - (-1)
    BY <2>1, <2>2
  <2> QED BY <2>1, <2>4, <2>5 DEF Spliced, g, n
<1>6. ASSUME NEW k \in 0 .. Len(f)
      PROVE  /\ InsertAt(f, k + 1, s) \in Seq(Segments)
             /\ Spliced(f, s, k + 1, -1, InsertAt(f, k + 1, s))
  <2> DEFINE i == k + 1
             g == InsertAt(f, i, s)
  <2>0. i \in 1 .. Len(f) + 1
    BY <1>1
  <2> HIDE DEF i
  <2>1. /\ g \in Seq(Segments)
        /\ Len(g) = Len(f) + 1
        /\ \A j \in 1 .. Len(f) + 1 :
             g[j] = IF j < i THEN f[j] ELSE IF j = i THEN s ELSE f[j - 1]
    <3>1. InsertAt(f, i, s) \in Seq(Segments) /\ Len(InsertAt(f, i, s)) = Len(f) + 1
      BY <2>0, InsertAtEntries
    <3>2. \A j \in 1 .. Len(f) + 1 :
            InsertAt(f, i, s)[j] = IF j < i THEN f[j] ELSE IF j = i THEN s ELSE f[j - 1]
      BY <2>0, InsertAtEntries
    <3> QED BY <3>1, <3>2
  <2> HIDE DEF g
  <2>2. \A j \in 1 .. Len(f) + 1 : j + (-1) = j - 1
    BY <1>1
  <2>3. Len(g) = Len(f) - (-1)
    BY <1>1, <2>1
  <2>4. Spliced(f, s, i, -1, g)
    BY <2>1, <2>2, <2>3 DEF Spliced
  <2> QED BY <2>1, <2>4 DEF g, i
<1> QED BY <1>2, <1>3, <1>4, <1>5, <1>6

(* The search for the place finds it.                                      *)
LEMMA PlaceIs ==
  ASSUME NEW f \in Seq(Segments), NEW s, NEW k \in 0 .. Len(f), s.base \in Nat,
         \A j \in 1 .. k : f[j].base <= s.base,
         k < Len(f) => f[k + 1].base > s.base
  PROVE  Place(f, s) = k + 1
<1> DEFINE P(i) == /\ i <= Len(f) => f[i].base > s.base
                   /\ \A j \in 1 .. i - 1 : f[j].base <= s.base
<1>1. Len(f) \in Nat /\ \A j \in 1 .. Len(f) : f[j].base \in Nat
  BY LenProperties, EntryFields
<1>2. k + 1 \in 1 .. Len(f) + 1 /\ P(k + 1)
  BY <1>1
<1>3. ASSUME NEW i \in 1 .. Len(f) + 1, P(i) PROVE i = k + 1
  <2>1. CASE i < k + 1
    <3>1. i \in 1 .. k /\ i \in 1 .. Len(f) /\ i <= Len(f)
      BY <1>1, <2>1
    <3>2. f[i].base > s.base /\ f[i].base <= s.base
      BY <1>3, <3>1
    <3> QED BY <1>1, <3>1, <3>2
  <2>2. CASE i > k + 1
    <3>1. k + 1 \in 1 .. i - 1 /\ k + 1 \in 1 .. Len(f) /\ k < Len(f)
      BY <1>1, <2>2
    <3>2. f[k + 1].base > s.base /\ f[k + 1].base <= s.base
      BY <1>3, <3>1
    <3> QED BY <1>1, <3>1, <3>2
  <2> QED BY <1>1, <2>1, <2>2
<1>4. Place(f, s) = CHOOSE i \in 1 .. Len(f) + 1 : P(i)
  BY DEF Place
<1> HIDE DEF P
<1> QED BY <1>2, <1>3, <1>4

(* What MergeBetween does for a place i and the segment k = i - 1 below it. *)
Between(f, s, i, k) ==
  CASE f[k].next = s.base /\ f[i].base = s.next ->
         RemoveAt(GrowOver(f, k, f[i].next, f[i].size, s.size), i)
    [] f[k].next = s.base /\ ~ f[i].base = s.next -> GrowUp(f, k, s.next, s.size)
    [] ~ f[k].next = s.base /\ f[i].base = s.next -> GrowDown(f, i, s.base, s.size)
    [] OTHER -> InsertAt(f, i, s)

(***************************************************************************)
(* The merge of deallocate_memory: whatever segments the block touches,    *)
(* the free list stays in order and merged, and covers the block besides   *)
(* what it covered; the search for its place does not leave the vector.    *)
(***************************************************************************)
LEMMA MergeKeeps ==
  ASSUME NEW f, NEW s, NEW lo, NEW hi, Mergeable(f, s, lo, hi)
  PROVE  FreedInto(f, s, Merge(f, s)) /\ ~ LooksPastEnd(f, s)
<1> DEFINE n == Len(f)
<1>1. f \in Seq(Segments) /\ s \in Segments /\ n \in Nat
  BY LenProperties DEF Mergeable
<1>2. PICK k \in 0 .. n :
        /\ Splits(f, s, k)
        /\ \A j \in 1 .. k : f[j].base <= s.base
        /\ k < n => f[k + 1].base > s.base
  BY SplitsExists DEF Mergeable
<1>3. Place(f, s) = k + 1
  BY <1>1, <1>2, PlaceIs, Fields
<1>4. /\ s.base \in Nat /\ s.next \in Nat /\ s.size \in Nat
      /\ s.size > 0 /\ s.next = s.base + s.size
      /\ \A j \in 1 .. n :
           /\ f[j].base \in Nat /\ f[j].next \in Nat /\ f[j].size \in Nat
           /\ f[j].size > 0 /\ f[j].next = f[j].base + f[j].size
           /\ j <= k => f[j].next <= s.base
           /\ j > k => s.next <= f[j].base
  BY <1>2, MergeFacts
<1>5. ~ LooksPastEnd(f, s)
  <2> SUFFICES ASSUME LooksPastEnd(f, s) PROVE FALSE
    OBVIOUS
  <2>1. k = n /\ n \in 1 .. n /\ f[n].next > s.base
    BY <1>1, <1>2, <1>3 DEF LooksPastEnd
  <2> QED BY <1>1, <1>4, <2>1
<1>6. n > 0 => /\ 1 \in 1 .. n /\ n \in 1 .. n
               /\ s.base < f[1].base => k = 0
               /\ s.base >= f[1].base => k > 0
               /\ f[n].next <= s.base => k = n
               /\ k = n => f[n].next <= s.base
  <2> SUFFICES ASSUME n > 0 
               PROVE  /\ 1 \in 1 .. n /\ n \in 1 .. n
                      /\ s.base < f[1].base => k = 0
                      /\ s.base >= f[1].base => k > 0
                      /\ f[n].next <= s.base => k = n
                      /\ k = n => f[n].next <= s.base
    OBVIOUS
  <2>1. 1 \in 1 .. n /\ n \in 1 .. n
    BY <1>1
  <2>2. s.base < f[1].base => k = 0
    BY <1>1, <1>2, <1>4, <2>1
  <2>3. s.base >= f[1].base => k > 0
    BY <1>1, <1>2, <1>4, <2>1
  <2>4. f[n].next <= s.base => k = n
    <3> SUFFICES ASSUME f[n].next <= s.base, k < n PROVE FALSE
      BY <1>1
    <3>1. s.next <= f[n].base
      BY <1>1, <1>4, <2>1
    <3>2. /\ s.base \in Nat /\ s.next \in Nat /\ s.next > s.base
          /\ f[n].base \in Nat /\ f[n].next \in Nat /\ f[n].next > f[n].base
      BY <1>4, <2>1
    <3> QED BY <3>1, <3>2
  <2>5. k = n => f[n].next <= s.base
    BY <1>4, <2>1
  <2> QED BY <2>1, <2>2, <2>3, <2>4, <2>5
<1> DEFINE below == k > 0 /\ Meets(f[k], s)
           above == k < n /\ Meets(s, f[k + 1])
           wb == Fresh(f[k].base, f[k].size + s.size, s.next)
           wa == Fresh(s.base, f[k + 1].size + s.size, f[k + 1].next)
           w2 == Fresh(f[k].base, f[k].size + f[k + 1].size + s.size, f[k + 1].next)
<1>7. ASSUME NEW g \in Seq(Segments), Spliced(f, s, k + 1, -1, g), ~ below, ~ above
      PROVE  FreedInto(f, s, g)
  BY <1>1, <1>2, <1>7, MergeNowhere
<1>8. ASSUME below, ~ above PROVE FreedInto(f, s, Replaced(f, k, wb))
  <2>1. k \in 1 .. n
    BY <1>1, <1>8
  <2> DEFINE g == Replaced(f, k, wb)
  <2>2. (wb \in Segments => g \in Seq(Segments)) /\ Spliced(f, wb, k, 0, g)
    BY <1>1, <2>1, ReplacedEntries
  <2>3. wb = Fresh(f[k].base, f[k].size + s.size, s.next)
    OBVIOUS
  <2> HIDE DEF g, wb
  <2>4. k > 0 /\ Meets(f[k], s) /\ (k < Len(f) => ~ Meets(s, f[k + 1]))
    BY <1>8
  <2>5. FreedInto(f, s, g)
    BY <1>2, <2>2, <2>3, <2>4, MergeBelow
  <2> QED BY <2>5 DEF g
<1>9. ASSUME above, ~ below PROVE FreedInto(f, s, Replaced(f, k + 1, wa))
  <2>1. k + 1 \in 1 .. n
    BY <1>1, <1>9
  <2> DEFINE g == Replaced(f, k + 1, wa)
  <2>2. (wa \in Segments => g \in Seq(Segments)) /\ Spliced(f, wa, k + 1, 0, g)
    BY <1>1, <2>1, ReplacedEntries
  <2>3. wa = Fresh(s.base, f[k + 1].size + s.size, f[k + 1].next)
    OBVIOUS
  <2> HIDE DEF g, wa
  <2>4. k < Len(f) /\ Meets(s, f[k + 1]) /\ (k > 0 => ~ Meets(f[k], s))
    BY <1>9
  <2>5. FreedInto(f, s, g)
    BY <1>2, <2>2, <2>3, <2>4, MergeAbove
  <2> QED BY <2>5 DEF g
<1>10. ASSUME below, above PROVE FreedInto(f, s, RemoveAt(Replaced(f, k, w2), k + 1))
  <2>1. k \in 1 .. n /\ k + 1 \in 1 .. n
    BY <1>1, <1>10
  <2> DEFINE h == Replaced(f, k, w2)
             i == k + 1
             g == RemoveAt(h, i)
  <2>5. w2 = Fresh(f[k].base, f[k].size + f[k + 1].size + s.size, f[k + 1].next)
    OBVIOUS
  <2> HIDE DEF w2
  <2>2. /\ w2 \in Segments => h \in Seq(Segments)
        /\ Len(h) = n
        /\ \A j \in 1 .. n : h[j] = IF j = k THEN w2 ELSE f[j]
    <3>1. (w2 \in Segments => h \in Seq(Segments)) /\ Len(h) = Len(f)
      BY <1>1, <2>1, ReplacedEntries
    <3>2. ASSUME NEW j \in 1 .. Len(f) PROVE h[j] = IF j = k THEN w2 ELSE f[j]
      BY <1>1, <2>1, ReplacedEntries
    <3> QED BY <3>1, <3>2
  <2>3. h \in Seq(Segments \union {w2})
    <3> USE DEF Replaced
    <3>1. f \in Seq(Segments \union {w2})
      BY <1>1, SeqMonotonic
    <3> QED BY <2>1, <3>1, ExceptSeq
  <2>4. i \in 1 .. Len(h)
    BY <2>1, <2>2
  <2> HIDE DEF h
  <2>6. w2 \in Segments => g \in Seq(Segments)
    <3> SUFFICES ASSUME w2 \in Segments PROVE g \in Seq(Segments)
      OBVIOUS
    <3> HIDE DEF i
    <3> QED BY <2>2, <2>4, RemoveAtType
  <2>7. /\ Len(g) = n - 1
        /\ \A j \in 1 .. n - 1 : g[j] = IF j < i THEN h[j] ELSE h[j + 1]
    <3> HIDE DEF i
    <3>1. /\ Len(g) = Len(h) - 1
          /\ \A j \in 1 .. Len(h) - 1 : g[j] = IF j < i THEN h[j] ELSE h[j + 1]
      BY <2>3, <2>4, RemoveAtEntries, Zenon
    <3> QED BY <2>2, <3>1
  <2> HIDE DEF g
  <2>8. ASSUME NEW j \in 1 .. n - 1
        PROVE  g[j] = IF j < k THEN f[j] ELSE IF j = k THEN w2 ELSE f[j + 1]
    <3>1. j \in 1 .. n /\ j + 1 \in 1 .. n /\ k \in Nat
      BY <1>1
    <3>2. CASE j < k
      <4>1. j < i /\ j # k
        BY <3>1, <3>2
      <4>2. g[j] = h[j]
        BY <2>7, <4>1
      <4> QED BY <2>2, <3>1, <3>2, <4>1, <4>2
    <3>3. CASE j = k
      BY <2>2, <2>7, <3>1, <3>3
    <3>4. CASE j > k
      <4>1. ~ (j < i) /\ j + 1 # k /\ ~ (j < k) /\ j # k
        BY <3>1, <3>4
      <4>2. g[j] = h[j + 1]
        BY <2>7, <4>1
      <4>3. h[j + 1] = f[j + 1]
        BY <2>2, <3>1, <4>1
      <4> QED BY <4>1, <4>2, <4>3
    <3> QED BY <3>1, <3>2, <3>3, <3>4
  <2>9. Spliced(f, w2, k, 1, g)
    BY <2>7, <2>8 DEF Spliced
  <2>10. k > 0 /\ Meets(f[k], s) /\ k < Len(f) /\ Meets(s, f[k + 1])
    BY <1>10
  <2>11. FreedInto(f, s, g)
    BY <1>2, <2>5, <2>6, <2>9, <2>10, MergeBoth
  <2> QED BY <2>11 DEF g, h
<1>11. ASSUME below
       PROVE  /\ GrowUp(f, k, s.next, s.size) = Replaced(f, k, wb)
              /\ GrowOver(f, k, f[k + 1].next, f[k + 1].size, s.size) = Replaced(f, k, w2)
  <2>1. k \in 1 .. Len(f)
    BY <1>1, <1>11
  <2> QED BY <1>1, <2>1, EntryChanged, EntryJoined
<1>12. ASSUME above
       PROVE  GrowDown(f, k + 1, s.base, s.size) = Replaced(f, k + 1, wa)
  <2>1. k + 1 \in 1 .. Len(f)
    BY <1>1, <1>12
  <2> QED BY <1>1, <2>1, EntryChanged
<1>14. CASE n = 0
  <2>1. k = 0 /\ ~ below /\ ~ above /\ Merge(f, s) = <<s>>
    BY <1>1, <1>14 DEF Merge
  <2>2. <<s>> \in Seq(Segments) /\ Spliced(f, s, k + 1, -1, <<s>>)
    BY <1>1, <1>14, <2>1, MergeForms
  <2> QED BY <1>5, <1>7, <2>1, <2>2
<1>15. CASE n > 0 /\ s.base < f[1].base
  <2>1. k = 0 /\ ~ below /\ n # 0 /\ k < n /\ k + 1 = 1 /\ ~ (s.base >= f[1].base)
    BY <1>1, <1>4, <1>6, <1>15
  <2>2. CASE s.next = f[1].base
    <3>1. above
      BY <2>1, <2>2 DEF Meets
    <3>2. Merge(f, s) = GrowDown(f, 1, s.base, s.size)
      BY <1>4, <1>15, <2>1, <2>2 DEF Merge, GrowDown
    <3>3. Merge(f, s) = Replaced(f, k + 1, wa)
      BY <1>12, <2>1, <3>1, <3>2
    <3> QED BY <1>5, <1>9, <2>1, <3>1, <3>3
  <2>3. CASE s.next # f[1].base
    <3>1. ~ above
      BY <2>1, <2>3 DEF Meets
    <3>2. Merge(f, s) = <<s>> \o f
      BY <1>15, <2>1, <2>3 DEF Merge
    <3>3. <<s>> \o f \in Seq(Segments) /\ Spliced(f, s, k + 1, -1, <<s>> \o f)
      BY <1>1, <2>1, MergeForms
    <3> QED BY <1>5, <1>7, <2>1, <3>1, <3>2, <3>3
  <2> QED BY <2>2, <2>3
<1>16. CASE n > 0 /\ ~ (s.base < f[1].base)
  <2>1. /\ n # 0 /\ s.base >= f[1].base /\ k > 0 /\ k \in 1 .. n
        /\ f[n].base \in Nat /\ f[n].next \in Nat
    BY <1>1, <1>4, <1>6, <1>16
  <2>2. CASE f[n].next = s.base
    <3>1. k = n
      BY <1>4, <1>6, <1>16, <2>2
    <3>2. below /\ ~ above
      BY <2>1, <2>2, <3>1 DEF Meets
    <3>3. Merge(f, s) = GrowUp(f, n, s.next, s.size)
      BY <1>16, <2>1, <2>2 DEF Merge, GrowUp
    <3>4. Merge(f, s) = Replaced(f, k, wb)
      BY <1>11, <3>1, <3>2, <3>3
    <3> QED BY <1>5, <1>8, <3>2, <3>4
  <2>3. CASE f[n].next < s.base
    <3>1. k = n
      BY <1>4, <1>6, <1>16, <2>1, <2>3
    <3>2. ~ below /\ ~ above
      BY <1>4, <2>1, <2>3, <3>1 DEF Meets
    <3>3. Merge(f, s) = Append(f, s)
      BY <1>4, <1>16, <2>1, <2>3 DEF Merge
    <3>4. Append(f, s) \in Seq(Segments) /\ Spliced(f, s, k + 1, -1, Append(f, s))
      BY <1>1, <3>1, MergeForms
    <3> QED BY <1>5, <1>7, <3>2, <3>3, <3>4
  <2>4. CASE f[n].next > s.base
    <3>1. k < n /\ k + 1 - 1 = k
      BY <1>1, <1>2, <1>4, <1>6, <1>16, <2>1, <2>4
    <3>2. Merge(f, s) = MergeBetween(f, s)
      BY <1>4, <1>16, <2>1, <2>4 DEF Merge
    <3>3. /\ below <=> f[k].next = s.base
          /\ above <=> f[k + 1].base = s.next
      BY <2>1, <3>1 DEF Meets
    <3>8. MergeBetween(f, s) = Between(f, s, k + 1, k)
      <4>1. MergeBetween(f, s) = Between(f, s, Place(f, s), Place(f, s) - 1)
        BY DEF MergeBetween, Between, GrowUp, GrowDown, GrowOver
      <4> QED BY <1>3, <3>1, <4>1
    <3>4. CASE below /\ above
      <4>1. MergeBetween(f, s) = 
              RemoveAt(GrowOver(f, k, f[k + 1].next, f[k + 1].size, s.size), k + 1)
        BY <3>1, <3>3, <3>8, <3>4 DEF Between
      <4> QED BY <1>5, <1>10, <1>11, <3>2, <3>4, <4>1
    <3>5. CASE below /\ ~ above
      <4>1. MergeBetween(f, s) = GrowUp(f, k, s.next, s.size)
        BY <3>1, <3>3, <3>8, <3>5 DEF Between
      <4> QED BY <1>5, <1>8, <1>11, <3>2, <3>5, <4>1
    <3>6. CASE ~ below /\ above
      <4>1. MergeBetween(f, s) = GrowDown(f, k + 1, s.base, s.size)
        BY <3>1, <3>3, <3>8, <3>6 DEF Between
      <4> QED BY <1>5, <1>9, <1>12, <3>2, <3>6, <4>1
    <3>7. CASE ~ below /\ ~ above
      <4>1. MergeBetween(f, s) = InsertAt(f, k + 1, s)
        BY <3>1, <3>3, <3>8, <3>7 DEF Between
      <4>2. InsertAt(f, k + 1, s) \in Seq(Segments)
            /\ Spliced(f, s, k + 1, -1, InsertAt(f, k + 1, s))
        BY <1>1, MergeForms
      <4> QED BY <1>5, <1>7, <3>2, <3>7, <4>1, <4>2
    <3> QED BY <3>4, <3>5, <3>6, <3>7
  <2> QED BY <1>4, <2>1, <2>2, <2>3, <2>4
<1> QED BY <1>1, <1>14, <1>15, <1>16

-----------------------------------------------------------------------------
(* Pools                                                                   *)

(***************************************************************************)
(* The inductive invariant of a pool: its lists are in order, each address *)
(* of the pool is covered by one list and no other address by either.      *)
(***************************************************************************)
Sound(p) ==
  /\ p \in Pool /\ p.misled = FALSE
  /\ FreeOK(p.free)
  /\ AllocOK(p.alloc)
  /\ \A a \in Nat : In(p, a) <=> Covered(p.free, a) \/ Covered(p.alloc, a)
  /\ \A a \in Nat : ~ (Covered(p.free, a) /\ Covered(p.alloc, a))

LEMMA PoolFields ==
  ASSUME NEW p \in Pool
  PROVE  /\ p.base \in Nat \ {0} /\ p.size \in Nat \ {0} /\ p.size < SizeMax
         /\ SizeMax \in Nat /\ p.base + p.size \in Nat
         /\ p.free \in Seq(Segments) /\ p.alloc \in Seq(Segments)
<1>1. SizeMax \in Nat
  BY GranuleAssumption
<1>2. p.base \in Nat \ {0} /\ p.size \in (0 .. SizeMax - 1) \ {0}
  BY DEF Pool, Size
<1>3. p.free \in Seq(Segments) /\ p.alloc \in Seq(Segments)
  BY DEF Pool
<1> QED BY <1>1, <1>2, <1>3

(* A segment covers its first address and its last.                        *)
LEMMA Ends ==
  ASSUME NEW q \in Seq(Segments), NEW i \in 1 .. Len(q), Whole(q[i])
  PROVE  /\ q[i].base \in Nat /\ q[i].next - 1 \in Nat
         /\ q[i].next = q[i].next - 1 + 1 /\ q[i].next > q[i].base
         /\ In(q[i], q[i].base) /\ In(q[i], q[i].next - 1)
         /\ Covered(q, q[i].base) /\ Covered(q, q[i].next - 1)
<1>1. PICK b, x \in Nat : q[i].base = b /\ q[i].size = x /\ x > 0 /\ q[i].next = b + x
  BY EntryFields DEF Whole
<1>2. In(q[i], b) /\ In(q[i], b + x - 1) /\ b + x - 1 \in Nat /\ b + x = b + x - 1 + 1
      /\ b + x > b
  BY <1>1 DEF In
<1> QED BY <1>1, <1>2 DEF Covered

LEMMA SoundWithin ==
  ASSUME NEW p, Sound(p)
  PROVE  Within(p.free, p.base, p.base + p.size) /\ Within(p.alloc, p.base, p.base + p.size)
<1>1. ASSUME NEW q \in Seq(Segments), NEW i \in 1 .. Len(q), Whole(q[i]),
             \A a \in Nat : Covered(q, a) => In(p, a)
      PROVE  p.base <= q[i].base /\ q[i].next <= p.base + p.size
  <2>1. In(p, q[i].base) /\ In(p, q[i].next - 1)
    BY <1>1, Ends
  <2>2. q[i].next - 1 \in Nat /\ q[i].next = q[i].next - 1 + 1
    BY <1>1, Ends
  <2>3. p.base + p.size \in Nat
    BY PoolFields DEF Sound
  <2> DEFINE e == q[i].next - 1
             m == p.base + p.size
  <2>4. e < m
    BY <2>1 DEF In
  <2>5. e \in Nat /\ m \in Nat /\ q[i].next = e + 1
    BY <2>2, <2>3
  <2> HIDE DEF e, m
  <2>6. e + 1 <= m
    BY <2>4, <2>5
  <2>7. q[i].next <= p.base + p.size
    BY <2>5, <2>6 DEF m
  <2> QED BY <2>1, <2>7 DEF In
<1>2. p.free \in Seq(Segments) /\ p.alloc \in Seq(Segments)
  BY PoolFields DEF Sound
<1>3. /\ \A a \in Nat : Covered(p.free, a) => In(p, a)
      /\ \A a \in Nat : Covered(p.alloc, a) => In(p, a)
  BY DEF Sound
<1>4. /\ \A i \in 1 .. Len(p.free) : Whole(p.free[i])
      /\ \A i \in 1 .. Len(p.alloc) : Whole(p.alloc[i])
  BY DEF Sound, FreeOK, AllocOK
<1> QED BY <1>1, <1>2, <1>3, <1>4 DEF Within

(* The segments of the two lists lie apart.                                *)
LEMMA SoundApart ==
  ASSUME NEW p, Sound(p), NEW i \in 1 .. Len(p.free), NEW j \in 1 .. Len(p.alloc)
  PROVE  Apart(p.free[i], p.alloc[j])
<1>1. p.free \in Seq(Segments) /\ p.alloc \in Seq(Segments)
  BY PoolFields DEF Sound
<1>2. p.free[i] \in Segments /\ p.alloc[j] \in Segments
  BY <1>1, EntryFields
<1>3. Whole(p.free[i]) /\ Whole(p.alloc[j])
  BY DEF Sound, FreeOK, AllocOK
<1>4. \A a \in Nat : ~ (In(p.free[i], a) /\ In(p.alloc[j], a))
  BY DEF Sound, Covered
<1> QED BY <1>2, <1>3, <1>4, ApartCommon

(* No address is covered by two segments of one list.                      *)
LEMMA FreeApart ==
  ASSUME NEW q \in Seq(Segments), FreeOK(q),
         NEW i \in 1 .. Len(q), NEW j \in 1 .. Len(q), i # j
  PROVE  Apart(q[i], q[j])
<1>1. Len(q) \in Nat
  BY LenProperties
<1>2. i < j \/ j < i
  BY <1>1
<1>3. q[i].next < q[j].base \/ q[j].next < q[i].base
  BY <1>2 DEF FreeOK
<1>4. /\ q[i].next \in Nat /\ q[j].next \in Nat /\ q[i].base \in Nat /\ q[j].base \in Nat
  BY EntryFields
<1> QED BY <1>3, <1>4 DEF Apart

LEMMA ApartDisjoint ==
  ASSUME NEW s \in Segments, NEW t \in Segments, Whole(s), Whole(t), Apart(s, t), NEW a \in Nat
  PROVE  ~ (In(s, a) /\ In(t, a))
<1>1. PICK b, x, c, y \in Nat : /\ s.base = b /\ s.size = x /\ s.next = b + x
                                /\ t.base = c /\ t.size = y /\ t.next = c + y
  BY Fields DEF Whole
<1>2. b + x <= c \/ c + y <= b
  BY <1>1 DEF Apart
<1> QED BY <1>1, <1>2 DEF In

(* A pool just created is one free segment.                                *)
LEMMA NewPoolSound ==
  ASSUME NEW base \in Nat \ {0}, NEW size \in Size \ {0}
  PROVE  Sound(NewPool(base, size))
<1> DEFINE p == NewPool(base, size)
           s == Segment(base, size)
<1>1. size \in Nat \ {0} /\ base + size \in Nat
  BY GranuleAssumption DEF Size
<1>2. s \in Segments /\ s.base = base /\ s.size = size /\ s.next = base + size
  BY <1>1 DEF Segments, Segment
<1>3. p.base = base /\ p.size = size /\ p.free = <<s>> /\ p.alloc = <<>> /\ p.misled = FALSE
  BY DEF NewPool
<1>4. p \in Pool
  BY <1>2 DEF NewPool, Pool
<1> HIDE DEF p, s
<1>5. FreeOK(p.free)
  BY <1>1, <1>2, <1>3 DEF FreeOK, Whole
<1>6. AllocOK(p.alloc)
  BY <1>3 DEF AllocOK
<1>7. ASSUME NEW a PROVE ~ Covered(p.alloc, a) /\ (Covered(p.free, a) <=> In(p, a))
  <2>1. Covered(p.free, a) <=> In(s, a)
    BY <1>3 DEF Covered
  <2>2. ~ Covered(p.alloc, a)
    BY <1>3 DEF Covered
  <2> QED BY <1>2, <1>3, <2>1, <2>2 DEF In
<1>8. Sound(p)
  BY <1>3, <1>4, <1>5, <1>6, <1>7 DEF Sound
<1> QED BY <1>8 DEF p

LEMMA FreeIsAlloc ==
  ASSUME NEW q \in Seq(Segments), FreeOK(q)
  PROVE  AllocOK(q)
  BY FreeApart DEF FreeOK, AllocOK

(* Erasing a segment uncovers its addresses and no others.                 *)
LEMMA ErasedSegment ==
  ASSUME NEW q \in Seq(Segments), AllocOK(q), NEW i \in 1 .. Len(q)
  PROVE  /\ RemoveAt(q, i) \in Seq(Segments) /\ Len(RemoveAt(q, i)) = Len(q) - 1
         /\ AllocOK(RemoveAt(q, i))
         /\ FreeOK(q) => FreeOK(RemoveAt(q, i))
         /\ \A a \in Nat : Covered(RemoveAt(q, i), a) <=> Covered(q, a) /\ ~ In(q[i], a)
<1> DEFINE g == RemoveAt(q, i)
           n == Len(q)
<1>1. n \in Nat /\ i \in 1 .. n
  BY LenProperties
<1>2. g \in Seq(Segments) /\ Len(g) = n - 1
  BY RemoveAtType
<1>3. \A j \in 1 .. n - 1 : g[j] = IF j < i THEN q[j] ELSE q[j + 1]
  BY RemoveAtEntries, Zenon
<1>4. /\ \A j \in 1 .. n : Whole(q[j])
      /\ \A j, l \in 1 .. n : j # l => Apart(q[j], q[l])
  BY DEF AllocOK
<1> DEFINE at == [j \in 1 .. n - 1 |-> IF j < i THEN j ELSE j + 1]
<1>5. /\ \A j \in 1 .. n - 1 : at[j] \in 1 .. n /\ at[j] # i
      /\ \A j, l \in 1 .. n - 1 : j < l => at[j] < at[l]
      /\ \A l \in 1 .. n : l # i => \E j \in 1 .. n - 1 : at[j] = l
  <2>1. ASSUME NEW j \in 1 .. n - 1 PROVE at[j] \in 1 .. n /\ at[j] # i
    BY <1>1
  <2>2. ASSUME NEW j \in 1 .. n - 1, NEW l \in 1 .. n - 1, j < l PROVE at[j] < at[l]
    BY <1>1, <2>2
  <2>3. ASSUME NEW l \in 1 .. n, l # i PROVE \E j \in 1 .. n - 1 : at[j] = l
    <3>1. CASE l < i
      <4>1. l \in 1 .. n - 1 /\ at[l] = l
        BY <1>1, <3>1
      <4> QED BY <4>1
    <3>2. CASE l > i
      <4>1. l - 1 \in 1 .. n - 1 /\ at[l - 1] = l
        BY <1>1, <3>2
      <4> QED BY <4>1
    <3> QED BY <1>1, <2>3, <3>1, <3>2
  <2> QED BY <2>1, <2>2, <2>3
<1>6. \A j \in 1 .. n - 1 : g[j] = q[at[j]]
  BY <1>3
<1> HIDE DEF g, at
<1>7. AllocOK(g)
  <2>1. \A j, l \in 1 .. n - 1 : j # l => at[j] # at[l]
    <3>1. \A j, l \in 1 .. n - 1 : j # l => j < l \/ l < j
      BY <1>1
    <3>2. \A j \in 1 .. n - 1 : at[j] \in Nat
      BY <1>1, <1>5
    <3> QED BY <1>5, <3>1, <3>2
  <2>2. ASSUME NEW j \in 1 .. n - 1 PROVE Whole(g[j])
    <3>1. at[j] \in 1 .. n
      BY <1>5
    <3>2. Whole(q[at[j]])
      BY <1>4, <3>1
    <3> QED BY <1>6, <3>2
  <2>3. ASSUME NEW j \in 1 .. n - 1, NEW l \in 1 .. n - 1, j # l PROVE Apart(g[j], g[l])
    <3>1. at[j] \in 1 .. n /\ at[l] \in 1 .. n /\ at[j] # at[l]
      BY <1>5, <2>1, <2>3
    <3>2. Apart(q[at[j]], q[at[l]])
      BY <1>4, <3>1
    <3> QED BY <1>6, <3>2
  <2> QED BY <1>2, <2>2, <2>3 DEF AllocOK
<1>8. ASSUME FreeOK(q) PROVE FreeOK(g)
  <2>1. \A j, l \in 1 .. n : j < l => q[j].next < q[l].base
    BY <1>8 DEF FreeOK
  <2>2. ASSUME NEW j \in 1 .. n - 1 PROVE Whole(g[j])
    <3>1. at[j] \in 1 .. n
      BY <1>5
    <3>2. Whole(q[at[j]])
      BY <1>4, <3>1
    <3> QED BY <1>6, <3>2
  <2>3. ASSUME NEW j \in 1 .. n - 1, NEW l \in 1 .. n - 1, j < l PROVE g[j].next < g[l].base
    <3>1. at[j] \in 1 .. n /\ at[l] \in 1 .. n /\ at[j] < at[l]
      BY <1>5, <2>3
    <3>2. q[at[j]].next < q[at[l]].base
      BY <2>1, <3>1
    <3> QED BY <1>6, <3>2
  <2> QED BY <1>2, <2>2, <2>3 DEF FreeOK
<1>9. ASSUME NEW a \in Nat PROVE Covered(g, a) <=> Covered(q, a) /\ ~ In(q[i], a)
  <2>1. ASSUME NEW l \in 1 .. n, l # i, In(q[l], a) PROVE ~ In(q[i], a)
    <3>1. q[l] \in Segments /\ q[i] \in Segments
      BY EntryFields
    <3> QED BY <1>1, <1>4, <2>1, <3>1, ApartDisjoint
  <2>2. Covered(g, a) <=> \E l \in 1 .. n : l # i /\ In(q[l], a)
    <3>1. Covered(g, a) <=> \E j \in 1 .. n - 1 : In(g[j], a)
      BY <1>2 DEF Covered
    <3>2. ASSUME NEW j \in 1 .. n - 1, In(g[j], a) PROVE \E l \in 1 .. n : l # i /\ In(q[l], a)
      BY <1>5, <1>6, <3>2
    <3>3. ASSUME NEW l \in 1 .. n, l # i, In(q[l], a) PROVE \E j \in 1 .. n - 1 : In(g[j], a)
      BY <1>5, <1>6, <3>3
    <3> QED BY <3>1, <3>2, <3>3
  <2>3. Covered(q, a) <=> \E l \in 1 .. n : In(q[l], a)
    BY DEF Covered
  <2> QED BY <1>1, <2>1, <2>2, <2>3
<1> QED BY <1>2, <1>7, <1>8, <1>9 DEF g

(* Cutting the front of a free segment off uncovers what is cut off.       *)
LEMMA ShrunkSegment ==
  ASSUME NEW f \in Seq(Segments), FreeOK(f), NEW k \in 1 .. Len(f),
         NEW r \in Nat, r > 0, r < f[k].size
  PROVE  /\ Shrunk(f, k, r) \in Seq(Segments) /\ FreeOK(Shrunk(f, k, r))
         /\ \A a \in Nat : Covered(Shrunk(f, k, r), a) <=>
                             Covered(f, a) /\ ~ In(Segment(f[k].base, r), a)
<1> DEFINE w == Fresh(f[k].base + r, f[k].size - r, f[k].next)
           g == Replaced(f, k, w)
           t == Segment(f[k].base, r)
<1>1. Len(f) \in Nat /\ f \in [1 .. Len(f) -> Segments] /\ f[k] \in Segments
  BY LenProperties, ElementOfSeq
<1>2. Shrunk(f, k, r) = g
  <2>1. [f EXCEPT ![k].base = @ + r, ![k].size = @ - r]
          = [f EXCEPT ![k] = [f[k] EXCEPT !.base = @ + r, !.size = @ - r]]
    BY <1>1
  <2>2. [f[k] EXCEPT !.base = @ + r, !.size = @ - r]
          = [f[k] EXCEPT !.base = f[k].base + r, !.size = f[k].size - r]
    BY <1>1
  <2>3. [f[k] EXCEPT !.base = f[k].base + r, !.size = f[k].size - r] = w
    BY <1>1, FieldsChanged
  <2> QED BY <2>1, <2>2, <2>3 DEF Shrunk, Replaced
<1>3. PICK b, x \in Nat : f[k].base = b /\ f[k].size = x /\ f[k].next = b + x /\ x < SizeMax
  BY EntryFields DEF FreeOK, Whole
<1>4. w = [base |-> b + r, size |-> x - r, next |-> b + x]
  BY <1>3 DEF Fresh
<1>5. w \in Segments /\ Whole(w)
  <2>1. x - r \in 0 .. SizeMax - 1 /\ x - r > 0 /\ b + x = (b + r) + (x - r)
        /\ b + x \in Nat /\ b + r \in Nat
    <3>1. r < x /\ SizeMax \in Nat /\ x < SizeMax
      BY <1>3, GranuleAssumption
    <3>2. x - r \in 0 .. SizeMax - 1
      BY <3>1
    <3>3. x - r > 0 /\ b + x = (b + r) + (x - r)
      BY <3>1
    <3>4. b + x \in Nat /\ b + r \in Nat
      BY <3>1
    <3> QED BY <3>2, <3>3, <3>4
  <2> DEFINE c == b + r
             y == x - r
             e == b + x
  <2>2. w \in Segments
    <3>1. c \in Nat /\ y \in Size /\ e \in Nat
      BY <2>1 DEF Size
    <3>2. w = [base |-> c, size |-> y, next |-> e]
      BY <1>4
    <3> HIDE DEF c, y, e
    <3> QED BY <3>1, <3>2 DEF Segments
  <2> QED BY <1>4, <2>1, <2>2 DEF Whole
<1> HIDE DEF w
<1>6. /\ g \in Seq(Segments) /\ Len(g) = Len(f)
      /\ Spliced(f, w, k, 0, g)
  BY <1>5, ReplacedEntries
<1>7. \A j \in 1 .. Len(f) : g[j] = IF j = k THEN w ELSE f[j]
  BY ReplacedEntries
<1> HIDE DEF g
<1>8. FreeOK(g)
  <2>1. k \in 1 .. Len(f) + 1 /\ 0 \in -1 .. 1 /\ k + 0 <= Len(f) /\ k + 0 = k
    BY <1>1
  <2>2. ASSUME NEW j \in 1 .. k - 1 PROVE f[j].next < w.base
    <3>1. j \in 1 .. Len(f) /\ j < k
      BY <1>1
    <3>2. f[j].next < f[k].base /\ f[j].next \in Nat
      BY <3>1, EntryFields DEF FreeOK
    <3>3. f[j].next < b + r
      BY <1>3, <3>2
    <3> QED BY <1>4, <3>3
  <2>3. ASSUME NEW j \in k + 0 + 1 .. Len(f) PROVE w.next < f[j].base
    <3>1. j \in 1 .. Len(f) /\ k < j
      BY <1>1
    <3>2. f[k].next < f[j].base
      BY <3>1 DEF FreeOK
    <3> QED BY <1>3, <1>4, <3>2
  <2> QED BY <1>5, <1>6, <2>1, <2>2, <2>3, SplicedFree
<1>9. ASSUME NEW a \in Nat PROVE Covered(g, a) <=> Covered(f, a) /\ ~ In(t, a)
  <2>1. In(t, a) <=> b <= a /\ a < b + r
    BY <1>3 DEF In, Segment
  <2>2. In(w, a) <=> b + r <= a /\ a < b + r + (x - r)
    BY <1>4 DEF In
  <2>3. In(f[k], a) <=> b <= a /\ a < b + x
    BY <1>3 DEF In
  <2>4. /\ In(w, a) <=> In(f[k], a) /\ ~ In(t, a)
        /\ In(t, a) => In(f[k], a)
    BY <1>3, <2>1, <2>2, <2>3
  <2>5. ASSUME NEW j \in 1 .. Len(f), j # k, In(f[j], a) PROVE ~ In(f[k], a)
    <3>1. f[j] \in Segments /\ f[k] \in Segments /\ Whole(f[j]) /\ Whole(f[k])
      BY EntryFields DEF FreeOK
    <3>2. Apart(f[j], f[k])
      BY <2>5, FreeApart
    <3> QED BY <2>5, <3>1, <3>2, ApartDisjoint
  <2>6. Covered(g, a) <=> In(w, a) \/ \E j \in 1 .. Len(f) : j # k /\ In(f[j], a)
    BY <1>6, <1>7 DEF Covered
  <2>7. Covered(f, a) <=> In(f[k], a) \/ \E j \in 1 .. Len(f) : j # k /\ In(f[j], a)
    BY DEF Covered
  <2> QED BY <2>4, <2>5, <2>6, <2>7
<1> QED BY <1>2, <1>6, <1>8, <1>9

(* A segment that is put at the end covers its own addresses.              *)
LEMMA AppendedSegment ==
  ASSUME NEW q \in Seq(Segments), AllocOK(q), NEW t \in Segments, Whole(t),
         \A i \in 1 .. Len(q) : Apart(q[i], t)
  PROVE  /\ Append(q, t) \in Seq(Segments)
         /\ AllocOK(Append(q, t))
         /\ \A a \in Nat : Covered(Append(q, t), a) <=> Covered(q, a) \/ In(t, a)
<1> DEFINE g == Append(q, t)
           n == Len(q)
<1>1. /\ n \in Nat /\ g \in Seq(Segments) /\ Len(g) = n + 1
      /\ \A j \in 1 .. n : g[j] = q[j]
      /\ g[n + 1] = t
  BY AppendProperties, LenProperties
<1>2. \A j \in 1 .. n + 1 : j \in 1 .. n \/ j = n + 1
  BY <1>1
<1>3. 1 .. n \in SUBSET (1 .. n + 1) /\ n + 1 \in 1 .. n + 1
  BY <1>1
<1>4. /\ \A j \in 1 .. n : Whole(q[j])
      /\ \A j, l \in 1 .. n : j # l => Apart(q[j], q[l])
  BY DEF AllocOK
<1>5. \A j \in 1 .. n : Apart(q[j], t) /\ Apart(t, q[j])
  BY DEF Apart
<1>6. \A a : Covered(q, a) <=> \E j \in 1 .. n : In(q[j], a)
  BY DEF Covered
<1>7. Len(g) = n + 1
  BY <1>1
<1> HIDE DEF g, n
<1>8. AllocOK(g)
  <2>1. ASSUME NEW j \in 1 .. n + 1 PROVE Whole(g[j])
    BY <1>1, <1>2, <1>4
  <2>2. ASSUME NEW j \in 1 .. n + 1, NEW l \in 1 .. n + 1, j # l PROVE Apart(g[j], g[l])
    <3>1. CASE j \in 1 .. n /\ l \in 1 .. n
      BY <1>1, <1>4, <2>2, <3>1
    <3>2. CASE j = n + 1
      BY <1>1, <1>2, <1>5, <2>2, <3>2
    <3>3. CASE l = n + 1
      BY <1>1, <1>2, <1>5, <2>2, <3>3
    <3> QED BY <1>2, <3>1, <3>2, <3>3
  <2> QED BY <1>7, <2>1, <2>2 DEF AllocOK
<1>9. ASSUME NEW a \in Nat PROVE Covered(g, a) <=> Covered(q, a) \/ In(t, a)
  <2>1. Covered(g, a) <=> \E j \in 1 .. n + 1 : In(g[j], a)
    BY <1>7 DEF Covered
  <2> QED BY <1>1, <1>2, <1>3, <1>6, <2>1
<1> QED BY <1>1, <1>8, <1>9 DEF g

(* A pool whose lists cover the same addresses between them is as sound.   *)
LEMMA SoundMoved ==
  ASSUME NEW p, Sound(p), NEW r,
         r.base = p.base, r.size = p.size, r \in Pool, r.misled = FALSE,
         FreeOK(r.free), AllocOK(r.alloc), NEW t,
         \/ /\ \A a \in Nat : In(t, a) => Covered(p.free, a)
            /\ \A a \in Nat : Covered(r.free, a) <=> Covered(p.free, a) /\ ~ In(t, a)
            /\ \A a \in Nat : Covered(r.alloc, a) <=> Covered(p.alloc, a) \/ In(t, a)
         \/ /\ \A a \in Nat : In(t, a) => Covered(p.alloc, a)
            /\ \A a \in Nat : Covered(r.free, a) <=> Covered(p.free, a) \/ In(t, a)
            /\ \A a \in Nat : Covered(r.alloc, a) <=> Covered(p.alloc, a) /\ ~ In(t, a)
  PROVE  Sound(r)
<1>1. \A a \in Nat : In(r, a) <=> In(p, a)
  BY DEF In
<1>2. /\ \A a \in Nat : In(p, a) <=> Covered(p.free, a) \/ Covered(p.alloc, a)
      /\ \A a \in Nat : ~ (Covered(p.free, a) /\ Covered(p.alloc, a))
  BY DEF Sound
<1>3. \A a \in Nat : In(r, a) <=> Covered(r.free, a) \/ Covered(r.alloc, a)
  BY <1>1, <1>2
<1>4. \A a \in Nat : ~ (Covered(r.free, a) /\ Covered(r.alloc, a))
  BY <1>2
<1> QED BY <1>3, <1>4 DEF Sound

(* The first segment of the free list that fits.                           *)
LEMMA FirstFitFits ==
  ASSUME NEW p, NEW n, p.free \in Seq(Segments), Fits(p, n) # {}
  PROVE  FirstFit(p, n) \in 1 .. Len(p.free) /\ p.free[FirstFit(p, n)].size >= RoundUp(n)
<1>1. Fits(p, n) \in SUBSET Nat
  BY LenProperties DEF Fits
<1>2. \E i \in Fits(p, n) : \A j \in Fits(p, n) : i <= j
  BY <1>1, LeastNatural
<1>3. FirstFit(p, n) \in Fits(p, n)
  BY <1>2 DEF FirstFit
<1> QED BY <1>3 DEF Fits

(* Allocation takes the front of a free segment, or all of it.             *)
LEMMA AllocateSound ==
  ASSUME NEW p, Sound(p), NEW n \in Size \ {0}, n + Granule - 1 < SizeMax, Fits(p, n) # {}
  PROVE  /\ Sound(AllocateMemory(p, n))
         /\ AllocateMemory(p, n).base = p.base /\ AllocateMemory(p, n).size = p.size
<1> DEFINE i == FirstFit(p, n)
           R == RoundUp(n)
           f == p.free
           t == Segment(f[i].base, R)
           h == IF f[i].size = R THEN RemoveAt(f, i) ELSE Shrunk(f, i, R)
           g == Append(p.alloc, t)
           r == AllocateMemory(p, n)
<1>1. f \in Seq(Segments) /\ p.alloc \in Seq(Segments) /\ p \in Pool /\ p.misled = FALSE
  BY PoolFields DEF Sound
<1>2. FreeOK(f) /\ AllocOK(p.alloc) /\ AllocOK(f)
  BY <1>1, FreeIsAlloc DEF Sound
<1>3. i \in 1 .. Len(f) /\ f[i].size >= R
  BY <1>1, FirstFitFits
<1>4. R \in Size \ {0}
  BY RoundUpType
<1>5. r = [p EXCEPT !.alloc = g, !.free = h]
  BY DEF AllocateMemory
<1>6. /\ r.base = p.base /\ r.size = p.size /\ r.free = h /\ r.alloc = g /\ r.misled = FALSE
      /\ (h \in Seq(Segments) /\ g \in Seq(Segments) => r \in Pool)
  <2> HIDE DEF h, g, r
  <2> QED BY <1>1, <1>5 DEF Pool
<1> HIDE DEF i, R, r
<1>7. R \in Nat /\ R > 0 /\ SizeMax \in Nat
  BY <1>4, GranuleAssumption DEF Size
<1>8. PICK b, x \in Nat : f[i].base = b /\ f[i].size = x /\ f[i].next = b + x /\ x >= R
  BY <1>1, <1>2, <1>3, EntryFields DEF FreeOK, Whole
<1>9. t = [base |-> b, size |-> R, next |-> b + R]
  BY <1>8 DEF Segment
<1>10. t \in Segments /\ Whole(t)
  <2>1. b + R \in Nat
    BY <1>7
  <2> QED BY <1>4, <1>7, <1>9, <2>1 DEF Segments, Whole
<1>11. \A a \in Nat : In(t, a) => In(f[i], a)
  <2>1. \A a \in Nat : b <= a /\ a < b + R => b <= a /\ a < b + x
    BY <1>7, <1>8
  <2> QED BY <1>8, <1>9, <2>1 DEF In
<1>12. \A a \in Nat : In(t, a) => Covered(f, a)
  BY <1>3, <1>11 DEF Covered
<1>13. /\ h \in Seq(Segments) /\ FreeOK(h)
       /\ \A a \in Nat : Covered(h, a) <=> Covered(f, a) /\ ~ In(t, a)
  <2>1. CASE f[i].size = R
    <3>1. h = RemoveAt(f, i)
      BY <2>1
    <3>2. /\ RemoveAt(f, i) \in Seq(Segments) /\ FreeOK(RemoveAt(f, i))
          /\ \A a \in Nat : Covered(RemoveAt(f, i), a) <=> Covered(f, a) /\ ~ In(f[i], a)
      <4> HIDE DEF f
      <4> QED BY <1>1, <1>2, <1>3, ErasedSegment
    <3>3. \A a \in Nat : In(t, a) <=> In(f[i], a)
      BY <1>8, <1>9, <2>1 DEF In
    <3> HIDE DEF h, t, f
    <3> QED BY <3>1, <3>2, <3>3
  <2>2. CASE f[i].size # R
    <3>1. h = Shrunk(f, i, R)
      BY <2>2
    <3>2. R < f[i].size
      BY <1>7, <1>8, <2>2
    <3> HIDE DEF h, f
    <3>3. /\ Shrunk(f, i, R) \in Seq(Segments) /\ FreeOK(Shrunk(f, i, R))
          /\ \A a \in Nat : Covered(Shrunk(f, i, R), a) <=>
                              Covered(f, a) /\ ~ In(Segment(f[i].base, R), a)
      BY <1>1, <1>2, <1>3, <1>7, <3>2, ShrunkSegment
    <3> QED BY <3>1, <3>3
  <2> QED BY <2>1, <2>2
<1>14. \A j \in 1 .. Len(p.alloc) : Apart(p.alloc[j], t)
  <2> SUFFICES ASSUME NEW j \in 1 .. Len(p.alloc) PROVE Apart(p.alloc[j], t)
    OBVIOUS
  <2>1. p.alloc[j] \in Segments /\ Whole(p.alloc[j])
    BY <1>1, <1>2, EntryFields DEF AllocOK
  <2>2. \A a \in Nat : In(p.alloc[j], a) => Covered(p.alloc, a)
    BY DEF Covered
  <2>3. \A a \in Nat : ~ (Covered(f, a) /\ Covered(p.alloc, a))
    BY DEF Sound
  <2>4. \A a \in Nat : ~ (In(p.alloc[j], a) /\ In(t, a))
    BY <1>12, <2>2, <2>3
  <2> HIDE DEF t
  <2> QED BY <1>10, <2>1, <2>4, ApartCommon
<1> HIDE DEF t, h
<1>15. /\ g \in Seq(Segments) /\ AllocOK(g)
       /\ \A a \in Nat : Covered(g, a) <=> Covered(p.alloc, a) \/ In(t, a)
  BY <1>1, <1>2, <1>10, <1>14, AppendedSegment
<1> HIDE DEF g
<1>16. Sound(r)
  <2>1. r \in Pool /\ FreeOK(r.free) /\ AllocOK(r.alloc)
    BY <1>6, <1>13, <1>15
  <2>2. /\ \A a \in Nat : In(t, a) => Covered(p.free, a)
        /\ \A a \in Nat : Covered(r.free, a) <=> Covered(p.free, a) /\ ~ In(t, a)
        /\ \A a \in Nat : Covered(r.alloc, a) <=> Covered(p.alloc, a) \/ In(t, a)
    BY <1>6, <1>12, <1>13, <1>15
  <2> QED BY <1>6, <2>1, <2>2, SoundMoved
<1> QED BY <1>6, <1>16 DEF r

(* The search of deallocate_memory finds and erases the one block at a.    *)
LEMMA SearchErases ==
  ASSUME NEW p, NEW a, p.alloc \in Seq(Segments), AllocOK(p.alloc),
         NEW i \in 1 .. Len(p.alloc), p.alloc[i].base = a
  PROVE  /\ Search(p, a).found = p.alloc[i]
         /\ Search(p, a).misled = FALSE
         /\ SubSeq(Search(p, a).slots, 1, Search(p, a).len) = RemoveAt(p.alloc, i)
<1> DEFINE q == p.alloc
           L == Len(q)
           init == [slots |-> q, len |-> L, found |-> Segment(0, 0), misled |-> FALSE]
           moved == [j \in 1 .. L |-> IF i <= j /\ j < L THEN q[j + 1] ELSE q[j]]
           done == [slots |-> moved, len |-> L - 1, found |-> q[i], misled |-> FALSE]
           rec(f) == [n \in 0 .. L |-> IF n = 0 THEN init ELSE SearchNext(f[n - 1], n, a)]
           w == [n \in 0 .. L |-> IF n < i THEN init ELSE done]
           scan == CHOOSE f : f = rec(f)
<1>1. L \in Nat /\ i \in 1 .. L /\ q \in [1 .. L -> Segments] /\ DOMAIN q = 1 .. L
  BY LenProperties
<1>2. ASSUME NEW j \in 1 .. L, j # i PROVE q[j].base # a
  <2>1. Apart(q[i], q[j]) /\ Whole(q[i]) /\ Whole(q[j])
    BY <1>2 DEF AllocOK
  <2>2. q[i] \in Segments /\ q[j] \in Segments
    BY EntryFields
  <2>3. PICK b, x, c, y \in Nat : /\ q[i].base = b /\ q[i].next = b + x /\ x > 0
                                  /\ q[j].base = c /\ q[j].next = c + y /\ y > 0
    BY <2>1, <2>2, Fields DEF Whole
  <2>4. b + x <= c \/ c + y <= b
    BY <2>1, <2>3 DEF Apart
  <2>5. b # c
    BY <2>3, <2>4
  <2> QED BY <2>3, <2>5
<1>3. \A n \in 1 .. L : n < i => SearchNext(init, n, a) = init
  <2>1. \A n \in 1 .. L : n < i => q[n].base # a
    BY <1>1, <1>2
  <2> QED BY <2>1 DEF SearchNext
<1>4. SearchNext(init, i, a) = done
  <2>1. init.slots = q /\ init.len = L /\ init.misled = FALSE /\ init.slots[i].base = a
    OBVIOUS
  <2>2. SearchNext(init, i, a) =
          [slots   |-> [j \in DOMAIN init.slots |->
                          IF i <= j /\ j < init.len THEN init.slots[j + 1] ELSE init.slots[j]],
           len     |-> init.len - 1,
           found   |-> init.slots[i],
           misled |-> init.misled \/ i > init.len]
    BY <2>1 DEF SearchNext
  <2>3. (init.misled \/ i > init.len) = FALSE
    BY <1>1, <2>1
  <2>4. [j \in DOMAIN init.slots |->
           IF i <= j /\ j < init.len THEN init.slots[j + 1] ELSE init.slots[j]] = moved
    BY <1>1, <2>1
  <2> HIDE DEF init, moved, q, L
  <2> QED BY <2>1, <2>2, <2>3, <2>4
<1>5. \A n \in 1 .. L : n > i => SearchNext(done, n, a) = done
  <2> SUFFICES ASSUME NEW n \in 1 .. L, n > i PROVE SearchNext(done, n, a) = done
    OBVIOUS
  <2>1. moved[n] = IF n < L THEN q[n + 1] ELSE q[n]
    BY <1>1
  <2>2. n \in 1 .. L /\ n # i /\ (n < L => n + 1 \in 1 .. L /\ n + 1 # i)
    BY <1>1
  <2>3. moved[n].base # a
    BY <1>2, <2>1, <2>2
  <2>4. done.slots[n].base # a
    BY <2>3
  <2> HIDE DEF done
  <2> QED BY <2>4 DEF SearchNext
<1> HIDE DEF moved, init
<1> HIDE DEF done
<1>6. w = rec(w)
  <2> SUFFICES ASSUME NEW n \in 0 .. L PROVE w[n] = rec(w)[n]
    OBVIOUS
  <2>1. CASE n = 0
    BY <1>1, <2>1
  <2>2. CASE n # 0
    <3>1. n \in 1 .. L /\ n - 1 \in 0 .. L /\ rec(w)[n] = SearchNext(w[n - 1], n, a)
      BY <1>1, <2>2
    <3>2. CASE n < i
      <4>1. w[n] = init /\ w[n - 1] = init
        BY <1>1, <3>1, <3>2
      <4> HIDE DEF w
      <4> QED BY <1>3, <3>1, <3>2, <4>1
    <3>3. CASE n = i
      <4>1. w[n] = done /\ w[n - 1] = init
        BY <1>1, <3>1, <3>3
      <4> HIDE DEF w
      <4> QED BY <1>4, <3>1, <3>3, <4>1
    <3>4. CASE n > i
      <4>1. w[n] = done /\ w[n - 1] = done
        BY <1>1, <3>1, <3>4
      <4> HIDE DEF w
      <4> QED BY <1>5, <3>1, <3>4, <4>1
    <3> QED BY <1>1, <3>1, <3>2, <3>3, <3>4
  <2> QED BY <2>1, <2>2
<1>7. scan = rec(scan)
  <2> HIDE DEF w, rec
  <2> QED BY <1>6
<1>8. Search(p, a) = scan[L]
  BY DEF Search, init
<1> HIDE DEF scan
<1>9. scan[0] = init /\ \A n \in 1 .. L : scan[n] = SearchNext(scan[n - 1], n, a)
  <2>1. \A n \in 0 .. L : scan[n] = rec(scan)[n]
    BY <1>7
  <2>2. 0 \in 0 .. L /\ \A n \in 1 .. L : n \in 0 .. L /\ n # 0
    BY <1>1
  <2> HIDE DEF L
  <2> QED BY <2>1, <2>2
<1>10. w[0] = init /\ \A n \in 1 .. L : w[n] = SearchNext(w[n - 1], n, a)
  <2>1. \A n \in 0 .. L : w[n] = rec(w)[n]
    BY <1>6
  <2>2. 0 \in 0 .. L /\ \A n \in 1 .. L : n \in 0 .. L /\ n # 0
    BY <1>1
  <2> HIDE DEF L, w
  <2> QED BY <2>1, <2>2
<1>11. w[L] = done
  BY <1>1
<1> HIDE DEF w, rec
<1>12. scan[L] = w[L]
  <2> DEFINE S == [j \in 0 .. L |-> {w[j]}]
  <2>1. \A j \in 0 .. L : S[j] = {w[j]}
    OBVIOUS
  <2>2. 0 \in 0 .. L /\ L \in 0 .. L /\ \A j \in 1 .. L : j \in 0 .. L /\ j - 1 \in 0 .. L
    BY <1>1
  <2> HIDE DEF S, L
  <2>3. scan[0] \in S[0]
    BY <1>9, <1>10, <2>1, <2>2
  <2>4. \A j \in 1 .. L : scan[j - 1] \in S[j - 1] => scan[j] \in S[j]
    BY <1>9, <1>10, <2>1, <2>2
  <2>5. \A j \in 0 .. L : scan[j] \in S[j]
    BY <1>1, <2>3, <2>4, IterationStays
  <2> QED BY <2>1, <2>2, <2>5
<1>13. Search(p, a) = done
  BY <1>8, <1>11, <1>12
<1>14. done.found = q[i] /\ done.misled = FALSE /\ done.slots = moved /\ done.len = L - 1
  BY DEF done
<1>15. SubSeq(moved, 1, L - 1) = RemoveAt(q, i)
  <2> DEFINE g == SubSeq(moved, 1, L - 1)
             h == RemoveAt(q, i)
  <2>1. \A j \in 1 .. L - 1 : moved[j] = IF j < i THEN q[j] ELSE q[j + 1]
    BY <1>1 DEF moved
  <2>2. \A j \in 1 .. L - 1 : moved[j] \in Segments
    <3>1. \A j \in 1 .. L - 1 : q[j] \in Segments /\ q[j + 1] \in Segments
      BY <1>1
    <3> QED BY <2>1, <3>1
  <2>3. 1 \in Int /\ L - 1 \in Int /\ (L - 1) - 1 + 1 = L - 1
    BY <1>1
  <2>4. /\ g \in Seq(Segments) /\ Len(g) = IF 1 <= L - 1 THEN (L - 1) - 1 + 1 ELSE 0
        /\ \A j \in 1 .. (L - 1) - 1 + 1 : g[j] = moved[1 + j - 1]
    BY <2>2, <2>3, SubSeqProperties
  <2>5. /\ h \in Seq(Segments) /\ Len(h) = L - 1
        /\ \A j \in 1 .. L - 1 : h[j] = IF j < i THEN q[j] ELSE q[j + 1]
    <3>1. /\ RemoveAt(q, i) \in Seq(Segments) /\ Len(RemoveAt(q, i)) = Len(q) - 1
          /\ \A j \in 1 .. Len(q) - 1 :
               RemoveAt(q, i)[j] = IF j < i THEN q[j] ELSE q[j + 1]
      BY RemoveAtEntries, Zenon
    <3> QED BY <3>1
  <2> HIDE DEF g, h
  <2>6. Len(g) = L - 1
    BY <1>1, <2>4
  <2>7. \A j \in 1 .. L - 1 : g[j] = moved[j]
    <3>1. \A j \in 1 .. L - 1 : 1 + j - 1 = j
      BY <1>1
    <3> QED BY <2>3, <2>4, <3>1
  <2>8. \A j \in 1 .. L - 1 : g[j] = h[j]
    BY <2>1, <2>5, <2>7
  <2>9. g = h
    BY <2>4, <2>5, <2>6, <2>8, SeqEqual
  <2> QED BY <2>9 DEF g, h
<1> HIDE DEF L
<1> QED BY <1>13, <1>14, <1>15

(* Deallocation takes the block from one list and puts it into the other,  *)
(* and no vector is left.                                                  *)
LEMMA DeallocateSound ==
  ASSUME NEW p, Sound(p), NEW a, Allocated(p, a)
  PROVE  /\ Sound(DeallocateMemory(p, a))
         /\ DeallocateMemory(p, a).base = p.base /\ DeallocateMemory(p, a).size = p.size
<1>1. PICK i \in 1 .. Len(p.alloc) : p.alloc[i].base = a
  BY DEF Allocated
<1> DEFINE s == p.alloc[i]
           f == p.free
           h == Merge(f, s)
           g == RemoveAt(p.alloc, i)
           r == DeallocateMemory(p, a)
<1>2. f \in Seq(Segments) /\ p.alloc \in Seq(Segments) /\ p \in Pool /\ p.misled = FALSE
  BY PoolFields DEF Sound
<1>3. FreeOK(f) /\ AllocOK(p.alloc)
  BY DEF Sound
<1>4. /\ Search(p, a).found = s /\ Search(p, a).misled = FALSE
      /\ SubSeq(Search(p, a).slots, 1, Search(p, a).len) = g
  BY <1>1, <1>2, <1>3, SearchErases
<1>5. Mergeable(f, s, p.base, p.base + p.size)
  <2> DEFINE lo == p.base
             hi == p.base + p.size
  <2>1. Within(f, lo, hi) /\ Within(p.alloc, lo, hi)
    BY SoundWithin
  <2>2. s \in Segments /\ Whole(s)
    BY <1>2, <1>3, EntryFields DEF AllocOK
  <2>3. lo <= s.base /\ s.next <= hi
    BY <2>1 DEF Within
  <2>4. \A j \in 1 .. Len(f) : Apart(f[j], s)
    BY SoundApart
  <2>5. lo \in Nat /\ hi \in Nat /\ hi - lo < SizeMax
    <3> DEFINE x == p.size
    <3>1. lo \in Nat /\ x \in Nat /\ x < SizeMax /\ SizeMax \in Nat /\ hi = lo + x
      BY <1>2, PoolFields
    <3> HIDE DEF lo, hi, x
    <3> QED BY <3>1
  <2> HIDE DEF f, s, lo, hi
  <2>6. Mergeable(f, s, lo, hi)
    BY <1>2, <1>3, <2>1, <2>2, <2>3, <2>4, <2>5 DEF Mergeable
  <2> QED BY <2>6 DEF lo, hi
<1> HIDE DEF s, f
<1>6. FreedInto(f, s, h) /\ ~ LooksPastEnd(f, s)
  BY <1>5, MergeKeeps
<1>7. r = [p EXCEPT !.alloc = g, !.free = h, !.misled = FALSE]
  <2>1. (Search(p, a).misled \/ LooksPastEnd(p.free, Search(p, a).found)) = FALSE
    BY <1>4, <1>6 DEF f
  <2>2. r = [p EXCEPT !.alloc = SubSeq(Search(p, a).slots, 1, Search(p, a).len),
                      !.free = IF FALSE THEN p.free ELSE Merge(p.free, Search(p, a).found),
                      !.misled = p.misled \/ FALSE]
    BY <2>1 DEF DeallocateMemory
  <2>3. (p.misled \/ FALSE) = FALSE
    BY <1>2
  <2> HIDE DEF r, g
  <2> QED BY <1>4, <2>2, <2>3 DEF f
<1>8. /\ r.base = p.base /\ r.size = p.size /\ r.free = h /\ r.alloc = g /\ r.misled = FALSE
      /\ (h \in Seq(Segments) /\ g \in Seq(Segments) => r \in Pool)
  <2> HIDE DEF h, g, r
  <2> QED BY <1>2, <1>7 DEF Pool
<1>9. /\ g \in Seq(Segments) /\ AllocOK(g)
      /\ \A b \in Nat : Covered(g, b) <=> Covered(p.alloc, b) /\ ~ In(s, b)
  BY <1>2, <1>3, ErasedSegment DEF s
<1>10. /\ h \in Seq(Segments) /\ FreeOK(h)
       /\ \A b \in Nat : Covered(h, b) <=> Covered(f, b) \/ In(s, b)
  BY <1>6 DEF FreedInto
<1>11. \A b \in Nat : In(s, b) => Covered(p.alloc, b)
  BY DEF Covered, s
<1> HIDE DEF h, g, r
<1>12. Sound(r)
  <2>1. r \in Pool /\ FreeOK(r.free) /\ AllocOK(r.alloc)
    BY <1>8, <1>9, <1>10
  <2>2. /\ \A b \in Nat : In(s, b) => Covered(p.alloc, b)
        /\ \A b \in Nat : Covered(r.free, b) <=> Covered(p.free, b) \/ In(s, b)
        /\ \A b \in Nat : Covered(r.alloc, b) <=> Covered(p.alloc, b) /\ ~ In(s, b)
    BY <1>8, <1>9, <1>10, <1>11 DEF f
  <2> QED BY <1>8, <2>1, <2>2, SoundMoved
<1> QED BY <1>8, <1>12 DEF r

-----------------------------------------------------------------------------
(* Counting bytes                                                          *)

(* What holds of a fold over no element, and after one more, holds.        *)
LEMMA FoldStays ==
  ASSUME NEW S, IsFiniteSet(S), NEW it, NEW X, NEW pick,
         it[{}] \in X[{}],
         \A T \in SUBSET S : T # {} =>
           /\ pick[T] \in T
           /\ it[T \ {pick[T]}] \in X[T \ {pick[T]}] => it[T] \in X[T]
  PROVE  \A T \in SUBSET S : it[T] \in X[T]
<1> DEFINE Bad == {T \in SUBSET S : it[T] \notin X[T]}
           Sizes == {Cardinality(T) : T \in Bad}
<1> SUFFICES ASSUME Bad # {} PROVE FALSE
  OBVIOUS
<1>1. \A T \in SUBSET S : IsFiniteSet(T) /\ Cardinality(T) \in Nat
  BY FS_Subset, FS_CardinalityType
<1>2. Sizes \in SUBSET Nat /\ Sizes # {}
  BY <1>1
<1>3. PICK n \in Sizes : \A j \in Sizes : n <= j
  <2> HIDE DEF Sizes
  <2> QED BY <1>2, LeastNatural
<1>4. PICK T \in Bad : Cardinality(T) = n
  BY <1>3
<1>5. T \in SUBSET S /\ T # {} /\ it[T] \notin X[T]
  BY <1>4
<1> DEFINE x == pick[T]
           U == T \ {x}
<1>6. x \in T
  BY <1>5
<1>7. U \in SUBSET S /\ Cardinality(U) = Cardinality(T) - 1 /\ Cardinality(U) \in Nat
  BY <1>1, <1>5, <1>6, FS_RemoveElement
<1>8. U \notin Bad
  <2>1. SUFFICES ASSUME U \in Bad PROVE FALSE
    OBVIOUS
  <2>2. Cardinality(U) \in Sizes
    BY <2>1
  <2>3. Cardinality(T) <= Cardinality(U) /\ Cardinality(T) \in Nat
    BY <1>1, <1>3, <1>4, <1>5, <2>2
  <2> HIDE DEF U
  <2> QED BY <1>7, <2>3
<1>9. it[U] \in X[U]
  BY <1>7, <1>8
<1> QED BY <1>5, <1>9

(* The addresses that the segments or blocks in B cover.                   *)
Bytes(B) == {a \in Nat : \E b \in B : In(b, a)}

(* They lie in a memory from lo up to hi, and do not overlap.              *)
Lies(B, lo, hi) ==
  /\ lo \in Nat /\ hi \in Nat /\ lo <= hi
  /\ \A b \in B : /\ b.base \in Nat /\ b.size \in Nat
                  /\ lo <= b.base /\ b.base + b.size <= hi
  /\ \A b, c \in B : b # c => \A a \in Nat : ~ (In(b, a) /\ In(c, a))

LEMMA BytesFinite ==
  ASSUME NEW B, NEW lo, NEW hi, Lies(B, lo, hi)
  PROVE  /\ Bytes(B) \in SUBSET (lo .. hi - 1)
         /\ IsFiniteSet(Bytes(B)) /\ Cardinality(Bytes(B)) \in Nat
         /\ Cardinality(Bytes(B)) <= hi - lo
<1>1. lo \in Nat /\ hi \in Nat /\ lo <= hi
  BY DEF Lies
<1>2. Bytes(B) \in SUBSET (lo .. hi - 1)
  <2> SUFFICES ASSUME NEW a \in Nat, NEW b \in B, In(b, a) PROVE a \in lo .. hi - 1
    BY DEF Bytes
  <2>1. PICK c, x \in Nat : b.base = c /\ b.size = x
    BY DEF Lies
  <2>2. lo <= c /\ c + x <= hi /\ c <= a /\ a < c + x
    BY <2>1 DEF Lies, In
  <2> QED BY <1>1, <2>1, <2>2
<1>3. IsFiniteSet(lo .. hi - 1) /\ Cardinality(lo .. hi - 1) = hi - lo
  <2>1. lo \in Int /\ hi - 1 \in Int /\ (IF lo > hi - 1 THEN 0 ELSE hi - 1 - lo + 1) = hi - lo
    BY <1>1
  <2> QED BY <2>1, FS_Interval
<1> QED BY <1>2, <1>3, FS_Subset, FS_CardinalityType

(* One block more is so many bytes more.                                   *)
LEMMA BytesMore ==
  ASSUME NEW B, NEW lo, NEW hi, Lies(B, lo, hi), NEW b \in B
  PROVE  /\ Lies(B \ {b}, lo, hi)
         /\ Cardinality(Bytes(B)) = Cardinality(Bytes(B \ {b})) + b.size
<1> DEFINE C == B \ {b}
<1>1. Lies(C, lo, hi)
  BY DEF Lies
<1>2. PICK c, x \in Nat : b.base = c /\ b.size = x
  BY DEF Lies
<1> DEFINE I == c .. c + x - 1
<1>3. IsFiniteSet(I) /\ Cardinality(I) = x
  <2>1. c \in Int /\ c + x - 1 \in Int
        /\ (IF c > c + x - 1 THEN 0 ELSE c + x - 1 - c + 1) = x
    BY <1>2
  <2> QED BY <2>1, FS_Interval
<1>4. \A a \in Nat : In(b, a) <=> a \in I
  BY <1>2 DEF In
<1>5. I \in SUBSET Nat
  BY <1>2
<1> HIDE DEF I
<1>6. Bytes(B) = Bytes(C) \union I
  BY <1>4, <1>5 DEF Bytes
<1>7. Bytes(C) \cap I = {}
  BY <1>4, <1>5 DEF Bytes, Lies
<1>8. IsFiniteSet(Bytes(C)) /\ Cardinality(Bytes(C)) \in Nat
  <2> HIDE DEF C
  <2> QED BY <1>1, BytesFinite
<1> HIDE DEF C
<1>9. Cardinality(Bytes(C) \union I) = Cardinality(Bytes(C)) + x
  <2>1. /\ Cardinality(Bytes(C) \union I) =
             Cardinality(Bytes(C)) + Cardinality(I) - Cardinality(Bytes(C) \cap I)
    BY <1>3, <1>8, FS_Union
  <2>2. Cardinality(Bytes(C) \cap I) = 0
    BY <1>7, FS_EmptySet
  <2> QED BY <1>2, <1>3, <1>8, <2>1, <2>2
<1> QED BY <1>1, <1>2, <1>6, <1>8, <1>9 DEF C

(* The sizes of the blocks add up to the bytes they cover.                 *)
LEMMA SizesAddUp ==
  ASSUME NEW B, IsFiniteSet(B), NEW lo, NEW hi, Lies(B, lo, hi)
  PROVE  Promise!MapThenSumSet(LAMBDA b : b.size, B) = Cardinality(Bytes(B))
<1> DEFINE rec(f) == [T \in SUBSET B |->
                        IF T = {} THEN 0
                        ELSE LET x == CHOOSE x \in T : TRUE
                             IN  x.size + f[T \ {x}]]
           w == [T \in SUBSET B |-> Cardinality(Bytes(T))]
           it == CHOOSE f : f = rec(f)
           pick == [T \in SUBSET B |-> CHOOSE x \in T : TRUE]
<1>1. \A T \in SUBSET B : Lies(T, lo, hi)
  BY DEF Lies
<1>2. Cardinality(Bytes({})) = 0
  BY FS_EmptySet DEF Bytes
<1>3. \A T \in SUBSET B : T # {} =>
        LET x == CHOOSE x \in T : TRUE
        IN  /\ x \in T
            /\ T \ {x} \in SUBSET B
            /\ Cardinality(Bytes(T)) = x.size + Cardinality(Bytes(T \ {x}))
  <2> SUFFICES ASSUME NEW T \in SUBSET B, T # {}
               PROVE  LET x == CHOOSE x \in T : TRUE
                      IN  /\ x \in T
                          /\ T \ {x} \in SUBSET B
                          /\ Cardinality(Bytes(T)) = x.size + Cardinality(Bytes(T \ {x}))
    OBVIOUS
  <2> DEFINE x == CHOOSE x \in T : TRUE
             U == T \ {x}
  <2>1. x \in T
    OBVIOUS
  <2> HIDE DEF x
  <2>2. Lies(T, lo, hi) /\ Lies(U, lo, hi)
    BY <1>1
  <2>3. Cardinality(Bytes(T)) = Cardinality(Bytes(U)) + x.size
    BY <2>1, <2>2, BytesMore
  <2>4. Cardinality(Bytes(U)) \in Nat /\ x.size \in Nat
    <3>1. x.size \in Nat
      BY <2>1, <2>2 DEF Lies
    <3> HIDE DEF U
    <3> QED BY <2>2, <3>1, BytesFinite
  <2>5. Cardinality(Bytes(T)) = x.size + Cardinality(Bytes(U))
    BY <2>3, <2>4
  <2> QED BY <2>1, <2>5 DEF x
<1>4. w = rec(w)
  BY <1>2, <1>3
<1>5. it = rec(it)
  <2> HIDE DEF rec, w
  <2> QED BY <1>4
<1>6. Promise!MapThenSumSet(LAMBDA b : b.size, B) = it[B]
  BY DEF Promise!MapThenSumSet, Promise!MapThenFoldSet
<1> HIDE DEF it
<1>7. \A T \in SUBSET B : it[T] = rec(it)[T]
  BY <1>5
<1> DEFINE X == [T \in SUBSET B |-> {Cardinality(Bytes(T))}]
<1>8. {} \in SUBSET B /\ it[{}] \in X[{}]
  BY <1>2, <1>7
<1>9. \A T \in SUBSET B : T # {} =>
        /\ pick[T] \in T
        /\ it[T \ {pick[T]}] \in X[T \ {pick[T]}] => it[T] \in X[T]
  <2> SUFFICES ASSUME NEW T \in SUBSET B, T # {}
               PROVE  /\ pick[T] \in T
                      /\ it[T \ {pick[T]}] \in X[T \ {pick[T]}] => it[T] \in X[T]
    OBVIOUS
  <2> DEFINE x == CHOOSE x \in T : TRUE
             U == T \ {x}
  <2>1. pick[T] = x /\ X[T] = {Cardinality(Bytes(T))}
    OBVIOUS
  <2>2. it[T] = x.size + it[U]
    BY <1>7
  <2>3. x \in T /\ U \in SUBSET B /\ Cardinality(Bytes(T)) = x.size + Cardinality(Bytes(U))
    BY <1>3
  <2>4. X[U] = {Cardinality(Bytes(U))}
    BY <2>3
  <2> HIDE DEF X, x, pick
  <2> QED BY <2>1, <2>2, <2>3, <2>4
<1> HIDE DEF pick, X
<1>10. \A T \in SUBSET B : it[T] \in X[T]
  BY <1>8, <1>9, FoldStays
<1> QED BY <1>6, <1>10 DEF X

(* The segments of q at the places in T.                                   *)
Part(q, T) == {q[i] : i \in T}

LEMMA PartLies ==
  ASSUME NEW q \in Seq(Segments), AllocOK(q), NEW lo \in Nat, NEW hi \in Nat, lo <= hi,
         Within(q, lo, hi)
  PROVE  /\ \A T \in SUBSET (1 .. Len(q)) : Lies(Part(q, T), lo, hi)
         /\ \A T \in SUBSET (1 .. Len(q)) : \A i \in T : Part(q, T) \ {q[i]} = Part(q, T \ {i})
<1>1. ASSUME NEW i \in 1 .. Len(q)
      PROVE  /\ q[i].base \in Nat /\ q[i].size \in Nat
             /\ lo <= q[i].base /\ q[i].base + q[i].size <= hi
  <2>1. PICK b, x \in Nat : q[i].base = b /\ q[i].size = x /\ q[i].next = b + x
    BY EntryFields DEF AllocOK, Whole
  <2>2. lo <= q[i].base /\ q[i].next <= hi
    BY DEF Within
  <2> QED BY <2>1, <2>2
<1>2. ASSUME NEW i \in 1 .. Len(q), NEW j \in 1 .. Len(q), i # j
      PROVE  q[i] # q[j] /\ \A a \in Nat : ~ (In(q[i], a) /\ In(q[j], a))
  <2>1. q[i] \in Segments /\ q[j] \in Segments /\ Whole(q[i]) /\ Whole(q[j])
    BY EntryFields DEF AllocOK
  <2>2. Apart(q[i], q[j])
    BY <1>2 DEF AllocOK
  <2>3. \A a \in Nat : ~ (In(q[i], a) /\ In(q[j], a))
    BY <2>1, <2>2, ApartDisjoint
  <2>4. q[i].base \in Nat /\ In(q[i], q[i].base)
    BY <2>1, Ends
  <2> QED BY <2>3, <2>4
<1>3. ASSUME NEW T \in SUBSET (1 .. Len(q)) PROVE Lies(Part(q, T), lo, hi)
  BY <1>1, <1>2 DEF Lies, Part
<1>4. ASSUME NEW T \in SUBSET (1 .. Len(q)), NEW i \in T
      PROVE  Part(q, T) \ {q[i]} = Part(q, T \ {i})
  BY <1>2 DEF Part
<1> QED BY <1>3, <1>4

(* Some member of a set of numbers up to n is the greatest.                *)
LEMMA MaxIn ==
  ASSUME NEW n \in Nat, NEW T \in SUBSET (1 .. n), T # {}
  PROVE  Max(T) \in T
<1> DEFINE D == {n - x : x \in T}
<1>1. D \in SUBSET Nat /\ D # {}
  <2>1. \A x \in T : n - x \in Nat
    OBVIOUS
  <2> QED BY <2>1
<1>2. PICK d \in D : \A e \in D : d <= e
  <2> HIDE DEF D
  <2> QED BY <1>1, LeastNatural
<1>3. PICK x \in T : d = n - x
  BY <1>2
<1>4. ASSUME NEW y \in T PROVE x >= y
  <2>1. n - y \in D
    OBVIOUS
  <2>2. n - x <= n - y /\ x \in Nat /\ y \in Nat
    BY <1>2, <1>3, <2>1
  <2> QED BY <2>2
<1> QED BY <1>3, <1>4 DEF Max

(* What a sound pool has left is the bytes of its free list.               *)
LEMMA QueryCounts ==
  ASSUME NEW p, Sound(p)
  PROVE  QueryRemaining(p) = Cardinality(Bytes(Part(p.free, 1 .. Len(p.free))))
<1> DEFINE q == p.free
           n == Len(q)
           lo == p.base
           hi == p.base + p.size
           rec(f) == [T \in SUBSET (1 .. n) |->
                        IF T = {} THEN 0
                        ELSE LET x == Max(T)
                             IN  (f[T \ {x}] + q[x].size) % SizeMax]
           w == [T \in SUBSET (1 .. n) |-> Cardinality(Bytes(Part(q, T)))]
           it == CHOOSE f : f = rec(f)
           pick == [T \in SUBSET (1 .. n) |-> Max(T)]
<1>1. q \in Seq(Segments) /\ FreeOK(q) /\ AllocOK(q) /\ n \in Nat /\ DOMAIN q = 1 .. n
  BY PoolFields, FreeIsAlloc, LenProperties DEF Sound
<1>2. lo \in Nat /\ hi \in Nat /\ lo <= hi /\ hi - lo < SizeMax /\ SizeMax \in Nat \ {0}
  <2> DEFINE x == p.size
  <2>1. lo \in Nat /\ x \in Nat /\ x < SizeMax /\ SizeMax \in Nat /\ hi = lo + x
    BY PoolFields DEF Sound
  <2> HIDE DEF lo, hi, x
  <2> QED BY <2>1
<1>3. Within(q, lo, hi)
  BY SoundWithin
<1>4. QueryRemaining(p) = it[1 .. n]
  BY <1>1 DEF QueryRemaining, FoldLeft, MapThenFoldSet
<1> HIDE DEF q, lo, hi, n
<1>5. /\ \A T \in SUBSET (1 .. n) : Lies(Part(q, T), lo, hi)
      /\ \A T \in SUBSET (1 .. n) : \A i \in T : Part(q, T) \ {q[i]} = Part(q, T \ {i})
  BY <1>1, <1>2, <1>3, PartLies DEF n
<1>6. Cardinality(Bytes(Part(q, {}))) = 0
  BY FS_EmptySet DEF Bytes, Part
<1>7. \A T \in SUBSET (1 .. n) : T # {} =>
        LET x == Max(T)
        IN  /\ x \in T
            /\ T \ {x} \in SUBSET (1 .. n)
            /\ Cardinality(Bytes(Part(q, T))) =
                 (Cardinality(Bytes(Part(q, T \ {x}))) + q[x].size) % SizeMax
  <2> SUFFICES ASSUME NEW T \in SUBSET (1 .. n), T # {}
               PROVE  LET x == Max(T)
                      IN  /\ x \in T
                          /\ T \ {x} \in SUBSET (1 .. n)
                          /\ Cardinality(Bytes(Part(q, T))) =
                               (Cardinality(Bytes(Part(q, T \ {x}))) + q[x].size) % SizeMax
    OBVIOUS
  <2> DEFINE x == Max(T)
             B == Part(q, T)
             C == Part(q, T \ {x})
             y == q[x].size
  <2>1. x \in T
    BY <1>1, MaxIn
  <2> HIDE DEF x
  <2>2. Lies(B, lo, hi) /\ C = B \ {q[x]} /\ q[x] \in B
    BY <1>5, <2>1 DEF Part
  <2> HIDE DEF B, C
  <2>3. Cardinality(Bytes(B)) = Cardinality(Bytes(C)) + y
    BY <2>2, BytesMore
  <2>4. Cardinality(Bytes(B)) \in Nat /\ Cardinality(Bytes(B)) <= hi - lo
    BY <2>2, BytesFinite
  <2>5. Cardinality(Bytes(B)) \in 0 .. SizeMax - 1
    BY <1>2, <2>4
  <2>6. Cardinality(Bytes(B)) % SizeMax = Cardinality(Bytes(B))
    BY <1>2, <2>5
  <2>7. Cardinality(Bytes(B)) = (Cardinality(Bytes(C)) + y) % SizeMax
    BY <2>3, <2>6
  <2> QED BY <2>1, <2>7 DEF x, B, C
<1>8. w = rec(w)
  BY <1>6, <1>7
<1>9. it = rec(it)
  <2> HIDE DEF rec, w
  <2> QED BY <1>8
<1> HIDE DEF it
<1>10. \A T \in SUBSET (1 .. n) : it[T] = rec(it)[T]
  BY <1>9
<1> DEFINE X == [T \in SUBSET (1 .. n) |-> {Cardinality(Bytes(Part(q, T)))}]
<1>11. {} \in SUBSET (1 .. n) /\ it[{}] \in X[{}]
  BY <1>6, <1>10
<1>12. \A T \in SUBSET (1 .. n) : T # {} =>
         /\ pick[T] \in T
         /\ it[T \ {pick[T]}] \in X[T \ {pick[T]}] => it[T] \in X[T]
  <2> SUFFICES ASSUME NEW T \in SUBSET (1 .. n), T # {}
               PROVE  /\ pick[T] \in T
                      /\ it[T \ {pick[T]}] \in X[T \ {pick[T]}] => it[T] \in X[T]
    OBVIOUS
  <2> DEFINE x == Max(T)
             U == T \ {x}
  <2>1. pick[T] = x /\ X[T] = {Cardinality(Bytes(Part(q, T)))}
    OBVIOUS
  <2>2. it[T] = (it[U] + q[x].size) % SizeMax
    BY <1>10
  <2>3. x \in T /\ U \in SUBSET (1 .. n)
        /\ Cardinality(Bytes(Part(q, T))) = (Cardinality(Bytes(Part(q, U))) + q[x].size) % SizeMax
    BY <1>7
  <2>4. X[U] = {Cardinality(Bytes(Part(q, U)))}
    BY <2>3
  <2> HIDE DEF X, x, pick
  <2> QED BY <2>1, <2>2, <2>3, <2>4
<1> HIDE DEF pick, X
<1>13. IsFiniteSet(1 .. n)
  BY <1>1, FS_Interval
<1>14. \A T \in SUBSET (1 .. n) : it[T] \in X[T]
  BY <1>11, <1>12, <1>13, FoldStays
<1> QED BY <1>4, <1>14 DEF X, q, n

LEMMA FreeLies ==
  ASSUME NEW p, Sound(p)
  PROVE  /\ Lies(Part(p.free, 1 .. Len(p.free)), p.base, p.base + p.size)
         /\ Lies(Part(p.alloc, 1 .. Len(p.alloc)), p.base, p.base + p.size)
<1> DEFINE lo == p.base
           hi == p.base + p.size
<1>1. /\ p.free \in Seq(Segments) /\ AllocOK(p.free)
      /\ p.alloc \in Seq(Segments) /\ AllocOK(p.alloc)
  BY PoolFields, FreeIsAlloc DEF Sound
<1>2. lo \in Nat /\ hi \in Nat /\ lo <= hi
  <2> DEFINE x == p.size
  <2>1. lo \in Nat /\ x \in Nat /\ hi = lo + x
    BY PoolFields DEF Sound
  <2> HIDE DEF lo, hi, x
  <2> QED BY <2>1
<1>3. Within(p.free, lo, hi) /\ Within(p.alloc, lo, hi)
  BY SoundWithin
<1>4. /\ 1 .. Len(p.free) \in SUBSET (1 .. Len(p.free))
      /\ 1 .. Len(p.alloc) \in SUBSET (1 .. Len(p.alloc))
  OBVIOUS
<1> HIDE DEF lo, hi
<1>5. \A T \in SUBSET (1 .. Len(p.free)) : Lies(Part(p.free, T), lo, hi)
  BY <1>1, <1>2, <1>3, PartLies
<1>6. \A T \in SUBSET (1 .. Len(p.alloc)) : Lies(Part(p.alloc, T), lo, hi)
  BY <1>1, <1>2, <1>3, PartLies
<1>7. /\ Lies(Part(p.free, 1 .. Len(p.free)), lo, hi)
      /\ Lies(Part(p.alloc, 1 .. Len(p.alloc)), lo, hi)
  BY <1>4, <1>5, <1>6
<1> QED BY <1>7 DEF lo, hi

-----------------------------------------------------------------------------
(* The specification                                                       *)

(***************************************************************************)
(* The inductive invariant.  PoolTypeOK and PoolsTiled alone are not       *)
(* inductive: a free list out of order, or with segments whose next is not *)
(* their end, would be merged into something that is no pool any more.     *)
(***************************************************************************)
MemInv ==
  /\ nextMemID \in 1 .. MaxMemID + 1
  /\ DOMAIN pools \subseteq 1 .. nextMemID - 1
  /\ \A m \in DOMAIN pools :
       Sound(pools[m]) /\ pools[m].base \in Bases /\ pools[m].size \in PoolSizes
  /\ answer \in [status : Status, value : Nat]

LEMMA MemInit == Init => MemInv
<1> SUFFICES ASSUME Init PROVE MemInv
  OBVIOUS
<1>1. MaxMemID \in Nat /\ DOMAIN pools = {}
  BY RequestAssumption DEF Init
<1> QED BY <1>1 DEF Init, MemInv, Status

(* What a request changes in one pool leaves the invariant if that pool    *)
(* stays sound and where it was.                                           *)
LEMMA OnePool ==
  ASSUME MemInv, NEW m \in DOMAIN pools, NEW r, Sound(r),
         r.base = pools[m].base, r.size = pools[m].size,
         pools' = [pools EXCEPT ![m] = r], UNCHANGED nextMemID,
         answer' \in [status : Status, value : Nat]
  PROVE  MemInv'
<1>1. DOMAIN pools' = DOMAIN pools
  OBVIOUS
<1>2. \A j \in DOMAIN pools : pools'[j] = IF j = m THEN r ELSE pools[j]
  OBVIOUS
<1>3. \A j \in DOMAIN pools :
        Sound(pools[j]) /\ pools[j].base \in Bases /\ pools[j].size \in PoolSizes
  BY DEF MemInv
<1>4. \A j \in DOMAIN pools :
        Sound(pools'[j]) /\ pools'[j].base \in Bases /\ pools'[j].size \in PoolSizes
  BY <1>2, <1>3
<1> QED BY <1>1, <1>4 DEF MemInv

LEMMA MemNext == Modest /\ MemInv /\ [Next]_vars => MemInv'
<1> SUFFICES ASSUME Modest, MemInv, [Next]_vars PROVE MemInv'
  OBVIOUS
<1>1. /\ nextMemID \in 1 .. MaxMemID + 1 /\ DOMAIN pools \subseteq 1 .. nextMemID - 1
      /\ MaxMemID \in Nat
  BY RequestAssumption DEF MemInv
<1>2. \A m \in DOMAIN pools :
        /\ Sound(pools[m]) /\ pools[m].base \in Bases /\ pools[m].size \in PoolSizes
  BY DEF MemInv
<1>3. \A v \in Nat, s \in Status : Answer(s, v) => answer' \in [status : Status, value : Nat]
  BY DEF Answer
<1>4. {"SUCCESS", "INSUFFICIENT_RESOURCES", "INVALID_PARAMETER", "INVALID_STATE"} = Status
  BY DEF Status
<1>5. CASE UNCHANGED vars
  BY <1>5 DEF vars, MemInv
<1>6. ASSUME NEW base \in Bases, NEW size \in PoolSizes, VMMemoryPoolCreate(base, size)
      PROVE  MemInv'
  <2>1. base \in Nat \ {0} /\ size \in Size \ {0}
    BY RequestAssumption
  <2>2. /\ nextMemID <= MaxMemID /\ nextMemID' = nextMemID + 1
        /\ pools' = AddPool(nextMemID, base, size)
        /\ Answer("SUCCESS", nextMemID)
    BY <1>6 DEF VMMemoryPoolCreate
  <2>3. nextMemID \in Nat /\ nextMemID' \in 1 .. MaxMemID + 1
    BY <1>1, <2>2
  <2>4. /\ DOMAIN pools' = DOMAIN pools \union {nextMemID}
        /\ \A j \in DOMAIN pools' :
             pools'[j] = IF j = nextMemID THEN NewPool(base, size) ELSE pools[j]
    BY <2>2 DEF AddPool
  <2>5. DOMAIN pools' \subseteq 1 .. nextMemID' - 1
    BY <1>1, <2>2, <2>4
  <2>6. Sound(NewPool(base, size))
    BY <2>1, NewPoolSound
  <2>7. NewPool(base, size).base = base /\ NewPool(base, size).size = size
    BY DEF NewPool
  <2>8. \A j \in DOMAIN pools' :
          Sound(pools'[j]) /\ pools'[j].base \in Bases /\ pools'[j].size \in PoolSizes
    BY <1>2, <2>4, <2>6, <2>7
  <2>9. answer' \in [status : Status, value : Nat]
    BY <1>3, <1>4, <2>2, <2>3
  <2> QED BY <2>3, <2>5, <2>8, <2>9 DEF MemInv
<1>7. ASSUME NEW m \in 1 .. MaxMemID, VMMemoryPoolDelete(m) PROVE MemInv'
  <2>1. answer' \in [status : Status, value : Nat] /\ nextMemID' = nextMemID
    BY <1>3, <1>4, <1>7 DEF VMMemoryPoolDelete
  <2>2. CASE UNCHANGED pools
    BY <1>1, <1>2, <2>1, <2>2 DEF MemInv
  <2>3. CASE pools' = DeletePool(m)
    <3>1. /\ DOMAIN pools' \subseteq DOMAIN pools
          /\ \A j \in DOMAIN pools' : pools'[j] = pools[j]
      BY <2>3 DEF DeletePool
    <3>2. \A j \in DOMAIN pools' :
            Sound(pools'[j]) /\ pools'[j].base \in Bases /\ pools'[j].size \in PoolSizes
      BY <1>2, <3>1
    <3> QED BY <1>1, <2>1, <3>1, <3>2 DEF MemInv
  <2> QED BY <1>7, <2>2, <2>3 DEF VMMemoryPoolDelete
<1>8. ASSUME NEW m \in 1 .. MaxMemID, VMMemoryPoolQuery(m) PROVE MemInv'
  <2>1. Answer("SUCCESS", QueryRemaining(pools[m])) /\ UNCHANGED <<pools, nextMemID>>
        /\ m \in DOMAIN pools
    BY <1>8 DEF VMMemoryPoolQuery, Exists
  <2> DEFINE p == pools[m]
             B == Part(p.free, 1 .. Len(p.free))
  <2>2. Sound(p)
    BY <1>2, <2>1
  <2>3. QueryRemaining(p) \in Nat
    <3>1. QueryRemaining(p) = Cardinality(Bytes(B))
      BY <2>2, QueryCounts
    <3>2. Lies(B, p.base, p.base + p.size)
      BY <2>2, FreeLies
    <3> HIDE DEF B
    <3> QED BY <3>1, <3>2, BytesFinite
  <2>4. answer' \in [status : Status, value : Nat]
    BY <1>3, <1>4, <2>1, <2>3
  <2> QED BY <1>1, <1>2, <2>1, <2>4 DEF MemInv
<1>9. ASSUME NEW m \in 1 .. MaxMemID, NEW n \in Requests, VMMemoryPoolAllocate(m, n)
      PROVE  MemInv'
  <2> DEFINE p == pools[m]
  <2>1. m \in DOMAIN pools /\ Sound(p) /\ UNCHANGED nextMemID
    BY <1>2, <1>9 DEF VMMemoryPoolAllocate, Exists
  <2>2. n \in Size \ {0} /\ n + Granule - 1 < SizeMax
    BY RequestAssumption DEF Modest
  <2>3. CASE Fits(p, n) # {}
    <3>1. /\ pools' = [pools EXCEPT ![m] = AllocateMemory(p, n)]
          /\ Answer("SUCCESS", p.free[FirstFit(p, n)].base)
      BY <1>9, <2>3 DEF VMMemoryPoolAllocate
    <3>2. /\ Sound(AllocateMemory(p, n))
          /\ AllocateMemory(p, n).base = p.base /\ AllocateMemory(p, n).size = p.size
      BY <2>1, <2>2, <2>3, AllocateSound
    <3>3. p.free[FirstFit(p, n)].base \in Nat
      <4> HIDE DEF p
      <4>1. p.free \in Seq(Segments)
        BY <2>1, PoolFields DEF Sound
      <4>2. FirstFit(p, n) \in 1 .. Len(p.free)
        BY <2>3, <4>1, FirstFitFits
      <4> QED BY <4>1, <4>2, EntryFields
    <3>4. answer' \in [status : Status, value : Nat]
      BY <1>3, <1>4, <3>1, <3>3
    <3> QED BY <2>1, <3>1, <3>2, <3>4, OnePool
  <2>4. CASE Fits(p, n) = {}
    <3>1. UNCHANGED pools /\ Answer("INSUFFICIENT_RESOURCES", 0)
      BY <1>9, <2>4 DEF VMMemoryPoolAllocate
    <3>2. answer' \in [status : Status, value : Nat]
      BY <1>3, <1>4, <3>1
    <3> QED BY <1>1, <1>2, <2>1, <3>1, <3>2 DEF MemInv
  <2> QED BY <2>3, <2>4
<1>10. ASSUME NEW m \in 1 .. MaxMemID, NEW a \in Addresses, VMMemoryPoolDeallocate(m, a)
       PROVE  MemInv'
  <2> DEFINE p == pools[m]
  <2>1. m \in DOMAIN pools /\ Sound(p) /\ UNCHANGED nextMemID
    BY <1>2, <1>10 DEF VMMemoryPoolDeallocate, Exists
  <2>2. CASE Allocated(p, a)
    <3>1. /\ pools' = [pools EXCEPT ![m] = DeallocateMemory(p, a)]
          /\ Answer("SUCCESS", 0)
      BY <1>10, <2>2 DEF VMMemoryPoolDeallocate
    <3>2. /\ Sound(DeallocateMemory(p, a))
          /\ DeallocateMemory(p, a).base = p.base /\ DeallocateMemory(p, a).size = p.size
      BY <2>1, <2>2, DeallocateSound
    <3>3. answer' \in [status : Status, value : Nat]
      BY <1>3, <1>4, <3>1
    <3> QED BY <2>1, <3>1, <3>2, <3>3, OnePool
  <2>3. CASE ~ Allocated(p, a)
    <3>1. UNCHANGED pools /\ Answer("INVALID_PARAMETER", 0)
      BY <1>10, <2>3 DEF VMMemoryPoolDeallocate
    <3>2. answer' \in [status : Status, value : Nat]
      BY <1>3, <1>4, <3>1
    <3> QED BY <1>1, <1>2, <2>1, <3>1, <3>2 DEF MemInv
  <2> QED BY <2>2, <2>3
<1> QED BY <1>5, <1>6, <1>7, <1>8, <1>9, <1>10 DEF Next

-----------------------------------------------------------------------------
(* Theorems                                                                *)

LEMMA MemInvariant ==
  ASSUME Modest
  PROVE  Spec => []MemInv
<1>1. Init => MemInv
  BY MemInit
<1>2. MemInv /\ [Next]_vars => MemInv'
  BY MemNext
<1> QED BY <1>1, <1>2, PTL DEF Spec

(* A sound pool is tiled by its segments and merged.                       *)
LEMMA SoundTiled ==
  ASSUME NEW p, Sound(p)
  PROVE  Tiled(p) /\ Merged(p)
<1> DEFINE F == 1 .. Len(p.free)
           A == 1 .. Len(p.alloc)
           Count(q, a) == {i \in 1 .. Len(q) : In(q[i], a)}
           lo == p.base
           hi == p.base + p.size
<1>1. /\ p.free \in Seq(Segments) /\ p.alloc \in Seq(Segments)
      /\ AllocOK(p.free) /\ AllocOK(p.alloc) /\ FreeOK(p.free)
  BY PoolFields, FreeIsAlloc DEF Sound
<1>2. lo \in Nat /\ hi \in Nat
  BY PoolFields DEF Sound
<1>3. /\ \A i \in F : Inside(p, p.free[i])
      /\ \A i \in A : Inside(p, p.alloc[i])
  <2>1. /\ \A i \in F : Whole(p.free[i])
        /\ \A i \in A : Whole(p.alloc[i])
    BY <1>1 DEF AllocOK
  <2>2. /\ \A i \in F : p.base <= p.free[i].base /\ p.free[i].next <= p.base + p.size
        /\ \A i \in A : p.base <= p.alloc[i].base /\ p.alloc[i].next <= p.base + p.size
    BY SoundWithin, Zenon DEF Within
  <2> QED BY <2>1, <2>2 DEF Whole, Inside
<1>4. ASSUME NEW q \in Seq(Segments), AllocOK(q), NEW a \in Nat
      PROVE  Cardinality(Count(q, a)) = IF Covered(q, a) THEN 1 ELSE 0
  <2>1. ASSUME NEW i \in 1 .. Len(q), NEW j \in 1 .. Len(q), In(q[i], a), In(q[j], a)
        PROVE  i = j
    <3>1. q[i] \in Segments /\ q[j] \in Segments /\ Whole(q[i]) /\ Whole(q[j])
      BY <1>4, EntryFields DEF AllocOK
    <3>2. i # j => Apart(q[i], q[j])
      BY <1>4 DEF AllocOK
    <3> QED BY <2>1, <3>1, <3>2, ApartDisjoint
  <2>2. CASE Covered(q, a)
    <3>1. PICK i \in 1 .. Len(q) : In(q[i], a)
      BY <2>2 DEF Covered
    <3>2. Count(q, a) = {i}
      BY <2>1, <3>1
    <3> QED BY <2>2, <3>2, FS_Singleton
  <2>3. CASE ~ Covered(q, a)
    <3>1. Count(q, a) = {}
      BY <2>3 DEF Covered
    <3> QED BY <2>3, <3>1, FS_EmptySet
  <2> QED BY <2>2, <2>3
<1>5. ASSUME NEW a \in lo .. hi - 1
      PROVE  Cardinality({i \in F : In(p.free[i], a)}) +
             Cardinality({i \in A : In(p.alloc[i], a)}) = 1
  <2>1. a \in Nat /\ In(p, a)
    <3>1. a \in Nat /\ lo <= a /\ a < hi
      <4> HIDE DEF lo, hi
      <4> QED BY <1>2
    <3> QED BY <3>1 DEF In
  <2>2. /\ Covered(p.free, a) \/ Covered(p.alloc, a)
        /\ ~ (Covered(p.free, a) /\ Covered(p.alloc, a))
    BY <2>1 DEF Sound
  <2>3. /\ Cardinality(Count(p.free, a)) = IF Covered(p.free, a) THEN 1 ELSE 0
        /\ Cardinality(Count(p.alloc, a)) = IF Covered(p.alloc, a) THEN 1 ELSE 0
    <3> HIDE DEF Count
    <3> QED BY <1>1, <1>4, <2>1
  <2>4. Cardinality(Count(p.free, a)) + Cardinality(Count(p.alloc, a)) = 1
    <3> HIDE DEF Count
    <3> QED BY <2>2, <2>3
  <2> QED BY <2>4
<1>6. Tiled(p)
  <2>1. p.base + p.size - 1 = hi - 1
    BY PoolFields DEF Sound
  <2>2. \A a \in p.base .. p.base + p.size - 1 :
          Cardinality({i \in F : In(p.free[i], a)}) +
          Cardinality({i \in A : In(p.alloc[i], a)}) = 1
    BY <1>5, <2>1
  <2> QED BY <1>3, <2>2, Zenon DEF Tiled
<1>7. Merged(p)
  <2>1. ASSUME NEW i \in 1 .. Len(p.free)
        PROVE  p.free[i].next = p.free[i].base + p.free[i].size
    BY <1>1 DEF FreeOK, Whole
  <2>2. ASSUME NEW i \in 1 .. Len(p.free) - 1 PROVE p.free[i].next < p.free[i + 1].base
    <3>1. i \in 1 .. Len(p.free) /\ i + 1 \in 1 .. Len(p.free) /\ i < i + 1
      BY <1>1, LenProperties
    <3> QED BY <1>1, <3>1 DEF FreeOK
  <2> QED BY <2>1, <2>2 DEF Merged
<1> QED BY <1>6, <1>7

(* The pools are what their types say.                                     *)
THEOREM PoolTypes ==
  ASSUME Modest
  PROVE  Spec => []PoolTypeOK
<1>1. MemInv => PoolTypeOK
  BY DEF MemInv, PoolTypeOK, Sound
<1> QED BY <1>1, MemInvariant, PTL

(***************************************************************************)
(* No byte is handed out twice, none is lost and none is handed out that   *)
(* is not in the pool, whatever is allocated and deallocated in any order. *)
(***************************************************************************)
THEOREM BytesTiled ==
  ASSUME Modest
  PROVE  Spec => []PoolsTiled
<1>1. MemInv => PoolsTiled
  BY SoundTiled DEF MemInv, PoolsTiled
<1> QED BY <1>1, MemInvariant, PTL

(***************************************************************************)
(* The free list stays in order and merged: deallocate_memory finds the    *)
(* neighbours of every block, above it, below it, both or none.            *)
(***************************************************************************)
THEOREM FreeListMerged ==
  ASSUME Modest
  PROVE  Spec => []PoolsMerged
<1>1. MemInv => PoolsMerged
  BY SoundTiled DEF MemInv, PoolsMerged
<1> QED BY <1>1, MemInvariant, PTL

(***************************************************************************)
(* The search that goes on after it has erased never takes the entry       *)
(* behind the vector's end, which it reads, for the block, and the merge   *)
(* never looks at a free segment past the last.                            *)
(***************************************************************************)
THEOREM SearchNeverMisled ==
  ASSUME Modest
  PROVE  Spec => []NeverMisled
<1>1. MemInv => NeverMisled
  BY DEF MemInv, NeverMisled, Sound
<1> QED BY <1>1, MemInvariant, PTL

-----------------------------------------------------------------------------
(* The promise of Allocator                                                *)

(* An application may pass any address of a pool.                          *)
Ample == \A base \in Bases, size \in PoolSizes : base .. (base + size) - 1 \subseteq Addresses

(* The blocks of the allocated list q, as Allocator sees them.             *)
Block(m, s) == [pool |-> m, base |-> s.base, size |-> s.size]

Held(m, q) == {Block(m, q[i]) : i \in 1 .. Len(q)}

AreasOf(P) == [m \in DOMAIN P |-> [base |-> P[m].base, size |-> P[m].size]]

BlocksOf(P) == UNION {Held(m, P[m].alloc) : m \in DOMAIN P}

LEMMA Mapped ==
  /\ Areas = AreasOf(pools) /\ Areas' = AreasOf(pools')
  /\ Blocks = BlocksOf(pools) /\ Blocks' = BlocksOf(pools')
<1>1. Areas = AreasOf(pools) /\ Areas' = AreasOf(pools')
  BY DEF Areas, AreasOf
<1>2. Blocks = BlocksOf(pools)
  BY DEF Blocks, BlocksOf, Held, Block
<1>3. Blocks' = BlocksOf(pools')
  BY DEF Blocks, BlocksOf, Held, Block
<1> QED BY <1>1, <1>2, <1>3

(* The blocks of one pool.                                                 *)
LEMMA OfPool ==
  ASSUME NEW m \in DOMAIN pools
  PROVE  Promise!Of(m) = Held(m, pools[m].alloc)
<1>1. \A j, q : \A b \in Held(j, q) : b.pool = j
  BY DEF Held, Block
<1>2. \A b : b \in BlocksOf(pools) <=> \E j \in DOMAIN pools : b \in Held(j, pools[j].alloc)
  BY DEF BlocksOf
<1>3. \A b : b \in Promise!Of(m) <=> b \in BlocksOf(pools) /\ b.pool = m
  BY Mapped DEF Promise!Of
<1>4. \A b : b \in Promise!Of(m) <=> b \in Held(m, pools[m].alloc)
  BY <1>1, <1>2, <1>3
<1> QED BY <1>4

(* A change of one pool changes its own blocks.                            *)
LEMMA OnePoolMapped ==
  ASSUME NEW P, NEW m \in DOMAIN P, NEW r,
         r.base = P[m].base, r.size = P[m].size
  PROVE  /\ AreasOf([P EXCEPT ![m] = r]) = AreasOf(P)
         /\ \A b : b \in BlocksOf([P EXCEPT ![m] = r]) <=>
                     \/ b \in BlocksOf(P) /\ b.pool # m
                     \/ b \in Held(m, r.alloc)
<1> DEFINE Q == [P EXCEPT ![m] = r]
<1>1. DOMAIN Q = DOMAIN P /\ \A j \in DOMAIN P : Q[j] = IF j = m THEN r ELSE P[j]
  OBVIOUS
<1> HIDE DEF Q
<1>2. AreasOf(Q) = AreasOf(P)
  <2>1. \A j \in DOMAIN P : Q[j].base = P[j].base /\ Q[j].size = P[j].size
    BY <1>1
  <2> QED BY <1>1, <2>1 DEF AreasOf
<1>3. \A j, q : \A b \in Held(j, q) : b.pool = j
  BY DEF Held, Block
<1>4. /\ \A b : b \in BlocksOf(P) <=> \E j \in DOMAIN P : b \in Held(j, P[j].alloc)
      /\ \A b : b \in BlocksOf(Q) <=> \E j \in DOMAIN P : b \in Held(j, Q[j].alloc)
  BY <1>1 DEF BlocksOf
<1>5. ASSUME NEW b
      PROVE  b \in BlocksOf(Q) <=> \/ b \in BlocksOf(P) /\ b.pool # m
                                   \/ b \in Held(m, r.alloc)
  <2>1. ASSUME b \in BlocksOf(Q)
        PROVE  (b \in BlocksOf(P) /\ b.pool # m) \/ b \in Held(m, r.alloc)
    BY <1>1, <1>3, <1>4, <2>1
  <2>2. ASSUME b \in BlocksOf(P), b.pool # m PROVE b \in BlocksOf(Q)
    BY <1>1, <1>3, <1>4, <2>2
  <2>3. ASSUME b \in Held(m, r.alloc) PROVE b \in BlocksOf(Q)
    BY <1>1, <1>4, <2>3
  <2> QED BY <2>1, <2>2, <2>3
<1> QED BY <1>2, <1>5 DEF Q

(* The blocks of a list cover what the list covers, once each.             *)
LEMMA HeldLies ==
  ASSUME NEW p, Sound(p), NEW m
  PROVE  /\ IsFiniteSet(Held(m, p.alloc))
         /\ Lies(Held(m, p.alloc), p.base, p.base + p.size)
         /\ Bytes(Held(m, p.alloc)) = Bytes(Part(p.alloc, 1 .. Len(p.alloc)))
<1> DEFINE q == p.alloc
           n == Len(q)
           f == [i \in 1 .. n |-> Block(m, q[i])]
           lo == p.base
           hi == p.base + p.size
<1>1. q \in Seq(Segments) /\ n \in Nat
  BY PoolFields, LenProperties DEF Sound
<1>2. IsFiniteSet(Held(m, q))
  <2>1. IsFiniteSet(1 .. n)
    BY <1>1, FS_Interval
  <2>2. f \in Surjection(1 .. n, Held(m, q))
    BY DEF Surjection, Held
  <2> HIDE DEF f, n
  <2> QED BY <2>1, <2>2, FS_Surjection
<1>3. Lies(Part(q, 1 .. n), lo, hi)
  BY FreeLies
<1>4. \A i \in 1 .. n : \A a \in Nat : In(Block(m, q[i]), a) <=> In(q[i], a)
  BY DEF In, Block
<1>5. \A i \in 1 .. n : Block(m, q[i]).base = q[i].base /\ Block(m, q[i]).size = q[i].size
  BY DEF Block
<1> HIDE DEF n, lo, hi
<1>6. Bytes(Held(m, q)) = Bytes(Part(q, 1 .. n))
  BY <1>4 DEF Bytes, Held, Part, n
<1>7. Lies(Held(m, q), lo, hi)
  <2>1. lo \in Nat /\ hi \in Nat /\ lo <= hi
    BY <1>3 DEF Lies
  <2>2. ASSUME NEW b \in Held(m, q)
        PROVE  /\ b.base \in Nat /\ b.size \in Nat /\ lo <= b.base /\ b.base + b.size <= hi
    <3>1. PICK i \in 1 .. n : b = Block(m, q[i])
      BY DEF Held, n
    <3>2. /\ q[i].base \in Nat /\ q[i].size \in Nat
          /\ lo <= q[i].base /\ q[i].base + q[i].size <= hi
      BY <1>3 DEF Lies, Part
    <3> QED BY <1>5, <3>1, <3>2
  <2>3. ASSUME NEW b \in Held(m, q), NEW c \in Held(m, q), b # c, NEW a \in Nat
        PROVE  ~ (In(b, a) /\ In(c, a))
    <3>1. PICK i \in 1 .. n, j \in 1 .. n : b = Block(m, q[i]) /\ c = Block(m, q[j])
      BY DEF Held, n
    <3>2. q[i] # q[j] /\ q[i] \in Part(q, 1 .. n) /\ q[j] \in Part(q, 1 .. n)
      BY <2>3, <3>1 DEF Part
    <3>3. ~ (In(q[i], a) /\ In(q[j], a))
      BY <1>3, <3>2 DEF Lies
    <3> QED BY <1>4, <3>1, <3>3
  <2> QED BY <2>1, <2>2, <2>3 DEF Lies
<1> QED BY <1>2, <1>6, <1>7 DEF n, lo, hi

(* What is free and what is handed out add up to the pool.                 *)
LEMMA BytesBalance ==
  ASSUME NEW p, Sound(p), NEW m
  PROVE  /\ QueryRemaining(p) = p.size - Cardinality(Bytes(Held(m, p.alloc)))
         /\ QueryRemaining(p) = p.size <=> Held(m, p.alloc) = {}
<1> DEFINE F == Bytes(Part(p.free, 1 .. Len(p.free)))
           A == Bytes(Held(m, p.alloc))
           lo == p.base
           x == p.size
           hi == lo + x
<1>1. lo \in Nat /\ x \in Nat /\ hi \in Nat
  BY PoolFields DEF Sound
<1>2. QueryRemaining(p) = Cardinality(F)
  BY QueryCounts
<1>3. /\ \A a : a \in F <=> a \in Nat /\ Covered(p.free, a)
      /\ \A a : a \in A <=> a \in Nat /\ Covered(p.alloc, a)
  <2>1. A = Bytes(Part(p.alloc, 1 .. Len(p.alloc)))
    BY HeldLies
  <2> HIDE DEF A
  <2> QED BY <2>1 DEF Bytes, Part, Covered
<1>4. /\ IsFiniteSet(F) /\ Cardinality(F) \in Nat
      /\ IsFiniteSet(A) /\ Cardinality(A) \in Nat
  BY FreeLies, HeldLies, BytesFinite
<1>5. F \union A = lo .. hi - 1 /\ F \cap A = {}
  <2>1. \A a \in Nat : In(p, a) <=> a \in lo .. hi - 1
    <3>1. \A a \in Nat : In(p, a) <=> lo <= a /\ a < hi
      BY DEF In
    <3> HIDE DEF lo, hi
    <3> QED BY <1>1, <3>1
  <2>2. lo .. hi - 1 \in SUBSET Nat
    <3> HIDE DEF lo, hi
    <3> QED BY <1>1
  <2>3. /\ \A a \in Nat : In(p, a) <=> Covered(p.free, a) \/ Covered(p.alloc, a)
        /\ \A a \in Nat : ~ (Covered(p.free, a) /\ Covered(p.alloc, a))
    BY DEF Sound
  <2> HIDE DEF F, A, lo, hi
  <2> QED BY <1>3, <2>1, <2>2, <2>3
<1>6. Cardinality(lo .. hi - 1) = x
  <2>1. lo \in Int /\ hi - 1 \in Int /\ (IF lo > hi - 1 THEN 0 ELSE hi - 1 - lo + 1) = x
    <3> HIDE DEF lo, x
    <3> QED BY <1>1
  <2> HIDE DEF lo, hi, x
  <2> QED BY <2>1, FS_Interval
<1>7. A = {} <=> Held(m, p.alloc) = {}
  <2>1. p.alloc \in Seq(Segments) /\ AllocOK(p.alloc)
    BY PoolFields DEF Sound
  <2>2. ASSUME NEW b \in Held(m, p.alloc) PROVE \E a \in Nat : In(b, a)
    <3>1. PICK i \in 1 .. Len(p.alloc) : b = Block(m, p.alloc[i])
      BY DEF Held
    <3>2. Whole(p.alloc[i])
      BY <2>1 DEF AllocOK
    <3>3. p.alloc[i].base \in Nat /\ In(p.alloc[i], p.alloc[i].base)
      BY <2>1, <3>2, Ends
    <3> QED BY <3>1, <3>3 DEF In, Block
  <2> QED BY <2>2 DEF Bytes
<1> HIDE DEF F, A, lo, x, hi
<1>8. Cardinality(F) + Cardinality(A) = x
  <2>1. Cardinality(F \union A) = Cardinality(F) + Cardinality(A) - Cardinality(F \cap A)
    BY <1>4, FS_Union
  <2>2. Cardinality(F \cap A) = 0
    BY <1>5, FS_EmptySet
  <2>3. Cardinality(F \union A) = x
    BY <1>5, <1>6
  <2> QED BY <1>4, <2>1, <2>2, <2>3
<1>9. Cardinality(A) = 0 <=> A = {}
  BY <1>4, FS_EmptySet
<1>10. Cardinality(F) = x - Cardinality(A) /\ (Cardinality(F) = x <=> Cardinality(A) = 0)
  BY <1>1, <1>4, <1>8
<1> QED BY <1>2, <1>7, <1>9, <1>10 DEF x, A

(* Where there is room for r bytes, a free segment holds them: were the    *)
(* free list not merged, the gap could be made of several segments.        *)
LEMMA RoomIsFree ==
  ASSUME NEW p, Sound(p), NEW a \in Nat, NEW r \in Nat, r > 0,
         p.base <= a, a + r <= p.base + p.size,
         \A j \in 1 .. Len(p.alloc) :
           a + r <= p.alloc[j].base \/ p.alloc[j].base + p.alloc[j].size <= a
  PROVE  \E i \in 1 .. Len(p.free) : p.free[i].size >= r
<1> DEFINE f == p.free
           lo == p.base
           hi == p.base + p.size
<1>1. f \in Seq(Segments) /\ FreeOK(f) /\ p.alloc \in Seq(Segments)
  BY PoolFields DEF Sound
<1>2. lo \in Nat /\ hi \in Nat
  BY PoolFields DEF Sound
<1>3. lo <= a /\ a + r <= hi
  OBVIOUS
<1>4. ASSUME NEW c \in Nat, a <= c, c < a + r PROVE Covered(f, c)
  <2>1. In(p, c)
    <3>1. lo <= c /\ c < hi
      <4> HIDE DEF lo, hi
      <4> QED BY <1>2, <1>3, <1>4
    <3> QED BY <3>1 DEF In
  <2>2. ASSUME NEW j \in 1 .. Len(p.alloc) PROVE ~ In(p.alloc[j], c)
    <3>1. PICK b, x \in Nat : p.alloc[j].base = b /\ p.alloc[j].size = x
      BY <1>1, EntryFields
    <3>2. a + r <= b \/ b + x <= a
      BY <3>1
    <3> QED BY <1>4, <3>1, <3>2 DEF In
  <2>3. ~ Covered(p.alloc, c)
    BY <2>2 DEF Covered
  <2> QED BY <2>1, <2>3 DEF Sound
<1> HIDE DEF f, lo, hi
<1>5. PICK i \in 1 .. Len(f) : In(f[i], a)
  BY <1>4 DEF Covered
<1>6. PICK b, x \in Nat : f[i].base = b /\ f[i].size = x /\ f[i].next = b + x
  BY <1>1, EntryFields DEF FreeOK, Whole
<1>7. b <= a /\ a < b + x
  BY <1>5, <1>6 DEF In
<1>8. SUFFICES ASSUME x < r PROVE FALSE
  BY <1>6 DEF f
<1> DEFINE e == b + x
<1>9. e \in Nat /\ a <= e /\ e < a + r
  BY <1>7, <1>8
<1>10. PICK j \in 1 .. Len(f) : In(f[j], e)
  BY <1>4, <1>9 DEF Covered
<1>11. PICK c, y \in Nat : f[j].base = c /\ f[j].size = y /\ f[j].next = c + y
  BY <1>1, EntryFields DEF FreeOK, Whole
<1>12. c <= e /\ e < c + y
  BY <1>10, <1>11 DEF In
<1>13. i \in Nat /\ j \in Nat
  OBVIOUS
<1>14. CASE i = j
  BY <1>6, <1>11, <1>12, <1>14
<1>15. CASE i < j
  <2>1. f[i].next < f[j].base
    BY <1>1, <1>15 DEF FreeOK
  <2> QED BY <1>6, <1>11, <1>12, <2>1
<1>16. CASE j < i
  <2>1. f[j].next < f[i].base
    BY <1>1, <1>16 DEF FreeOK
  <2>2. c + y < b
    BY <1>6, <1>11, <2>1
  <2> QED BY <1>7, <1>9, <1>12, <2>2
<1> QED BY <1>13, <1>14, <1>15, <1>16

(* An allocated list with one more block, or one less.                     *)
LEMMA HeldAppended ==
  ASSUME NEW q \in Seq(Segments), NEW t \in Segments, NEW m
  PROVE  Held(m, Append(q, t)) = Held(m, q) \union {Block(m, t)}
<1> DEFINE g == Append(q, t)
           n == Len(q)
<1>1. /\ n \in Nat /\ Len(g) = n + 1
      /\ \A j \in 1 .. n : g[j] = q[j]
      /\ g[n + 1] = t
  BY AppendProperties, LenProperties
<1>2. \A j : j \in 1 .. n + 1 <=> j \in 1 .. n \/ j = n + 1
  BY <1>1
<1>3. \A b : b \in Held(m, g) <=> \E j \in 1 .. n + 1 : b = Block(m, g[j])
  BY <1>1 DEF Held
<1>4. \A b : b \in Held(m, q) <=> \E j \in 1 .. n : b = Block(m, q[j])
  BY DEF Held
<1> HIDE DEF g, n
<1>5. \A b : b \in Held(m, g) <=> b \in Held(m, q) \/ b = Block(m, t)
  BY <1>1, <1>2, <1>3, <1>4
<1> QED BY <1>5 DEF g

LEMMA HeldErased ==
  ASSUME NEW q \in Seq(Segments), AllocOK(q), NEW m, NEW i \in 1 .. Len(q)
  PROVE  /\ Held(m, RemoveAt(q, i)) = Held(m, q) \ {Block(m, q[i])}
         /\ Block(m, q[i]) \in Held(m, q)
<1> DEFINE g == RemoveAt(q, i)
           n == Len(q)
<1>1. /\ n \in Nat /\ Len(g) = n - 1
      /\ \A j \in 1 .. n - 1 : g[j] = IF j < i THEN q[j] ELSE q[j + 1]
  <2>1. /\ RemoveAt(q, i) \in Seq(Segments) /\ Len(RemoveAt(q, i)) = Len(q) - 1
        /\ \A j \in 1 .. Len(q) - 1 :
             RemoveAt(q, i)[j] = IF j < i THEN q[j] ELSE q[j + 1]
    BY RemoveAtEntries, Zenon
  <2> QED BY <2>1, LenProperties
<1>2. ASSUME NEW j \in 1 .. n, j # i PROVE Block(m, q[j]) # Block(m, q[i])
  <2>1. q[i] \in Segments /\ q[j] \in Segments /\ Whole(q[i]) /\ Whole(q[j])
    BY EntryFields DEF AllocOK
  <2>2. Apart(q[i], q[j])
    BY <1>2 DEF AllocOK
  <2>3. PICK b, x, c, y \in Nat : /\ q[i].base = b /\ q[i].next = b + x /\ x > 0
                                  /\ q[j].base = c /\ q[j].next = c + y /\ y > 0
    BY <2>1, Fields DEF Whole
  <2>4. b + x <= c \/ c + y <= b
    BY <2>2, <2>3 DEF Apart
  <2>5. b # c
    BY <2>3, <2>4
  <2>6. Block(m, q[j]).base = c /\ Block(m, q[i]).base = b
    BY <2>3 DEF Block
  <2> QED BY <2>5, <2>6
<1>3. \A b : b \in Held(m, g) <=> \E j \in 1 .. n - 1 : b = Block(m, g[j])
  BY <1>1 DEF Held
<1>4. \A b : b \in Held(m, q) <=> \E j \in 1 .. n : b = Block(m, q[j])
  BY DEF Held
<1>5. i \in 1 .. n
  OBVIOUS
<1> HIDE DEF g, n
<1>6. ASSUME NEW b \in Held(m, g) PROVE b \in Held(m, q) /\ b # Block(m, q[i])
  <2>1. PICK j \in 1 .. n - 1 : b = Block(m, g[j])
    BY <1>3, <1>6
  <2>2. CASE j < i
    <3>1. g[j] = q[j] /\ j \in 1 .. n /\ j # i
      BY <1>1, <2>2
    <3> QED BY <1>2, <1>4, <2>1, <3>1
  <2>3. CASE ~ (j < i)
    <3>1. g[j] = q[j + 1] /\ j + 1 \in 1 .. n /\ j + 1 # i
      BY <1>1, <1>5, <2>3
    <3> QED BY <1>2, <1>4, <2>1, <3>1
  <2> QED BY <2>2, <2>3
<1>7. ASSUME NEW b \in Held(m, q), b # Block(m, q[i]) PROVE b \in Held(m, g)
  <2>1. PICK j \in 1 .. n : b = Block(m, q[j])
    BY <1>4, <1>7
  <2>2. CASE j < i
    <3>1. g[j] = q[j] /\ j \in 1 .. n - 1
      BY <1>1, <1>5, <2>2
    <3> QED BY <1>3, <2>1, <3>1
  <2>3. CASE j > i
    <3>1. j - 1 \in 1 .. n - 1 /\ ~ (j - 1 < i) /\ j - 1 + 1 = j
      BY <1>1, <1>5, <2>3
    <3>2. g[j - 1] = q[j]
      BY <1>1, <3>1
    <3> QED BY <1>3, <2>1, <3>1, <3>2
  <2>4. j # i
    BY <1>7, <2>1
  <2> QED BY <1>1, <1>5, <2>2, <2>3, <2>4
<1> QED BY <1>4, <1>5, <1>6, <1>7 DEF g

LEMMA RefineInit == Init => Promise!Init
<1> SUFFICES ASSUME Init PROVE Promise!Init
  OBVIOUS
<1>1. pools = << >> /\ answer = [status |-> "SUCCESS", value |-> 0]
  BY DEF Init
<1>2. DOMAIN pools = {}
  BY <1>1
<1>3. Areas = << >>
  BY <1>2 DEF Areas
<1>4. Blocks = {}
  BY <1>2 DEF Blocks
<1> QED BY <1>1, <1>3, <1>4 DEF Promise!Init

LEMMA RefineCreate ==
  ASSUME MemInv, Ample, NEW base \in Bases, NEW size \in PoolSizes,
         VMMemoryPoolCreate(base, size)
  PROVE  base \in Addresses /\ Promise!Create(base, size)
<1> DEFINE m == nextMemID
<1>1. /\ m <= MaxMemID /\ pools' = AddPool(m, base, size)
      /\ Answer("SUCCESS", m)
  BY DEF VMMemoryPoolCreate
<1>2. m \in 1 .. MaxMemID /\ m \notin DOMAIN pools
  <2>1. m \in 1 .. MaxMemID + 1 /\ DOMAIN pools \subseteq 1 .. m - 1 /\ MaxMemID \in Nat
    BY RequestAssumption DEF MemInv
  <2> HIDE DEF m
  <2> QED BY <1>1, <2>1
<1>3. /\ DOMAIN pools' = DOMAIN pools \union {m}
      /\ \A j \in DOMAIN pools' :
           pools'[j] = IF j = m THEN NewPool(base, size) ELSE pools[j]
  BY <1>1 DEF AddPool
<1> HIDE DEF m
<1>4. DOMAIN Areas = DOMAIN pools /\ \A j \in DOMAIN pools : 
        Areas[j] = [base |-> pools[j].base, size |-> pools[j].size]
  BY DEF Areas
<1>5. Areas' = [i \in DOMAIN Areas \union {m} |->
                  IF i = m THEN [base |-> base, size |-> size] ELSE Areas[i]]
  <2>1. NewPool(base, size).base = base /\ NewPool(base, size).size = size
    BY DEF NewPool
  <2>2. Areas' = [i \in DOMAIN pools \union {m} |-> 
                    [base |-> pools'[i].base, size |-> pools'[i].size]]
    BY <1>3 DEF Areas
  <2>3. \A i \in DOMAIN pools \union {m} :
          [base |-> pools'[i].base, size |-> pools'[i].size]
            = IF i = m THEN [base |-> base, size |-> size] ELSE Areas[i]
    BY <1>3, <1>4, <2>1
  <2> QED BY <1>4, <2>2, <2>3
<1>6. UNCHANGED Blocks
  <2>1. Held(m, NewPool(base, size).alloc) = {}
    BY DEF NewPool, Held
  <2>2. \A b : b \in BlocksOf(pools) <=>
                 \E j \in DOMAIN pools : b \in Held(j, pools[j].alloc)
    BY DEF BlocksOf
  <2>3. \A b : b \in BlocksOf(pools') <=>
                 \E j \in DOMAIN pools' : b \in Held(j, pools'[j].alloc)
    BY DEF BlocksOf
  <2>4. \A b : b \in BlocksOf(pools') <=> b \in BlocksOf(pools)
    BY <1>2, <1>3, <2>1, <2>2, <2>3
  <2>5. BlocksOf(pools') = BlocksOf(pools)
    BY <2>4
  <2> QED BY <2>5, Mapped
<1>7. base \in Addresses
  <2>1. base \in Nat /\ size \in Nat /\ size > 0
    BY RequestAssumption, GranuleAssumption DEF Size
  <2>2. base \in base .. (base + size) - 1
    BY <2>1
  <2> QED BY <2>2 DEF Ample
<1> QED BY <1>1, <1>2, <1>4, <1>5, <1>6, <1>7 DEF Promise!Create, Promise!Answer, Answer

LEMMA RefineDelete ==
  ASSUME MemInv, NEW m, VMMemoryPoolDelete(m)
  PROVE  m \in DOMAIN Areas /\ Promise!Delete(m)
<1>1. m \in DOMAIN pools /\ Sound(pools[m])
  BY DEF VMMemoryPoolDelete, Exists, MemInv
<1>2. DOMAIN Areas = DOMAIN pools
  BY DEF Areas
<1>3. QueryRemaining(pools[m]) = pools[m].size <=> Promise!Of(m) = {}
  BY <1>1, OfPool, BytesBalance
<1>4. CASE QueryRemaining(pools[m]) = pools[m].size
  <2>1. pools' = DeletePool(m) /\ Answer("SUCCESS", 0)
    BY <1>4 DEF VMMemoryPoolDelete
  <2>2. DOMAIN pools' = DOMAIN pools \ {m} /\ \A j \in DOMAIN pools' : pools'[j] = pools[j]
    BY <2>1 DEF DeletePool
  <2>3. Areas' = [i \in DOMAIN Areas \ {m} |-> Areas[i]]
    <3>1. Areas' = [i \in DOMAIN pools \ {m} |->
                      [base |-> pools'[i].base, size |-> pools'[i].size]]
      BY <2>2 DEF Areas
    <3>2. \A i \in DOMAIN pools \ {m} :
            [base |-> pools'[i].base, size |-> pools'[i].size] = Areas[i]
      BY <2>2 DEF Areas
    <3> QED BY <1>2, <3>1, <3>2
  <2>4. UNCHANGED Blocks
    <3>1. Held(m, pools[m].alloc) = {}
      BY <1>1, <1>3, <1>4, OfPool
    <3>2. \A b : b \in BlocksOf(pools) <=>
                   \E j \in DOMAIN pools : b \in Held(j, pools[j].alloc)
      BY DEF BlocksOf
    <3>3. \A b : b \in BlocksOf(pools') <=>
                   \E j \in DOMAIN pools' : b \in Held(j, pools'[j].alloc)
      BY DEF BlocksOf
    <3>4. \A b : b \in BlocksOf(pools') <=> b \in BlocksOf(pools)
      BY <2>2, <3>1, <3>2, <3>3
    <3>5. BlocksOf(pools') = BlocksOf(pools)
      BY <3>4
    <3> QED BY <3>5, Mapped
  <2> QED BY <1>1, <1>2, <1>3, <1>4, <2>1, <2>3, <2>4 DEF Promise!Delete, Promise!Answer, Answer
<1>5. CASE QueryRemaining(pools[m]) # pools[m].size
  <2>1. UNCHANGED pools /\ Answer("INVALID_STATE", 0)
    BY <1>5 DEF VMMemoryPoolDelete
  <2>2. UNCHANGED Areas /\ UNCHANGED Blocks
    BY <2>1, Mapped
  <2> QED BY <1>1, <1>2, <1>3, <1>5, <2>1, <2>2 DEF Promise!Delete, Promise!Answer, Answer
<1> QED BY <1>4, <1>5

LEMMA RefineQuery ==
  ASSUME MemInv, NEW m, VMMemoryPoolQuery(m)
  PROVE  m \in DOMAIN Areas /\ Promise!Query(m)
<1>1. m \in DOMAIN pools /\ Sound(pools[m]) /\ UNCHANGED pools
      /\ Answer("SUCCESS", QueryRemaining(pools[m]))
  BY DEF VMMemoryPoolQuery, Exists, MemInv
<1>2. DOMAIN Areas = DOMAIN pools /\ Areas[m].size = pools[m].size
  BY <1>1 DEF Areas
<1> DEFINE p == pools[m]
           B == Held(m, p.alloc)
<1>3. Promise!Of(m) = B
  BY <1>1, OfPool
<1>4. /\ IsFiniteSet(B) /\ Lies(B, p.base, p.base + p.size)
      /\ QueryRemaining(p) = p.size - Cardinality(Bytes(B))
  BY <1>1, HeldLies, BytesBalance
<1> HIDE DEF B
<1>5. Promise!MapThenSumSet(LAMBDA b : b.size, B) = Cardinality(Bytes(B))
  BY <1>4, SizesAddUp
<1>6. UNCHANGED <<Areas, Blocks>>
  BY <1>1, Mapped
<1>7. QueryRemaining(p) = Areas[m].size - Promise!MapThenSumSet(LAMBDA b : b.size, Promise!Of(m))
  BY <1>2, <1>3, <1>4, <1>5
<1> QED BY <1>1, <1>2, <1>6, <1>7 DEF Promise!Query, Promise!Answer, Answer

LEMMA RefineAllocate ==
  ASSUME MemInv, Modest, Ample, NEW m, NEW n \in Requests, VMMemoryPoolAllocate(m, n)
  PROVE  m \in DOMAIN Areas /\ Promise!Allocate(m, n)
<1> DEFINE p == pools[m]
           f == p.free
           R == RoundUp(n)
<1>1. m \in DOMAIN pools /\ Sound(p) /\ p.base \in Bases /\ p.size \in PoolSizes
  BY DEF VMMemoryPoolAllocate, Exists, MemInv
<1>2. m \in DOMAIN Areas /\ Areas[m].base = p.base /\ Areas[m].size = p.size
  BY <1>1 DEF Areas
<1>3. n \in Size \ {0} /\ n + Granule - 1 < SizeMax
  BY RequestAssumption DEF Modest
<1>4. R \in Size \ {0} /\ R >= n
  BY <1>3, RoundUpType
<1>5. R \in Nat /\ R > 0
  BY <1>4, GranuleAssumption DEF Size
<1>6. Promise!Of(m) = Held(m, p.alloc)
  BY <1>1, OfPool
<1>7. f \in Seq(Segments) /\ p.alloc \in Seq(Segments) /\ FreeOK(f) /\ AllocOK(p.alloc)
  BY <1>1, PoolFields DEF Sound
<1>8. CASE Fits(p, n) # {}
  <2> DEFINE i == FirstFit(p, n)
             a == f[i].base
             t == Segment(a, R)
             r == AllocateMemory(p, n)
  <2>1. pools' = [pools EXCEPT ![m] = r] /\ Answer("SUCCESS", a)
    BY <1>8 DEF VMMemoryPoolAllocate
  <2>2. i \in 1 .. Len(f) /\ f[i].size >= R
    BY <1>7, <1>8, FirstFitFits
  <2>3. r.base = p.base /\ r.size = p.size /\ r.alloc = Append(p.alloc, t)
    <3>1. r.base = p.base /\ r.size = p.size
      BY <1>1, <1>3, <1>8, AllocateSound
    <3>2. p \in Pool
      BY <1>1 DEF Sound
    <3>3. r.alloc = Append(p.alloc, t)
      <4> HIDE DEF p
      <4> QED BY <3>2 DEF AllocateMemory, Pool
    <3> QED BY <3>1, <3>3
  <2> HIDE DEF i, r
  <2>4. PICK b, x \in Nat : f[i].base = b /\ f[i].size = x /\ f[i].next = b + x /\ x >= R
    BY <1>7, <2>2, EntryFields DEF FreeOK, Whole
  <2>5. t \in Segments
    <3>1. a \in Nat /\ a + R \in Nat
      BY <1>5, <2>4
    <3> QED BY <1>4, <3>1 DEF Segments, Segment
  <2>6. p.base <= b /\ b + x <= p.base + p.size
    BY <1>1, <2>2, <2>4, SoundWithin DEF Within
  <2>7. PICK lo, z \in Nat : p.base = lo /\ p.size = z
    BY <1>1, PoolFields DEF Sound
  <2>8. a \in Addresses
    <3>1. b \in lo .. (lo + z) - 1
      BY <1>5, <2>4, <2>6, <2>7
    <3> QED BY <1>1, <2>4, <2>7, <3>1 DEF Ample
  <2>9. Promise!Room(m, a, R)
    <3>1. lo <= b /\ b + R <= lo + z
      BY <1>5, <2>4, <2>6, <2>7
    <3>2. ASSUME NEW c \in Held(m, p.alloc) PROVE b + R <= c.base \/ c.base + c.size <= b
      <4>1. PICK j \in 1 .. Len(p.alloc) : c = Block(m, p.alloc[j])
        BY DEF Held
      <4>2. Apart(f[i], p.alloc[j]) /\ Whole(p.alloc[j])
        BY <1>1, <1>7, <2>2, SoundApart DEF AllocOK
      <4>3. PICK d, y \in Nat : /\ p.alloc[j].base = d /\ p.alloc[j].size = y
                                /\ p.alloc[j].next = d + y
        BY <1>7, <4>2, EntryFields DEF Whole
      <4>4. b + x <= d \/ d + y <= b
        BY <2>4, <4>2, <4>3 DEF Apart
      <4>5. c.base = d /\ c.size = y
        BY <4>1, <4>3 DEF Block
      <4> QED BY <1>5, <2>4, <4>3, <4>4, <4>5
    <3>3. /\ Areas[m].base <= a /\ a + R <= Areas[m].base + Areas[m].size
      BY <1>2, <2>4, <2>7, <3>1
    <3>4. \A c \in Promise!Of(m) : a + R <= c.base \/ c.base + c.size <= a
      BY <1>6, <2>4, <3>2
    <3> HIDE DEF a, R
    <3> QED BY <3>3, <3>4 DEF Promise!Room
  <2>10. UNCHANGED Areas /\ Blocks' = Blocks \union {[pool |-> m, base |-> a, size |-> R]}
    <3>1. Held(m, r.alloc) = Held(m, p.alloc) \union {Block(m, t)}
      BY <1>7, <2>3, <2>5, HeldAppended
    <3>2. Block(m, t) = [pool |-> m, base |-> a, size |-> R]
      BY DEF Block, Segment
    <3> HIDE DEF t, a, R
    <3>3. /\ AreasOf(pools') = AreasOf(pools)
          /\ \A c : c \in BlocksOf(pools') <=> \/ c \in BlocksOf(pools) /\ c.pool # m
                                               \/ c \in Held(m, r.alloc)
      BY <1>1, <2>1, <2>3, OnePoolMapped
    <3>4. \A c : c \in Held(m, p.alloc) <=> c \in BlocksOf(pools) /\ c.pool = m
      BY <1>6, Mapped DEF Promise!Of
    <3>5. \A c : c \in BlocksOf(pools') <=> c \in BlocksOf(pools) \/ c = Block(m, t)
      BY <3>1, <3>3, <3>4
    <3>6. BlocksOf(pools') = BlocksOf(pools) \union {Block(m, t)}
      BY <3>5
    <3> QED BY <3>2, <3>3, <3>6, Mapped
  <2> HIDE DEF a, t
  <2>11. \E c \in Addresses :
           /\ R >= n
           /\ Promise!Room(m, c, R)
           /\ Blocks' = Blocks \union {[pool |-> m, base |-> c, size |-> R]}
           /\ Promise!Answer("SUCCESS", c)
    BY <1>4, <2>1, <2>8, <2>9, <2>10 DEF Promise!Answer, Answer
  <2> QED BY <1>2, <2>10, <2>11 DEF Promise!Allocate
<1>9. CASE Fits(p, n) = {}
  <2>1. UNCHANGED pools /\ Answer("INSUFFICIENT_RESOURCES", 0)
    BY <1>9 DEF VMMemoryPoolAllocate
  <2>2. UNCHANGED Areas /\ UNCHANGED Blocks
    BY <2>1, Mapped
  <2>3. ASSUME NEW a \in Addresses, Promise!Room(m, a, R) PROVE FALSE
    <3>1. a \in Nat
      BY RequestAssumption
    <3>2. p.base <= a /\ a + R <= p.base + p.size
      BY <1>2, <2>3 DEF Promise!Room
    <3>3. \A c \in Held(m, p.alloc) : a + R <= c.base \/ c.base + c.size <= a
      BY <1>6, <2>3 DEF Promise!Room
    <3>4. \A j \in 1 .. Len(p.alloc) :
            a + R <= p.alloc[j].base \/ p.alloc[j].base + p.alloc[j].size <= a
      <4> SUFFICES ASSUME NEW j \in 1 .. Len(p.alloc)
                   PROVE  a + R <= p.alloc[j].base \/ p.alloc[j].base + p.alloc[j].size <= a
        OBVIOUS
      <4>1. Block(m, p.alloc[j]) \in Held(m, p.alloc)
        BY DEF Held
      <4>2. /\ Block(m, p.alloc[j]).base = p.alloc[j].base
            /\ Block(m, p.alloc[j]).size = p.alloc[j].size
        BY DEF Block
      <4> QED BY <3>3, <4>1, <4>2
    <3> HIDE DEF p, R
    <3>5. \E i \in 1 .. Len(p.free) : p.free[i].size >= R
      BY <1>1, <1>5, <3>1, <3>2, <3>4, RoomIsFree
    <3> QED BY <1>9, <3>5 DEF Fits, R
  <2> QED BY <1>2, <2>1, <2>2, <2>3 DEF Promise!Allocate, Promise!Answer, Answer
<1> QED BY <1>8, <1>9

LEMMA RefineDeallocate ==
  ASSUME MemInv, NEW m, NEW a \in Addresses, VMMemoryPoolDeallocate(m, a)
  PROVE  m \in DOMAIN Areas /\ Promise!Deallocate(m, a)
<1> DEFINE p == pools[m]
<1>1. m \in DOMAIN pools /\ Sound(p)
  BY DEF VMMemoryPoolDeallocate, Exists, MemInv
<1>2. m \in DOMAIN Areas
  BY <1>1 DEF Areas
<1>3. Promise!Of(m) = Held(m, p.alloc)
  BY <1>1, OfPool
<1>4. p.alloc \in Seq(Segments) /\ AllocOK(p.alloc)
  BY <1>1, PoolFields DEF Sound
<1>5. CASE Allocated(p, a)
  <2> DEFINE r == DeallocateMemory(p, a)
  <2>1. pools' = [pools EXCEPT ![m] = r] /\ Answer("SUCCESS", 0)
    BY <1>5 DEF VMMemoryPoolDeallocate
  <2>2. PICK i \in 1 .. Len(p.alloc) : p.alloc[i].base = a
    BY <1>5 DEF Allocated
  <2>3. r.base = p.base /\ r.size = p.size /\ r.alloc = RemoveAt(p.alloc, i)
    <3>1. r.base = p.base /\ r.size = p.size
      BY <1>1, <1>5, DeallocateSound
    <3>2. p \in Pool
      BY <1>1 DEF Sound
    <3>3. r.alloc = SubSeq(Search(p, a).slots, 1, Search(p, a).len)
      <4> HIDE DEF p
      <4> QED BY <3>2 DEF DeallocateMemory, Pool
    <3>4. SubSeq(Search(p, a).slots, 1, Search(p, a).len) = RemoveAt(p.alloc, i)
      BY <1>4, <2>2, SearchErases
    <3> QED BY <3>1, <3>3, <3>4
  <2> DEFINE b == Block(m, p.alloc[i])
  <2> HIDE DEF r
  <2>4. Held(m, r.alloc) = Held(m, p.alloc) \ {b} /\ b \in Held(m, p.alloc)
    <3>1. /\ Held(m, RemoveAt(p.alloc, i)) = Held(m, p.alloc) \ {Block(m, p.alloc[i])}
          /\ Block(m, p.alloc[i]) \in Held(m, p.alloc)
      BY <1>4, HeldErased
    <3> QED BY <2>3, <3>1
  <2>5. b.base = a
    BY <2>2 DEF Block
  <2> HIDE DEF b
  <2>6. UNCHANGED Areas /\ Blocks' = Blocks \ {b}
    <3>1. /\ AreasOf(pools') = AreasOf(pools)
          /\ \A c : c \in BlocksOf(pools') <=> \/ c \in BlocksOf(pools) /\ c.pool # m
                                               \/ c \in Held(m, r.alloc)
      BY <1>1, <2>1, <2>3, OnePoolMapped
    <3>2. \A c : c \in Held(m, p.alloc) <=> c \in BlocksOf(pools) /\ c.pool = m
      BY <1>3, Mapped DEF Promise!Of
    <3>3. \A c : c \in BlocksOf(pools') <=> c \in BlocksOf(pools) /\ c # b
      BY <2>4, <3>1, <3>2
    <3>4. BlocksOf(pools') = BlocksOf(pools) \ {b}
      BY <3>3
    <3> QED BY <3>1, <3>4, Mapped
  <2> QED BY <1>2, <1>3, <2>1, <2>4, <2>5, <2>6 DEF Promise!Deallocate, Promise!Answer, Answer
<1>6. CASE ~ Allocated(p, a)
  <2>1. UNCHANGED pools /\ Answer("INVALID_PARAMETER", 0)
    BY <1>6 DEF VMMemoryPoolDeallocate
  <2>2. UNCHANGED Areas /\ UNCHANGED Blocks
    BY <2>1, Mapped
  <2>3. ASSUME NEW b \in Held(m, p.alloc), b.base = a PROVE FALSE
    <3>1. PICK i \in 1 .. Len(p.alloc) : b = Block(m, p.alloc[i])
      BY DEF Held
    <3>2. p.alloc[i].base = a
      BY <2>3, <3>1 DEF Block
    <3>3. Covered(p.alloc, a) /\ a \in Nat
      BY <1>4, <3>2, Ends DEF AllocOK
    <3>4. In(p, a)
      BY <1>1, <3>3 DEF Sound
    <3> QED BY <1>6, <3>2, <3>4 DEF Allocated, In
  <2> QED BY <1>2, <1>3, <2>1, <2>2, <2>3 DEF Promise!Deallocate, Promise!Answer, Answer
<1> QED BY <1>5, <1>6

(***************************************************************************)
(* The pools keep the promise Allocator makes without free lists: blocks   *)
(* do not overlap, a request is refused only where no gap of its rounded   *)
(* size is left, and deletion and query count every byte.  First fit,      *)
(* splitting, merging and the order of the lists are all hidden by it.     *)
(***************************************************************************)
THEOREM PoolsAllocate ==
  ASSUME Modest, Ample
  PROVE  Spec => IsAllocator
<1>1. Init => Promise!Init
  BY RefineInit
<1>2. MemInv /\ [Next]_vars => [Promise!Next]_(Promise!vars)
  <2> SUFFICES ASSUME MemInv, [Next]_vars PROVE [Promise!Next]_(Promise!vars)
    OBVIOUS
  <2>1. CASE UNCHANGED vars
    <3>1. UNCHANGED <<Areas, Blocks, answer>>
      BY <2>1, Mapped DEF vars
    <3> QED BY <3>1 DEF Promise!vars
  <2>2. ASSUME NEW base \in Bases, NEW size \in PoolSizes, VMMemoryPoolCreate(base, size)
        PROVE  Promise!Next
    BY <2>2, RefineCreate DEF Promise!Next
  <2>3. ASSUME NEW m \in 1 .. MaxMemID, VMMemoryPoolDelete(m) PROVE Promise!Next
    BY <2>3, RefineDelete DEF Promise!Next
  <2>4. ASSUME NEW m \in 1 .. MaxMemID, VMMemoryPoolQuery(m) PROVE Promise!Next
    BY <2>4, RefineQuery DEF Promise!Next
  <2>5. ASSUME NEW m \in 1 .. MaxMemID, NEW n \in Requests, VMMemoryPoolAllocate(m, n)
        PROVE  Promise!Next
    BY <2>5, RefineAllocate DEF Promise!Next
  <2>6. ASSUME NEW m \in 1 .. MaxMemID, NEW a \in Addresses, VMMemoryPoolDeallocate(m, a)
        PROVE  Promise!Next
    BY <2>6, RefineDeallocate DEF Promise!Next
  <2> QED BY <2>1, <2>2, <2>3, <2>4, <2>5, <2>6 DEF Next
<1> QED BY <1>1, <1>2, MemInvariant, PTL DEF Spec, IsAllocator, Promise!Spec
=============================================================================
