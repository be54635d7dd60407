----------------------------- MODULE MemoryPool -----------------------------
(***************************************************************************)
(* MemoryPool.cpp: a pool of memory handed out first fit in multiples of   *)
(* the granule, and merged again with its free neighbours.  A pool p is a  *)
(* record; every method is an operator on pools.  Addresses are numbers.   *)
(*                                                                         *)
(* p.misled records that deallocate_memory has taken what lies behind the  *)
(* end of a vector for an entry of it.                                     *)
(***************************************************************************)
EXTENDS Integers, Sequences, SequencesExt

CONSTANTS
  Granule,    \* MIN_SEGMENT_SIZE, 64 in the code: a power of two
  SizeMax     \* 2^32 in the code: TVMMemorySize is a number below it

ASSUME GranuleAssumption ==
  /\ Granule \in Nat \ {0}
  /\ SizeMax \in Nat /\ SizeMax > Granule
  /\ SizeMax % Granule = 0

Size == 0 .. SizeMax - 1

Segments == [base : Nat, size : Size, next : Nat]

Pool == [base : Nat \ {0}, size : Size \ {0},
         free : Seq(Segments), alloc : Seq(Segments), misled : BOOLEAN]

Segment(base, size) == [base |-> base, size |-> size, next |-> base + size]

NewPool(base, size) ==
  [base |-> base, size |-> size,
   free |-> <<Segment(base, size)>>, alloc |-> <<>>, misled |-> FALSE]

QueryRemaining(p) ==
  FoldLeft(LAMBDA sum, s : (sum + s.size) % SizeMax, 0, p.free)

-----------------------------------------------------------------------------
(* allocate_memory                                                         *)

(* Mutant: the remainder is cut off instead of rounded up.                 *)
RoundDown(n) == n - (n % Granule)

(* (n + 0x3F) & ~0x3F, in 32 bits.                                         *)
RoundUp(n) ==
  LET sum == (n + Granule - 1) % SizeMax
  IN  sum - (sum % Granule)

(* Mutant: a free segment need only hold the size before it is rounded.    *)
FitsUnrounded(p, n) == {i \in 1 .. Len(p.free) : p.free[i].size >= n}

Fits(p, n) == {i \in 1 .. Len(p.free) : p.free[i].size >= RoundUp(n)}

FirstFit(p, n) == CHOOSE i \in Fits(p, n) : \A j \in Fits(p, n) : i <= j

(* Mutant: the rest of a free segment that is cut keeps its size.          *)
AllocateUnshrunk(p, n) ==
  LET i == FirstFit(p, n)
  IN  [p EXCEPT !.alloc = Append(@, Segment(p.free[i].base, RoundUp(n))),
                !.free = IF p.free[i].size = RoundUp(n)
                         THEN RemoveAt(@, i)
                         ELSE [@ EXCEPT ![i].base = @ + RoundUp(n)]]

(* The free list with the front of segment i cut off.                      *)
Shrunk(free, i, size) == [free EXCEPT ![i].base = @ + size, ![i].size = @ - size]

(* Defined when some free segment fits.                                    *)
AllocateMemory(p, n) ==
  LET i == FirstFit(p, n)
  IN  [p EXCEPT !.alloc = Append(@, Segment(p.free[i].base, RoundUp(n))),
                !.free = IF p.free[i].size = RoundUp(n)
                         THEN RemoveAt(@, i)
                         ELSE Shrunk(@, i, RoundUp(n))]

-----------------------------------------------------------------------------
(* deallocate_memory                                                       *)

(***************************************************************************)
(* The search does not stop at the block it finds.  It goes on up to the   *)
(* length the vector had before the erase, and so reads the slot behind    *)
(* the new end whenever the block was not the last.  libstdc++'s erase     *)
(* moves the later entries down and leaves that slot as it was: it still   *)
(* points to the last segment, which lives.  A slot with the same base is  *)
(* erased too; if it lies behind the end, the search has been misled.      *)
(***************************************************************************)
SearchNext(x, i, a) ==
  IF x.slots[i].base # a
  THEN x
  ELSE [slots   |-> [j \in DOMAIN x.slots |->
                       IF i <= j /\ j < x.len THEN x.slots[j + 1] ELSE x.slots[j]],
        len     |-> x.len - 1,
        found   |-> x.slots[i],
        misled  |-> x.misled \/ i > x.len]

Search(p, a) ==
  LET scan[n \in 0 .. Len(p.alloc)] ==
        IF n = 0
        THEN [slots |-> p.alloc, len |-> Len(p.alloc),
              found |-> Segment(0, 0), misled |-> FALSE]
        ELSE SearchNext(scan[n - 1], n, a)
  IN  scan[Len(p.alloc)]

(* The place of the first free segment above s: one past the end if none.  *)
Place(free, s) ==
  CHOOSE i \in 1 .. Len(free) + 1 :
    /\ i <= Len(free) => free[i].base > s.base
    /\ \A j \in 1 .. i - 1 : free[j].base <= s.base

(* Mutant: a block between two free ones it touches is merged with one.    *)
MergeOneSide(free, s) ==
  LET i == Place(free, s)
  IN  CASE free[i - 1].next = s.base ->
             [free EXCEPT ![i - 1].next = s.next, ![i - 1].size = @ + s.size]
        [] free[i - 1].next # s.base /\ free[i].base = s.next ->
             [free EXCEPT ![i].base = s.base, ![i].size = @ + s.size]
        [] OTHER -> InsertAt(free, i, s)

(* s lies between two free segments.                                       *)
MergeBetween(free, s) ==
  LET i      == Place(free, s)
      before == free[i - 1].next = s.base
      after  == free[i].base = s.next
  IN  CASE before /\ after ->
             RemoveAt([free EXCEPT ![i - 1].next = free[i].next,
                                   ![i - 1].size = @ + free[i].size + s.size], i)
        [] before /\ ~ after ->
             [free EXCEPT ![i - 1].next = s.next, ![i - 1].size = @ + s.size]
        [] ~ before /\ after ->
             [free EXCEPT ![i].base = s.base, ![i].size = @ + s.size]
        [] OTHER -> InsertAt(free, i, s)

(* Mutant: a block in front of all others is never merged.                 *)
MergeNotFirst(free, s) ==
  LET n == Len(free)
  IN  CASE n = 0 -> <<s>>
        [] n > 0 /\ s.base < free[1].base -> <<s>> \o free
        [] n > 0 /\ s.base >= free[1].base /\ free[n].next < s.base -> Append(free, s)
        [] n > 0 /\ s.base >= free[1].base /\ free[n].next = s.base ->
             [free EXCEPT ![n].next = s.next, ![n].size = @ + s.size]
        [] OTHER -> MergeBetween(free, s)

Merge(free, s) ==
  LET n == Len(free)
  IN  IF n = 0
      THEN <<s>>
      ELSE CASE s.base < free[1].base /\ s.next = free[1].base ->
                  [free EXCEPT ![1].base = s.base, ![1].size = @ + s.size]
             [] s.base < free[1].base /\ s.next # free[1].base ->
                  <<s>> \o free
             [] s.base >= free[1].base /\ free[n].next = s.base ->
                  [free EXCEPT ![n].next = s.next, ![n].size = @ + s.size]
             [] s.base >= free[1].base /\ free[n].next < s.base ->
                  Append(free, s)
             [] OTHER -> MergeBetween(free, s)

(* Is a the base of an allocated block, so that the call succeeds?         *)
Allocated(p, a) ==
  /\ p.base <= a /\ a < p.base + p.size
  /\ \E i \in 1 .. Len(p.alloc) : p.alloc[i].base = a

(* Does the merge look at a free segment past the last?                    *)
LooksPastEnd(free, s) ==
  /\ Len(free) > 0 /\ s.base >= free[1].base
  /\ free[Len(free)].next > s.base
  /\ Place(free, s) > Len(free)

(* Defined when Allocated(p, a).                                           *)
DeallocateMemory(p, a) ==
  LET x    == Search(p, a)
      lost == x.misled \/ LooksPastEnd(p.free, x.found)
  IN  [p EXCEPT !.alloc = SubSeq(x.slots, 1, x.len),
                !.free = IF lost THEN @ ELSE Merge(@, x.found),
                !.misled = @ \/ lost]

=============================================================================
