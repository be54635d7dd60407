-------------------------- MODULE IterationProofs --------------------------
(***************************************************************************)
(* Loops.  A loop of the code is a function f of the number of its rounds: *)
(* f[0] is the state before the loop and f[j] is computed from f[j - 1].   *)
(* These lemmas say that such a function exists and that what every round  *)
(* preserves holds after the last one; S[j] is the loop's invariant after  *)
(* j rounds.  The last lemmas say what erasing from a vector does.         *)
(***************************************************************************)
EXTENDS SequencesExt, TLAPS, SequenceTheorems, WellFoundedInduction

(* A set of natural numbers that is not empty has a least element.         *)
LEMMA LeastNatural ==
  ASSUME NEW S \in SUBSET Nat, S # {}
  PROVE  \E n \in S : \A j \in S : n <= j
<1>1. \A n, j \in Nat : ~ (j < n) => n <= j
  OBVIOUS
<1>2. PICK n \in S : \A j \in S : ~ (<<j, n>> \in OpToRel(<, Nat))
  BY NatLessThanWellFounded, WFMin
<1>3. \A j \in S : ~ (j < n)
  BY <1>2 DEF OpToRel
<1> QED BY <1>1, <1>3

(* What each round of a loop preserves holds throughout the loop.          *)
LEMMA IterationStays ==
  ASSUME NEW S, NEW n \in Nat, NEW f,
         f[0] \in S[0],
         \A j \in 1 .. n : f[j - 1] \in S[j - 1] => f[j] \in S[j]
  PROVE  \A j \in 0 .. n : f[j] \in S[j]
<1> DEFINE Bad == {j \in 0 .. n : f[j] \notin S[j]}
<1> SUFFICES ASSUME Bad # {} PROVE FALSE
  OBVIOUS
<1>1. PICK j \in Bad : \A l \in Bad : j <= l
  <2>1. Bad \in SUBSET Nat
    OBVIOUS
  <2> HIDE DEF Bad
  <2> QED BY <2>1, LeastNatural
<1>2. j # 0
  OBVIOUS
<1>3. j - 1 \in 0 .. n /\ j - 1 \notin Bad /\ j \in 1 .. n
  BY <1>1, <1>2
<1> QED BY <1>3

(* f is the loop of n rounds that starts with s and has these steps.       *)
IsLoop(f, s, step, n) ==
  f[0] = s /\ \A j \in 1 .. n : f[j] = step[j][f[j - 1]]

(* A loop whose body takes X to X has a function of its rounds.            *)
LEMMA IterationExists ==
  ASSUME NEW X, NEW n \in Nat, NEW step \in [1 .. n -> [X -> X]], NEW s \in X
  PROVE  \E f \in [0 .. n -> X] : IsLoop(f, s, step, n)
<1> USE DEF IsLoop
<1> DEFINE Is(f, m) == IsLoop(f, s, step, m)
           Bad == {m \in 0 .. n : ~ \E f \in [0 .. m -> X] : Is(f, m)}
<1> SUFFICES ASSUME Bad # {} PROVE FALSE
  <2>1. n \in 0 .. n
    OBVIOUS
  <2> QED BY <2>1
<1>1. PICK m \in Bad : \A l \in Bad : m <= l
  <2>1. Bad \in SUBSET Nat
    OBVIOUS
  <2> HIDE DEF Bad
  <2> QED BY <2>1, LeastNatural
<1>2. CASE m = 0
  <2>1. Is([j \in 0 .. 0 |-> s], 0)
    OBVIOUS
  <2> QED BY <1>2, <2>1
<1>3. CASE m # 0
  <2>1. m - 1 \in 0 .. n /\ m - 1 \notin Bad /\ m \in 1 .. n
    <3>1. m \in 0 .. n
      OBVIOUS
    <3> HIDE DEF Bad
    <3> QED BY <1>1, <1>3, <3>1
  <2>2. PICK f \in [0 .. m - 1 -> X] : Is(f, m - 1)
    BY <2>1
  <2> DEFINE g == [j \in 0 .. m |-> IF j = m THEN step[m][f[m - 1]] ELSE f[j]]
  <2>3. m \in Nat /\ 0 \in 0 .. m /\ 0 # m /\ m - 1 \in 0 .. m - 1
    BY <2>1
  <2>4. ASSUME NEW j \in 1 .. m PROVE g[j] = step[j][g[j - 1]]
    <3>1. j \in 0 .. m /\ j - 1 \in 0 .. m /\ j - 1 # m /\ (j # m => j \in 1 .. m - 1)
      BY <2>3
    <3>2. g[j - 1] = f[j - 1]
      BY <3>1
    <3>3. CASE j = m
      BY <3>1, <3>2, <3>3
    <3>4. CASE j # m
      <4>1. f[j] = step[j][f[j - 1]]
        BY <2>2, <3>1, <3>4
      <4> QED BY <3>1, <3>2, <3>4, <4>1
    <3> QED BY <3>3, <3>4
  <2>5. Is(g, m)
    <3>1. g[0] = s
      BY <2>2, <2>3
    <3> HIDE DEF g
    <3> QED BY <2>4, <3>1
  <2>6. g \in [0 .. m -> X]
    <3>1. f[m - 1] \in X
      BY <2>3
    <3>2. step[m][f[m - 1]] \in X
      BY <2>1, <3>1
    <3>3. \A j \in 0 .. m : j # m => j \in 0 .. m - 1
      BY <2>3
    <3> QED BY <3>2, <3>3
  <2> QED BY <2>5, <2>6
<1> QED BY <1>2, <1>3

-----------------------------------------------------------------------------
(* Vectors                                                                 *)

(* Erasing an entry of a vector shortens it by one and adds nothing.       *)
LEMMA RemoveAtType ==
  ASSUME NEW S, NEW s \in Seq(S), NEW i \in 1 .. Len(s)
  PROVE  /\ RemoveAt(s, i) \in Seq(S)
         /\ Len(RemoveAt(s, i)) = Len(s) - 1
<1> DEFINE a == SubSeq(s, 1, i - 1)
           b == SubSeq(s, i + 1, Len(s))
<1>1. a \in Seq(S) /\ Len(a) = i - 1
  BY SubSeqProperties
<1>2. b \in Seq(S) /\ Len(b) = Len(s) - i
  BY SubSeqProperties
<1>3. a \o b \in Seq(S) /\ Len(a \o b) = Len(a) + Len(b)
  <2> HIDE DEF a, b
  <2> QED BY <1>1, <1>2, ConcatProperties
<1>4. RemoveAt(s, i) = a \o b
  BY DEF RemoveAt
<1>5. Len(s) \in Nat /\ (i - 1) + (Len(s) - i) = Len(s) - 1
  OBVIOUS
<1> HIDE DEF a, b
<1>6. Len(a \o b) = Len(s) - 1
  BY <1>1, <1>2, <1>3, <1>5
<1> QED BY <1>3, <1>4, <1>6

(* What is where after an entry has been erased.                           *)
LEMMA RemoveAtEntries ==
  ASSUME NEW T, NEW q \in Seq(T), NEW i \in 1 .. Len(q)
  PROVE  /\ RemoveAt(q, i) \in Seq(T)
         /\ Len(RemoveAt(q, i)) = Len(q) - 1
         /\ \A j \in 1 .. Len(q) - 1 :
              RemoveAt(q, i)[j] = IF j < i THEN q[j] ELSE q[j + 1]
<1> DEFINE a == SubSeq(q, 1, i - 1)
           b == SubSeq(q, i + 1, Len(q))
<1>1. a \in Seq(T) /\ Len(a) = i - 1 /\ \A j \in 1 .. i - 1 : a[j] = q[j]
  BY SubSeqProperties
<1>2. b \in Seq(T) /\ Len(b) = Len(q) - i /\ \A j \in 1 .. Len(q) - i : b[j] = q[i + j]
  BY SubSeqProperties
<1>3. RemoveAt(q, i) = a \o b
  BY DEF RemoveAt
<1> HIDE DEF a, b
<1>4. \A j \in 1 .. Len(a) + Len(b) :
        (a \o b)[j] = IF j <= Len(a) THEN a[j] ELSE b[j - Len(a)]
  BY <1>1, <1>2, ConcatProperties
<1>5. Len(q) \in Nat
  BY LenProperties
<1>6. ASSUME NEW j \in 1 .. Len(q) - 1
      PROVE  (a \o b)[j] = IF j < i THEN q[j] ELSE q[j + 1]
  <2>1. j \in 1 .. Len(a) + Len(b) /\ (j < i <=> j <= Len(a))
    BY <1>1, <1>2, <1>5
  <2>2. ~ (j < i) => j - Len(a) \in 1 .. Len(q) - i /\ i + (j - Len(a)) = j + 1
    BY <1>1, <1>2, <1>5
  <2>3. CASE j < i
    BY <1>1, <1>4, <2>1, <2>3
  <2>4. CASE ~ (j < i)
    BY <1>2, <1>4, <2>1, <2>2, <2>4
  <2> QED BY <2>3, <2>4
<1> QED BY <1>3, <1>6, RemoveAtType

=============================================================================
