-------------------------- MODULE DirectoriesProofs --------------------------
(***************************************************************************)
(* What holds of every root directory, for names of any length and tables  *)
(* of any size: its slots stay sound, short names stay distinct, and a     *)
(* name keeps its file.  A table only grows, at its end, so everything     *)
(* follows from what createRootEntry appends.                              *)
(***************************************************************************)
EXTENDS Directories, IterationProofs, SequenceTheorems, FiniteSetTheorems

(* createLFN makes as many pieces of a name as it needs.                   *)
LEMMA PiecesHold ==
  ASSUME NEW n \in Names, NEW k \in Nat
  PROVE  Hold(k, n) <=> k = Pieces(n)
<1> DEFINE a == Length[n] + PieceSize - 1
           q == a \div PieceSize
           m == a % PieceSize
<1>1. PICK p, l \in Nat : p = PieceSize /\ p > 0 /\ l = Length[n] /\ l > 0
  BY DirectoryAssumption
<1>2. a \in Nat /\ a = l + p - 1
  BY <1>1
<1> HIDE DEF a
<1>3. q \in Int /\ m \in 0 .. p - 1 /\ a = p * q + m
  BY <1>1, <1>2
<1> HIDE DEF q, m
<1>4. PICK d \in Int : d = k - q
  BY <1>3
<1>5. k * p = p * q + d * p /\ (k - 1) * p = p * q + d * p - p
  BY <1>1, <1>3, <1>4
<1>6. PICK x, y \in Int : x = p * q /\ y = d * p
  BY <1>1, <1>3
<1>7. Hold(k, n) <=> x + y - p < l /\ l <= x + y
  BY <1>1, <1>5, <1>6 DEF Hold
<1>8. l = x + m - p + 1
  BY <1>1, <1>2, <1>3, <1>6
<1>9. Hold(k, n) <=> y < m + 1 /\ m - p + 1 <= y
  BY <1>1, <1>3, <1>6, <1>7, <1>8
<1>10. /\ d >= 1 => y >= p
       /\ d = 0 => y = 0
       /\ d <= -1 => y <= - p
  BY <1>1, <1>6
<1>11. Hold(k, n) <=> d = 0
  BY <1>1, <1>3, <1>6, <1>9, <1>10
<1> QED BY <1>3, <1>4, <1>11 DEF Pieces, q, a

LEMMA PiecesPositive ==
  ASSUME NEW n \in Names PROVE Pieces(n) \in Nat /\ Pieces(n) >= 1
<1> DEFINE a == Length[n] + PieceSize - 1
<1>1. PieceSize \in Nat /\ PieceSize > 0 /\ a \in Nat /\ a >= PieceSize
  BY DirectoryAssumption
<1> HIDE DEF a
<1>2. a \div PieceSize \in Nat /\ a \div PieceSize >= 1
  BY <1>1
<1> QED BY <1>2 DEF Pieces, a

(* Min is what it is called.                                               *)
LEMMA LeastExists ==
  ASSUME NEW S \in SUBSET Nat, S # {}
  PROVE  Min(S) \in S /\ \A x \in S : Min(S) <= x
BY LeastNatural DEF Min

(* What the slots of a table are.                                          *)
LEMMA SlotType ==
  ASSUME NEW r \in Seq(Slot), NEW i \in 1 .. Len(r)
  PROVE  /\ r[i] \in Slot /\ r[i].piece \in Nat /\ r[i].deleted \in BOOLEAN
         /\ r[i].short \in Short /\ r[i].short.eighth \in Byte
<1>1. r[i] \in Slot
  OBVIOUS
<1>2. \A x \in Slot : /\ x.piece \in Nat /\ x.deleted \in BOOLEAN
                      /\ x.short \in Short /\ x.short.eighth \in Byte
  BY DEF Slot, Short
<1> QED BY <1>1, <1>2

-----------------------------------------------------------------------------
(* The eighth character                                                    *)

(* A byte up to CharMax is its own char, and the byte after one below      *)
(* CharMax is the next number.                                             *)
LEMMA ByteNext ==
  ASSUME NEW e \in Byte
  PROVE  /\ e \in Nat /\ (e + 1) % (2 * CharMax + 2) \in Byte
         /\ e < CharMax => (e + 1) % (2 * CharMax + 2) = e + 1
         /\ e <= CharMax => AsChar(e) = e
<1> DEFINE m == 2 * CharMax + 2
<1>1. m \in Nat /\ m > 0 /\ m - 1 = 2 * CharMax + 1 /\ CharMax < m
  BY DirectoryAssumption
<1>2. e \in Nat /\ e + 1 \in Nat
  BY DirectoryAssumption DEF Byte
<1>3. Byte = 0 .. m - 1
  BY <1>1 DEF Byte
<1>4. e < CharMax => e + 1 \in 0 .. m - 1
  BY <1>1, <1>2, DirectoryAssumption
<1> HIDE DEF m
<1>5. (e + 1) % m \in 0 .. m - 1
  BY <1>1, <1>2
<1>6. e + 1 \in 0 .. m - 1 => (e + 1) % m = e + 1
  BY <1>1, <1>2
<1>7. e <= CharMax => AsChar(e) = e
  BY DEF AsChar
<1> QED BY <1>2, <1>3, <1>4, <1>5, <1>6, <1>7 DEF m

LEMMA BeyondType ==
  ASSUME NEW x \in Short, NEW y \in Slot
  PROVE  Beyond(x, y) \in Short /\ Beyond(x, y).stem = x.stem
<1>1. y.short.eighth \in Byte
  BY DEF Slot, Short
<1>2. PICK b \in Byte : b = (y.short.eighth + 1) % (2 * CharMax + 2)
  BY <1>1, ByteNext
<1>3. Beyond(x, y) \in {x, [x EXCEPT !.eighth = b]}
  BY <1>2 DEF Beyond
<1> QED BY <1>3 DEF Short

(* updateSFN is a loop over the slots of the table.                        *)
IsScan(f, r, s) ==
  /\ f \in [0 .. Len(r) -> Short] /\ f[0] = s
  /\ \A j \in 1 .. Len(r) : f[j] = Beyond(f[j - 1], r[j])

LEMMA ScanExists ==
  ASSUME NEW r \in Seq(Slot), NEW s \in Short
  PROVE  \E f : /\ IsScan(f, r, s)
               /\ updateSFN(r, s) =
                    IF s.stem \in Tilded /\ s.eighth = One THEN f[Len(r)] ELSE s
<1> DEFINE L == Len(r)
           step == [j \in 1 .. L |-> [x \in Short |-> Beyond(x, r[j])]]
           rec(f) == [i \in 0 .. L |-> IF i = 0 THEN s ELSE Beyond(f[i - 1], r[i])]
           scan == CHOOSE f : f = rec(f)
<1>1. L \in Nat /\ \A j \in 1 .. L : r[j] \in Slot
  BY LenProperties
<1>2. updateSFN(r, s) = IF s.stem \in Tilded /\ s.eighth = One THEN scan[L] ELSE s
  BY DEF updateSFN
<1> HIDE DEF L
<1>3. step \in [1 .. L -> [Short -> Short]]
  BY <1>1, BeyondType
<1>4. PICK g \in [0 .. L -> Short] : IsLoop(g, s, step, L)
  <2> HIDE DEF step
  <2> QED BY <1>1, <1>3, IterationExists
<1>5. g = rec(g)
  <2>1. ASSUME NEW i \in 0 .. L PROVE g[i] = rec(g)[i]
    <3>1. CASE i = 0
      BY <1>4, <3>1 DEF IsLoop
    <3>2. CASE i # 0
      <4>1. i \in 1 .. L /\ i - 1 \in 0 .. L
        BY <1>1, <3>2
      <4>2. g[i] = step[i][g[i - 1]] /\ g[i - 1] \in Short
        BY <1>4, <4>1 DEF IsLoop
      <4> QED BY <3>2, <4>1, <4>2
    <3> QED BY <3>1, <3>2
  <2> QED BY <2>1
<1>6. scan = rec(scan)
  <2> HIDE DEF rec
  <2> QED BY <1>5
<1> HIDE DEF scan
<1>7. /\ scan[0] = s /\ DOMAIN scan = 0 .. L
      /\ \A j \in 1 .. L : scan[j] = Beyond(scan[j - 1], r[j])
  <2>1. \A i \in 0 .. L : scan[i] = IF i = 0 THEN s ELSE Beyond(scan[i - 1], r[i])
    BY <1>6
  <2>2. DOMAIN scan = 0 .. L
    BY <1>6
  <2>3. 0 \in 0 .. L /\ \A j \in 1 .. L : j \in 0 .. L /\ j # 0
    BY <1>1
  <2> HIDE DEF rec
  <2> QED BY <2>1, <2>2, <2>3
<1>8. \A j \in 0 .. L : scan[j] \in Short
  <2> DEFINE S == [j \in 0 .. L |-> Short]
  <2>1. /\ \A j \in 0 .. L : S[j] = Short
        /\ 0 \in 0 .. L /\ \A j \in 1 .. L : j \in 0 .. L /\ j - 1 \in 0 .. L
    BY <1>1
  <2> HIDE DEF S
  <2>2. scan[0] \in S[0] /\ \A j \in 1 .. L : scan[j - 1] \in S[j - 1] => scan[j] \in S[j]
    <3>1. ASSUME NEW j \in 1 .. L, scan[j - 1] \in Short PROVE scan[j] \in Short
      <4>1. r[j] \in Slot /\ scan[j] = Beyond(scan[j - 1], r[j])
        BY <1>1, <1>7
      <4> QED BY <3>1, <4>1, BeyondType
    <3> QED BY <1>7, <2>1, <3>1
  <2>3. \A j \in 0 .. L : scan[j] \in S[j]
    BY <1>1, <2>2, IterationStays
  <2> QED BY <2>1, <2>3
<1>9. scan \in [0 .. L -> Short]
  <2>1. scan = [j \in 0 .. L |-> scan[j]]
    <3> HIDE DEF rec
    <3>1. scan = [i \in 0 .. L |-> rec(scan)[i]]
      BY <1>6 DEF rec
    <3> QED BY <1>6, <3>1
  <2> QED BY <1>8, <2>1
<1>10. IsScan(scan, r, s)
  BY <1>7, <1>9 DEF IsScan, L
<1> QED BY <1>2, <1>10 DEF L

LEMMA UpdateType ==
  ASSUME NEW r \in Seq(Slot), NEW s \in Short
  PROVE  /\ updateSFN(r, s) \in Short /\ updateSFN(r, s).stem = s.stem
         /\ ~ (s.stem \in Tilded /\ s.eighth = One) => updateSFN(r, s) = s
<1> DEFINE L == Len(r)
           S == [j \in 0 .. L |-> {x \in Short : x.stem = s.stem}]
<1>1. PICK f : /\ IsScan(f, r, s)
               /\ updateSFN(r, s) = IF s.stem \in Tilded /\ s.eighth = One THEN f[L] ELSE s
  BY ScanExists
<1>2. L \in Nat /\ \A j \in 1 .. L : r[j] \in Slot
  BY LenProperties
<1>3. /\ f[0] = s
      /\ \A j \in 1 .. L : f[j] = Beyond(f[j - 1], r[j])
  BY <1>1 DEF IsScan
<1> HIDE DEF L
<1>4. /\ \A j \in 0 .. L : S[j] = {x \in Short : x.stem = s.stem}
      /\ 0 \in 0 .. L /\ L \in 0 .. L
      /\ \A j \in 1 .. L : j \in 0 .. L /\ j - 1 \in 0 .. L
  BY <1>2
<1> HIDE DEF S
<1>5. f[0] \in S[0] /\ \A j \in 1 .. L : f[j - 1] \in S[j - 1] => f[j] \in S[j]
  <2>1. ASSUME NEW j \in 1 .. L, f[j - 1] \in Short, f[j - 1].stem = s.stem
        PROVE  f[j] \in Short /\ f[j].stem = s.stem
    <3>1. r[j] \in Slot /\ f[j] = Beyond(f[j - 1], r[j])
      BY <1>2, <1>3
    <3> QED BY <2>1, <3>1, BeyondType
  <2> QED BY <1>3, <1>4, <2>1
<1>6. f[L] \in S[L]
  BY <1>2, <1>4, <1>5, IterationStays
<1> QED BY <1>1, <1>4, <1>6

(* The files of a table that share the stem of s.                          *)
Rivals(r, s) == {i \in 1 .. Len(r) : IsFile(r[i]) /\ r[i].short.stem = s.stem}

(* A digit made up for a new file is beyond those of its rivals, and no    *)
(* further than it must be, if theirs are below CharMax.                   *)
LEMMA UpdateBeyond ==
  ASSUME NEW r \in Seq(Slot), NEW s \in Short, s.stem \in Tilded, s.eighth = One,
         \A i \in Rivals(r, s) : r[i].short.eighth < CharMax
  PROVE  LET u == updateSFN(r, s)
         IN  /\ \A i \in Rivals(r, s) : r[i].short.eighth < u.eighth
             /\ \/ u.eighth = One
                \/ \E i \in Rivals(r, s) : u.eighth = r[i].short.eighth + 1
<1> DEFINE L == Len(r)
           Above(x, j) == \A i \in Rivals(r, s) : i <= j => r[i].short.eighth < x.eighth
           Next1(x) == \/ x.eighth = One
                       \/ \E i \in Rivals(r, s) : x.eighth = r[i].short.eighth + 1
           T(j) == {x \in Short : /\ x.stem = s.stem /\ x.eighth <= CharMax
                                  /\ Above(x, j) /\ Next1(x)}
           S == [j \in 0 .. L |-> T(j)]
<1>1. PICK f : IsScan(f, r, s) /\ updateSFN(r, s) = f[L]
  BY ScanExists
<1>2. L \in Nat /\ \A j \in 1 .. L : r[j] \in Slot /\ r[j].short.eighth \in Byte
  BY LenProperties, SlotType
<1>3. /\ f[0] = s /\ \A j \in 0 .. L : f[j] \in Short
      /\ \A j \in 1 .. L : f[j] = Beyond(f[j - 1], r[j])
  BY <1>1 DEF IsScan
<1>4. \A i \in Rivals(r, s) : i \in 1 .. L /\ r[i].short.eighth \in Byte
  BY <1>2 DEF Rivals
<1> HIDE DEF L
<1>5. ASSUME NEW j \in 1 .. L, NEW x \in T(j - 1) PROVE Beyond(x, r[j]) \in T(j)
  <2> DEFINE y == Beyond(x, r[j])
             e == r[j].short.eighth
  <2>1. x \in Short /\ x.stem = s.stem /\ x.eighth \in Byte /\ x.eighth <= CharMax
        /\ Above(x, j - 1) /\ Next1(x) /\ e \in Byte /\ r[j] \in Slot
    BY <1>2 DEF Short
  <2>2. x.eighth \in Nat /\ AsChar(x.eighth) = x.eighth /\ e \in Nat
        /\ (e < CharMax => (e + 1) % (2 * CharMax + 2) = e + 1)
    BY <2>1, ByteNext
  <2>3. y \in Short /\ y.stem = s.stem
    BY <2>1, BeyondType
  <2>4. \A i \in Rivals(r, s) : i <= j => i = j \/ i <= j - 1
    BY <1>2, <1>4
  <2>5. CASE j \in Rivals(r, s) /\ x.eighth <= e
    <3>1. e < CharMax
      BY <2>5
    <3>2. y = [x EXCEPT !.eighth = e + 1]
      BY <2>1, <2>2, <2>5, <3>1 DEF Beyond, Rivals
    <3>3. y.eighth = e + 1
      BY <2>1, <3>2 DEF Short
    <3> HIDE DEF y
    <3>4. Above(y, j)
      <4> TAKE i \in Rivals(r, s)
      <4> HAVE i <= j
      <4>1. r[i].short.eighth \in Nat
        BY <1>4, ByteNext
      <4>2. i # j => r[i].short.eighth < x.eighth
        BY <2>1, <2>4
      <4> QED BY <2>2, <2>5, <3>3, <4>1, <4>2
    <3>5. Next1(y)
      BY <2>5, <3>3
    <3>6. y.eighth <= CharMax
      BY <2>2, <3>1, <3>3, DirectoryAssumption
    <3> QED BY <2>3, <3>4, <3>5, <3>6 DEF y
  <2>6. CASE ~ (j \in Rivals(r, s) /\ x.eighth <= e)
    <3>1. y = x
      BY <2>1, <2>2, <2>6, <1>2 DEF Beyond, Rivals, L
    <3>2. Above(x, j)
      <4> TAKE i \in Rivals(r, s)
      <4> HAVE i <= j
      <4>1. i = j => e < x.eighth
        BY <2>2, <2>6
      <4> QED BY <2>1, <2>4, <4>1
    <3> HIDE DEF y
    <3> QED BY <2>1, <3>1, <3>2 DEF y
  <2> QED BY <2>5, <2>6
<1>6. s \in T(0)
  <2>1. s.eighth <= CharMax /\ \A i \in Rivals(r, s) : ~ (i <= 0)
    BY <1>4, DirectoryAssumption
  <2> QED BY <2>1
<1> HIDE DEF T
<1>7. /\ \A j \in 0 .. L : S[j] = T(j)
      /\ 0 \in 0 .. L /\ L \in 0 .. L
      /\ \A j \in 1 .. L : j \in 0 .. L /\ j - 1 \in 0 .. L
  BY <1>2
<1> HIDE DEF S
<1>8. f[0] \in S[0] /\ \A j \in 1 .. L : f[j - 1] \in S[j - 1] => f[j] \in S[j]
  BY <1>3, <1>5, <1>6, <1>7
<1>9. f[L] \in T(L)
  <2>1. \A j \in 0 .. L : f[j] \in S[j]
    BY <1>2, <1>8, IterationStays
  <2> QED BY <1>7, <2>1
<1>10. Above(f[L], L) /\ Next1(f[L])
  BY <1>9 DEF T
<1> QED BY <1>1, <1>2, <1>4, <1>10

-----------------------------------------------------------------------------
(* q is r with p pieces of n and its entry behind it.                      *)
Extends(r, n, q, p) ==
  /\ q \in Seq(Slot) /\ Len(q) = Len(r) + p + 1
  /\ \A i \in 1 .. Len(r) : q[i] = r[i]
  /\ \A k \in 1 .. p :
       /\ q[Len(r) + k].piece = p + 1 - k
       /\ q[Len(r) + k].last <=> k = 1
       /\ q[Len(r) + k].name = n /\ ~ q[Len(r) + k].deleted
  /\ q[Len(q)].name = n /\ q[Len(q)].piece = 0 /\ ~ q[Len(q)].deleted
  /\ q[Len(q)].short = updateSFN(r, Normal_to_SFN(n))

LEMMA NewTable ==
  ASSUME NEW r \in Seq(Slot), NEW n \in Names
  PROVE  Extends(r, n, createRootEntry(r, n), Pieces(n))
<1> DEFINE q == createRootEntry(r, n)
           p == Pieces(n)
           o == Normal_to_SFN(n)
           u == updateSFN(r, o)
           l == createLFN(n)
           x == [name |-> n, piece |-> 0, last |-> FALSE, deleted |-> FALSE, short |-> u]
           piece(k) == [name |-> n, piece |-> p + 1 - k, last |-> k = 1,
                        deleted |-> FALSE, short |-> o]
<1>1. p \in Nat /\ p >= 1
  BY PiecesPositive
<1>2. o \in Short /\ u \in Short
  <2>1. o \in Short
    BY DirectoryAssumption DEF Normal_to_SFN, Short
  <2> HIDE DEF o
  <2> QED BY <2>1, UpdateType
<1>3. l = [k \in 1 .. p |-> piece(k)]
  BY DEF createLFN
<1>4. q = r \o l \o <<x>>
  BY DEF createRootEntry
<1> HIDE DEF q, p, o, u, l
<1>5. \A k \in 1 .. p : piece(k) \in Slot
  BY <1>1, <1>2 DEF Slot
<1>6. l \in Seq(Slot) /\ Len(l) = p /\ \A k \in 1 .. p : l[k] = piece(k)
  <2> HIDE DEF piece
  <2>1. l \in [1 .. p -> Slot] /\ \A k \in 1 .. p : l[k] = piece(k)
    BY <1>3, <1>5
  <2> QED BY <1>1, <2>1
<1>7. x \in Slot
  BY <1>2 DEF Slot
<1>8. \A k \in 1 .. p : /\ piece(k).piece = p + 1 - k /\ (piece(k).last <=> k = 1)
                        /\ piece(k).name = n /\ ~ piece(k).deleted
  OBVIOUS
<1> HIDE DEF x, piece
<1>9. /\ q \in Seq(Slot) /\ Len(q) = Len(r) + p + 1
      /\ \A i \in 1 .. Len(r) : q[i] = r[i]
      /\ \A k \in 1 .. p : q[Len(r) + k] = piece(k)
      /\ q[Len(q)] = x
  <2> DEFINE w == r \o l \o <<x>>
  <2>1. /\ w \in Seq(Slot) /\ Len(w) = Len(r) + p + 1
        /\ \A i \in 1 .. Len(r) : w[i] = r[i]
        /\ \A k \in 1 .. p : w[Len(r) + k] = piece(k)
        /\ w[Len(w)] = x
    BY <1>1, <1>6, <1>7
  <2> HIDE DEF w
  <2>2. q = w
    BY <1>4 DEF w
  <2> QED BY <2>1, <2>2
<1>10. x.name = n /\ x.piece = 0 /\ ~ x.deleted /\ x.short = u
  BY DEF x
<1>11. Extends(r, n, q, p)
  BY <1>8, <1>9, <1>10 DEF Extends, u, o
<1> QED BY <1>11 DEF q, p

(* Where the slots of a new table are, and which of them are entries.      *)
Layout(r, n, q) ==
  /\ q \in Seq(Slot)
  /\ Len(r) \in Nat /\ Len(q) \in Nat /\ Len(q) > Len(r) + 1
  /\ IsEntry(q[Len(q)]) /\ ~ IsEntry(q[Len(q) - 1])
  /\ \A i \in 1 .. Len(q) :
       i \in 1 .. Len(r) \/ i = Len(q) \/ i \in Len(r) + 1 .. Len(q) - 1
  /\ \A i \in 1 .. Len(r) : i \in 1 .. Len(q) /\ q[i] = r[i]
  /\ \A i \in Len(r) + 1 .. Len(q) - 1 :
       /\ q[i].piece = Len(q) - i /\ ~ IsEntry(q[i])
       /\ q[i].last <=> i = Len(r) + 1
       /\ q[i].name = n /\ ~ q[i].deleted

LEMMA NewSlots ==
  ASSUME NEW r \in Seq(Slot), NEW n \in Names
  PROVE  Layout(r, n, createRootEntry(r, n))
<1> DEFINE q == createRootEntry(r, n)
           p == Pieces(n)
<1>1. p \in Nat /\ p >= 1 /\ Len(r) \in Nat
  BY PiecesPositive
<1>2. Extends(r, n, q, p)
  BY NewTable
<1> HIDE DEF p, q
<1>3. ASSUME NEW i \in Len(r) + 1 .. Len(q) - 1
      PROVE  /\ q[i].piece = Len(q) - i /\ ~ IsEntry(q[i])
             /\ q[i].last <=> i = Len(r) + 1
             /\ q[i].name = n /\ ~ q[i].deleted
  <2>1. i - Len(r) \in 1 .. p /\ Len(r) + (i - Len(r)) = i
    BY <1>1, <1>2 DEF Extends
  <2>2. /\ q[i].piece = p + 1 - (i - Len(r))
        /\ q[i].last <=> i - Len(r) = 1
        /\ q[i].name = n /\ ~ q[i].deleted
    BY <1>2, <2>1 DEF Extends
  <2>3. p + 1 - (i - Len(r)) = Len(q) - i /\ Len(q) - i # 0
        /\ (i - Len(r) = 1 <=> i = Len(r) + 1)
    BY <1>1, <1>2 DEF Extends
  <2> QED BY <2>2, <2>3 DEF IsEntry
<1>4. Len(q) \in Nat /\ Len(q) > Len(r) + 1 /\ Len(q) - 1 \in Len(r) + 1 .. Len(q) - 1
  BY <1>1, <1>2 DEF Extends
<1>5. IsEntry(q[Len(q)]) /\ ~ IsEntry(q[Len(q) - 1])
  BY <1>2, <1>3, <1>4 DEF IsEntry, Extends
<1>6. \A i \in 1 .. Len(q) :
        i \in 1 .. Len(r) \/ i = Len(q) \/ i \in Len(r) + 1 .. Len(q) - 1
  BY <1>1, <1>4
<1>7. q \in Seq(Slot) /\ \A i \in 1 .. Len(r) : i \in 1 .. Len(q) /\ q[i] = r[i]
  BY <1>1, <1>2, <1>4 DEF Extends
<1>8. Layout(r, n, q)
  BY <1>1, <1>3, <1>4, <1>5, <1>6, <1>7 DEF Layout
<1> QED BY <1>8 DEF q

(* A sound table stays sound.                                              *)
LEMMA StaysSound ==
  ASSUME NEW r \in Seq(Slot), NEW n \in Names, Sound(r)
  PROVE  Sound(createRootEntry(r, n))
<1> DEFINE q == createRootEntry(r, n)
<1>1. Extends(r, n, q, Pieces(n)) /\ Layout(r, n, q)
  BY NewTable, NewSlots
<1>2. Pieces(n) \in Nat /\ Pieces(n) >= 1
  BY PiecesPositive
<1> HIDE DEF q
<1>3. /\ Len(r) \in Nat /\ Len(q) \in Nat /\ Len(q) > Len(r) + 1
      /\ Len(q) = Len(r) + Pieces(n) + 1
      /\ q \in Seq(Slot)
      /\ IsEntry(q[Len(q)]) /\ q[Len(q)].piece = 0
      /\ q[Len(q)].name = n /\ ~ q[Len(q)].deleted
  BY <1>1 DEF Extends, Layout
<1>6. \A i \in Len(r) + 1 .. Len(q) - 1 :
       /\ q[i].piece = Len(q) - i /\ ~ IsEntry(q[i])
       /\ q[i].last <=> i = Len(r) + 1
       /\ q[i].name = n /\ ~ q[i].deleted
  BY <1>1 DEF Layout
<1>7. \A i \in 1 .. Len(r) : i \in 1 .. Len(q) /\ q[i] = r[i]
  BY <1>1 DEF Layout
<1> SUFFICES ASSUME NEW i \in 1 .. Len(q), ~ IsEntry(q[i])
             PROVE  WholeFrom(q, i, i + q[i].piece)
  <2>1. Sound(q)
    BY DEF Sound
  <2> QED BY <2>1 DEF q
<1>4. CASE i \in 1 .. Len(r)
  <2> DEFINE entry == i + r[i].piece
  <2>1. r[i].piece \in Nat
    BY <1>4, SlotType
  <2>2. WholeFrom(r, i, entry)
    BY <1>4, <1>7 DEF Sound
  <2>3. \A j \in 1 .. Len(r) : q[j] = r[j]
    BY <1>7
  <2>4. entry \in 1 .. Len(r) /\ \A j \in i .. entry : j \in 1 .. Len(r)
    BY <1>3, <1>4, <2>1, <2>2 DEF WholeFrom
  <2>5. i > 1 => i - 1 \in 1 .. Len(r)
    BY <1>3, <1>4
  <2>6. i + q[i].piece = entry /\ entry <= Len(q)
    BY <1>3, <1>4, <2>3, <2>4
  <2> HIDE DEF entry
  <2>7. WholeFrom(q, i, entry)
    BY <1>4, <2>2, <2>3, <2>4, <2>5, <2>6 DEF WholeFrom
  <2> QED BY <2>6, <2>7
<1>5. CASE i \in Len(r) + 1 .. Len(q) - 1
  <2>1. q[i].piece = Len(q) - i /\ q[i].name = n /\ ~ q[i].deleted
        /\ (q[i].last <=> i = Len(r) + 1)
    BY <1>5, <1>6
  <2>2. i + q[i].piece = Len(q)
    BY <1>3, <2>1
  <2>3. ASSUME NEW j \in i .. Len(q)
        PROVE  /\ q[j].piece = Len(q) - j
               /\ q[j].name = q[i].name /\ q[j].deleted = q[i].deleted
    <3>1. j \in 1 .. Len(q) /\ (j = Len(q) \/ j \in Len(r) + 1 .. Len(q) - 1)
      BY <1>3, <1>5
    <3>2. q[j].deleted \in BOOLEAN /\ q[i].deleted \in BOOLEAN
      BY <1>3, <3>1, SlotType
    <3>3. CASE j = Len(q)
      BY <1>3, <2>1, <3>2, <3>3
    <3>4. CASE j \in Len(r) + 1 .. Len(q) - 1
      BY <1>6, <2>1, <3>2, <3>4
    <3> QED BY <3>1, <3>3, <3>4
  <2>4. Len(q) - i = Pieces(n) <=> i = Len(r) + 1
    BY <1>2, <1>3
  <2>5. i # Len(r) + 1 => i > 1 /\ i - 1 \in Len(r) + 1 .. Len(q) - 1
    BY <1>3, <1>5
  <2>6. i # Len(r) + 1 => ~ IsEntry(q[i - 1])
    BY <1>6, <2>5
  <2>7. q[i].last <=> Hold(q[i].piece, q[i].name)
    <3>1. Len(q) - i \in Nat
      BY <1>3, <1>5
    <3> QED BY <2>1, <2>4, <3>1, PiecesHold
  <2>8. ~ q[i].last => i > 1 /\ ~ IsEntry(q[i - 1])
    BY <2>1, <2>5, <2>6
  <2>9. WholeFrom(q, i, Len(q))
    BY <1>3, <2>3, <2>7, <2>8 DEF WholeFrom
  <2> QED BY <2>2, <2>9
<1>8. i \in 1 .. Len(r) \/ i \in Len(r) + 1 .. Len(q) - 1
  BY <1>1, <1>3 DEF Layout
<1> QED BY <1>4, <1>5, <1>8

-----------------------------------------------------------------------------
(* What a name opens.                                                      *)
FirstIn(r, n, j) == j \in Found(r, n) /\ \A i \in Found(r, n) : j <= i

LEMMA FirstMatchFirst ==
  ASSUME NEW r \in Seq(Slot), NEW n \in Names, Found(r, n) # {}
  PROVE  FirstIn(r, n, FirstMatch(r, n))
<1>1. Found(r, n) \in SUBSET Nat
  BY DEF Found
<1> QED BY <1>1, LeastExists DEF FirstMatch, FirstIn

(* The slots that were there match the names they matched.                 *)
LEMMA OldMatches ==
  ASSUME NEW r \in Seq(Slot), NEW n \in Names, NEW m \in Names, NEW i \in 1 .. Len(r)
  PROVE  Matches(createRootEntry(r, n), m, i) <=> Matches(r, m, i)
<1> DEFINE q == createRootEntry(r, n)
<1>1. Layout(r, n, q)
  BY NewSlots
<1> HIDE DEF q
<1>2. q[i] = r[i] /\ (i > 1 => i - 1 \in 1 .. Len(r) /\ q[i - 1] = r[i - 1])
  BY <1>1 DEF Layout
<1>3. HasLongName(q, i) <=> HasLongName(r, i)
  BY <1>2 DEF HasLongName
<1>4. Matches(q, m, i) <=> Matches(r, m, i)
  BY <1>2, <1>3 DEF Matches
<1> QED BY <1>4 DEF q

(* A name keeps the file it opens.                                         *)
LEMMA FirstStays ==
  ASSUME NEW r \in Seq(Slot), NEW n \in Names, NEW m \in Names, NEW j, FirstIn(r, m, j)
  PROVE  FirstIn(createRootEntry(r, n), m, j)
<1> DEFINE q == createRootEntry(r, n)
<1>1. Layout(r, n, q)
  BY NewSlots
<1>2. \A i \in 1 .. Len(r) : Matches(q, m, i) <=> Matches(r, m, i)
  BY OldMatches
<1> HIDE DEF q
<1>3. j \in 1 .. Len(r) /\ j \in Found(q, m)
  BY <1>1, <1>2 DEF FirstIn, Found, Layout
<1>4. ASSUME NEW i \in Found(q, m) PROVE j <= i
  <2>1. i \in 1 .. Len(q) /\ Matches(q, m, i)
    BY DEF Found
  <2>2. CASE i \in 1 .. Len(r)
    BY <1>2, <2>1, <2>2 DEF FirstIn, Found
  <2>3. CASE i \notin 1 .. Len(r)
    BY <1>1, <1>3, <2>1, <2>3 DEF Layout
  <2> QED BY <2>2, <2>3
<1>5. FirstIn(q, m, j)
  BY <1>3, <1>4 DEF FirstIn
<1> QED BY <1>5 DEF q

(* A new file is found by its name, and nothing is found before it.        *)
LEMMA FirstNew ==
  ASSUME NEW r \in Seq(Slot), NEW n \in Names, Found(r, n) = {}
  PROVE  FirstIn(createRootEntry(r, n), n, Len(createRootEntry(r, n)))
<1> DEFINE q == createRootEntry(r, n)
<1>1. Extends(r, n, q, Pieces(n)) /\ Layout(r, n, q)
  BY NewTable, NewSlots
<1>2. \A i \in 1 .. Len(r) : ~ Matches(q, n, i)
  BY OldMatches DEF Found
<1> HIDE DEF q
<1>3. q[Len(q)].name = n /\ HasLongName(q, Len(q)) /\ IsEntry(q[Len(q)])
  BY <1>1 DEF Extends, Layout, HasLongName
<1>4. Matches(q, n, Len(q))
  BY <1>3, DirectoryAssumption DEF Matches
<1>5. Len(q) \in Found(q, n)
  BY <1>1, <1>4 DEF Found, Layout
<1>6. ASSUME NEW i \in Found(q, n) PROVE Len(q) <= i
  <2>1. i \in 1 .. Len(q) /\ IsEntry(q[i]) /\ i \notin 1 .. Len(r)
    BY <1>2 DEF Found, Matches
  <2>2. i = Len(q)
    BY <1>1, <2>1 DEF Layout
  <2> QED BY <1>1, <2>2 DEF Layout
<1>7. FirstIn(q, n, Len(q))
  BY <1>5, <1>6 DEF FirstIn
<1> QED BY <1>7 DEF q

-----------------------------------------------------------------------------
(* Short names                                                             *)

(* The names with stem s that are yet to get a file.                       *)
Missing(r, s) == {n \in Names : Stem[n] = s /\ Found(r, n) = {}}

(***************************************************************************)
(* Each eighth character behind "~" leaves room for one more for each      *)
(* name that may still get a file.  Distinct(root) alone is not inductive: *)
(* beyond CharMax updateSFN gives digits that are taken.                   *)
(***************************************************************************)
Room(r) ==
  \A i \in 1 .. Len(r) :
    IsFile(r[i]) /\ r[i].short.stem \in Tilded =>
      r[i].short.eighth + Cardinality(Missing(r, r[i].short.stem)) <= CharMax

LEMMA MissingFew ==
  ASSUME FewShare, NEW r, NEW s \in Tilded
  PROVE  /\ IsFiniteSet(Missing(r, s)) /\ Cardinality(Missing(r, s)) \in Nat
         /\ \A n \in Names :
              Stem[n] = s => Eighth[n] + Cardinality(Missing(r, s)) <= CharMax
         /\ \A t \in Tables : \A i \in 1 .. Len(t) :
              IsFile(t[i]) /\ t[i].short.stem = s =>
                t[i].short.eighth + Cardinality(Missing(r, s)) <= CharMax
<1> DEFINE N == {n \in Names : Stem[n] = s}
<1>1. /\ IsFiniteSet(N)
      /\ \A n \in N : Eighth[n] + Cardinality(N) <= CharMax
      /\ \A t \in Tables : \A i \in 1 .. Len(t) :
           IsFile(t[i]) /\ t[i].short.stem = s =>
             t[i].short.eighth + Cardinality(N) <= CharMax
  BY DEF FewShare
<1>2. Missing(r, s) \subseteq N
  BY DEF Missing
<1> HIDE DEF N
<1>3. /\ IsFiniteSet(Missing(r, s)) /\ Cardinality(Missing(r, s)) \in Nat
      /\ Cardinality(N) \in Nat /\ Cardinality(Missing(r, s)) <= Cardinality(N)
  BY <1>1, <1>2, FS_Subset, FS_CardinalityType
<1>4. CharMax \in Nat
  BY DirectoryAssumption
<1>5. ASSUME NEW n \in Names, Stem[n] = s
      PROVE  Eighth[n] + Cardinality(Missing(r, s)) <= CharMax
  <2>1. Eighth[n] \in Nat /\ n \in N
    BY <1>5, DirectoryAssumption, ByteNext DEF N
  <2> QED BY <1>1, <1>3, <1>4, <2>1
<1>6. ASSUME NEW t \in Tables, NEW i \in 1 .. Len(t), IsFile(t[i]), t[i].short.stem = s
      PROVE  t[i].short.eighth + Cardinality(Missing(r, s)) <= CharMax
  <2>1. t[i].short.eighth \in Nat
    BY DirectoryAssumption, SlotType, ByteNext
  <2> QED BY <1>1, <1>3, <1>4, <1>6, <2>1
<1> QED BY <1>3, <1>5, <1>6

(* A name that gets a file is missing no more.                             *)
LEMMA MissingLess ==
  ASSUME FewShare, NEW r \in Seq(Slot), NEW n \in Names, Found(r, n) = {}, NEW s \in Tilded
  PROVE  LET q == createRootEntry(r, n)
         IN  /\ Cardinality(Missing(q, s)) <= Cardinality(Missing(r, s))
             /\ s = Stem[n] => Cardinality(Missing(q, s)) + 1 <= Cardinality(Missing(r, s))
<1> DEFINE q == createRootEntry(r, n)
           M == Missing(r, s)
<1>1. /\ IsFiniteSet(M) /\ Cardinality(M) \in Nat
      /\ Cardinality(Missing(q, s)) \in Nat
  BY MissingFew
<1>2. ASSUME NEW m \in Names, Found(r, m) # {} PROVE Found(q, m) # {}
  <2>1. PICK i \in 1 .. Len(r) : Matches(r, m, i)
    BY <1>2 DEF Found
  <2>2. Matches(q, m, i)
    BY <2>1, OldMatches
  <2>3. i \in 1 .. Len(q)
    BY NewSlots DEF Layout
  <2> HIDE DEF q
  <2> QED BY <2>2, <2>3 DEF Found
<1>3. Found(q, n) # {}
  BY FirstNew DEF FirstIn
<1> HIDE DEF q
<1>4. Missing(q, s) \subseteq M \ {n}
  BY <1>2, <1>3 DEF Missing
<1>5. IsFiniteSet(M \ {n}) /\ Cardinality(M \ {n}) \in Nat
      /\ Cardinality(M \ {n}) = IF n \in M THEN Cardinality(M) - 1 ELSE Cardinality(M)
  <2> HIDE DEF M
  <2> QED BY <1>1, FS_RemoveElement, FS_CardinalityType
<1>6. Cardinality(Missing(q, s)) <= Cardinality(M \ {n})
  <2> HIDE DEF M
  <2> QED BY <1>4, <1>5, FS_Subset
<1>7. s = Stem[n] => n \in M
  BY DEF Missing
<1> HIDE DEF M
<1>8. /\ Cardinality(Missing(q, s)) <= Cardinality(M)
      /\ s = Stem[n] => Cardinality(Missing(q, s)) + 1 <= Cardinality(M)
  BY <1>1, <1>5, <1>6, <1>7
<1> QED BY <1>8 DEF q, M

(* Distinct short names stay distinct, if the new file has been looked for *)
(* and there is room for its digit.                                        *)
LEMMA StaysDistinct ==
  ASSUME FewShare, NEW r \in Seq(Slot), NEW n \in Names, Distinct(r), Room(r),
         Found(r, n) = {}
  PROVE  Distinct(createRootEntry(r, n)) /\ Room(createRootEntry(r, n))
<1> DEFINE q == createRootEntry(r, n)
           o == Normal_to_SFN(n)
           u == updateSFN(r, o)
           M(t, s) == Cardinality(Missing(t, s))
           made == Stem[n] \in Tilded /\ Eighth[n] = One
<1>1. Extends(r, n, q, Pieces(n)) /\ Layout(r, n, q)
  BY NewTable, NewSlots
<1>2. o \in Short /\ o.stem = Stem[n] /\ o.eighth = Eighth[n]
  BY DirectoryAssumption DEF Normal_to_SFN, Short
<1>3. u \in Short /\ u.stem = Stem[n] /\ u.eighth \in Nat /\ (~ made => u = o)
  <2> HIDE DEF o
  <2>1. u \in Short /\ u.stem = Stem[n] /\ (~ made => u = o)
    BY <1>2, UpdateType
  <2>2. u.eighth \in Byte
    BY <2>1 DEF Short
  <2> QED BY <2>1, <2>2, ByteNext
<1>4. \A s \in Tilded :
        /\ M(r, s) \in Nat /\ M(q, s) \in Nat /\ M(q, s) <= M(r, s)
        /\ s = Stem[n] => M(q, s) + 1 <= M(r, s)
  BY MissingFew, MissingLess
<1>5. Stem[n] \in Tilded => Eighth[n] + M(q, Stem[n]) <= CharMax /\ Eighth[n] + M(r, Stem[n]) <= CharMax
  BY MissingFew
<1>6. ASSUME NEW i \in 1 .. Len(r) PROVE r[i].short.eighth \in Nat
  BY SlotType, ByteNext
<1>7. CharMax \in Nat /\ Eighth[n] \in Nat /\ (made => Eighth[n] = One)
  BY DirectoryAssumption, ByteNext
<1>8. q[Len(q)].short = u
  BY <1>1 DEF Extends
<1> HIDE DEF M
<1>9. made => /\ \A i \in Rivals(r, o) : r[i].short.eighth < u.eighth
              /\ u.eighth + M(q, Stem[n]) <= CharMax
  <2> SUFFICES ASSUME made
               PROVE  /\ \A i \in Rivals(r, o) : r[i].short.eighth < u.eighth
                      /\ u.eighth + M(q, Stem[n]) <= CharMax
    OBVIOUS
  <2>1. ASSUME NEW i \in Rivals(r, o)
        PROVE  /\ r[i].short.eighth \in Nat
               /\ r[i].short.eighth + M(r, Stem[n]) <= CharMax
    BY <1>2, <1>6 DEF Rivals, Room, M
  <2>2. \A i \in Rivals(r, o) : r[i].short.eighth < CharMax
    BY <1>4, <1>7, <2>1
  <2> HIDE DEF q
  <2>3. /\ \A i \in Rivals(r, o) : r[i].short.eighth < u.eighth
        /\ \/ u.eighth = One
           \/ \E i \in Rivals(r, o) : u.eighth = r[i].short.eighth + 1
    <3> HIDE DEF o
    <3> QED BY <1>2, <2>2, UpdateBeyond
  <2> HIDE DEF u, o
  <2>4. u.eighth + M(q, Stem[n]) <= CharMax
    BY <1>3, <1>4, <1>5, <1>7, <2>1, <2>3
  <2> QED BY <2>3, <2>4
<1>10. ASSUME NEW i \in 1 .. Len(r), IsFile(r[i]) PROVE r[i].short # u
  <2>1. CASE made
    <3>1. r[i].short.stem = Stem[n] => i \in Rivals(r, o)
      BY <1>2, <1>10 DEF Rivals
    <3> HIDE DEF u, o
    <3> QED BY <1>3, <1>6, <1>9, <2>1, <3>1
  <2>2. CASE ~ made
    <3>1. n \notin Long
      BY <2>2, DirectoryAssumption
    <3>2. ~ Matches(r, n, i)
      BY DEF Found
    <3> QED BY <1>3, <1>10, <2>2, <3>1, <3>2 DEF Matches, IsFile
  <2> QED BY <2>1, <2>2
<1>11. Stem[n] \in Tilded => u.eighth + M(q, Stem[n]) <= CharMax
  BY <1>2, <1>3, <1>5, <1>9
<1> HIDE DEF q, u
<1>12. ASSUME NEW i \in 1 .. Len(q), IsFile(q[i])
       PROVE  i = Len(q) \/ (i \in 1 .. Len(r) /\ q[i] = r[i] /\ IsFile(r[i]))
  BY <1>1, <1>12 DEF Layout, IsFile
<1>13. ASSUME NEW i \in 1 .. Len(q), NEW j \in 1 .. Len(q), IsFile(q[i]), IsFile(q[j]),
              q[i].short = q[j].short
       PROVE  i = j
  <2>1. CASE i \in 1 .. Len(r) /\ q[i] = r[i] /\ IsFile(r[i]) /\ j = Len(q)
    BY <1>8, <1>10, <1>13, <2>1
  <2>2. CASE j \in 1 .. Len(r) /\ q[j] = r[j] /\ IsFile(r[j]) /\ i = Len(q)
    BY <1>8, <1>10, <1>13, <2>2
  <2>3. CASE /\ i \in 1 .. Len(r) /\ q[i] = r[i] /\ IsFile(r[i])
             /\ j \in 1 .. Len(r) /\ q[j] = r[j] /\ IsFile(r[j])
    BY <1>13, <2>3 DEF Distinct
  <2> QED BY <1>12, <1>13, <2>1, <2>2, <2>3
<1>14. Distinct(q)
  BY <1>13 DEF Distinct
<1>15. ASSUME NEW i \in 1 .. Len(q), IsFile(q[i]), q[i].short.stem \in Tilded
       PROVE  q[i].short.eighth + M(q, q[i].short.stem) <= CharMax
  <2>1. CASE i = Len(q)
    BY <1>3, <1>8, <1>11, <1>15, <2>1
  <2>2. CASE i \in 1 .. Len(r) /\ q[i] = r[i] /\ IsFile(r[i])
    <3>1. r[i].short.eighth + M(r, r[i].short.stem) <= CharMax
      BY <1>15, <2>2 DEF Room, M
    <3> QED BY <1>4, <1>6, <1>7, <1>15, <2>2, <3>1
  <2> QED BY <1>12, <1>15, <2>1, <2>2
<1>16. Room(q)
  BY <1>15 DEF Room, M
<1> QED BY <1>14, <1>16 DEF q

-----------------------------------------------------------------------------
(***************************************************************************)
(* The inductive invariant: the table is well formed, and what a name has  *)
(* opened is the first entry it matches.                                   *)
(***************************************************************************)
TableInv ==
  /\ root \in Seq(Slot) /\ Len(root) <= RootEntryCount
  /\ Sound(root)
  /\ opened \subseteq Names \X (1 .. Len(root))
  /\ \A a \in opened : FirstIn(root, a[1], a[2])

LEMMA TableInit == Init => TableInv
  BY DirectoryAssumption DEF Init, TableInv

LEMMA TableOpen ==
  ASSUME TableInv, NEW n \in Names, VMFileOpen(n)
  PROVE  TableInv'
<1>1. root \in Seq(Slot) /\ Len(root) \in Nat /\ Len(root) <= RootEntryCount
      /\ Sound(root)
      /\ opened \subseteq Names \X (1 .. Len(root))
      /\ \A a \in opened : FirstIn(root, a[1], a[2])
  BY LenProperties DEF TableInv
<1>2. CASE Found(root, n) # {} /\ root' = root
           /\ opened' = opened \union {<<n, FirstMatch(root, n)>>}
  <2>1. FirstIn(root, n, FirstMatch(root, n))
    BY <1>1, <1>2, FirstMatchFirst
  <2>2. FirstMatch(root, n) \in 1 .. Len(root)
    BY <2>1 DEF FirstIn, Found
  <2>3. \A a \in opened' : a \in Names \X (1 .. Len(root)) /\ FirstIn(root, a[1], a[2])
    BY <1>1, <1>2, <2>1, <2>2
  <2> QED BY <1>1, <1>2, <2>3 DEF TableInv
<1>3. CASE /\ Found(root, n) = {}
           /\ Len(root) + Pieces(n) + 1 <= RootEntryCount
           /\ root' = createRootEntry(root, n)
           /\ opened' = opened \union {<<n, Len(root')>>}
  <2>1. Extends(root, n, root', Pieces(n)) /\ Layout(root, n, root')
    BY <1>1, <1>3, NewTable, NewSlots
  <2>2. Sound(root')
    BY <1>1, <1>3, StaysSound
  <2>3. FirstIn(root', n, Len(root'))
    BY <1>1, <1>3, FirstNew
  <2>4. \A a \in opened : FirstIn(root', a[1], a[2])
    <3> TAKE a \in opened
    <3>1. a[1] \in Names /\ FirstIn(root, a[1], a[2])
      BY <1>1
    <3> QED BY <1>1, <1>3, <3>1, FirstStays
  <2>5. root' \in Seq(Slot) /\ Len(root') = Len(root) + Pieces(n) + 1
    BY <2>1 DEF Extends
  <2>6. Len(root') \in 1 .. Len(root') /\ \A i \in 1 .. Len(root) : i \in 1 .. Len(root')
    BY <2>1 DEF Layout
  <2>7. \A a \in opened' : a \in Names \X (1 .. Len(root')) /\ FirstIn(root', a[1], a[2])
    <3>1. ASSUME NEW a \in opened PROVE a \in Names \X (1 .. Len(root'))
      BY <1>1, <2>6
    <3>2. <<n, Len(root')>> \in Names \X (1 .. Len(root'))
      BY <2>6
    <3> QED BY <1>3, <2>3, <2>4, <3>1, <3>2
  <2>8. Len(root') <= RootEntryCount
    BY <1>3, <2>5
  <2> QED BY <2>2, <2>5, <2>7, <2>8 DEF TableInv
<1> QED BY <1>2, <1>3 DEF VMFileOpen

LEMMA TableStep == TableInv /\ [Next]_vars => TableInv'
<1> SUFFICES ASSUME TableInv, [Next]_vars PROVE TableInv'
  OBVIOUS
<1>1. CASE \E n \in Names : VMFileOpen(n)
  BY <1>1, TableOpen
<1>2. CASE UNCHANGED <<root, opened>>
  BY <1>2 DEF TableInv
<1> QED BY <1>1, <1>2 DEF Next, vars, VMDirectoryOpen, VMDirectoryClose, VMDirectoryRead,
                          VMDirectoryRewind

LEMMA TableAlways == Spec => []TableInv
  BY TableInit, TableStep, PTL DEF Spec

(* VMFileOpen: each long name stands whole before the entry of its file,   *)
(* whatever is created, on any disk that is sound.                         *)
THEOREM AlwaysTableSound == Spec => []TableSound
<1>1. TableInv => TableSound
  BY DEF TableInv, TableSound
<1> QED BY <1>1, TableAlways, PTL

(* Short names are distinct, and there is room for more.                   *)
NamesInv == Distinct(root) /\ Room(root)

LEMMA NamesInit ==
  ASSUME FewShare PROVE Init => NamesInv
<1> SUFFICES ASSUME Init PROVE NamesInv
  OBVIOUS
<1>1. root \in Tables /\ Distinct(root)
  BY DirectoryAssumption DEF Init
<1>2. Room(root)
  BY <1>1, MissingFew DEF Room
<1> QED BY <1>1, <1>2 DEF NamesInv

LEMMA NamesStep ==
  ASSUME FewShare, TableInv, NamesInv, [Next]_vars PROVE NamesInv'
<1>1. CASE \E n \in Names : VMFileOpen(n)
  <2>1. PICK n \in Names : VMFileOpen(n)
    BY <1>1
  <2>2. root' = root \/ (Found(root, n) = {} /\ root' = createRootEntry(root, n))
    BY <2>1 DEF VMFileOpen
  <2>3. root \in Seq(Slot) /\ Distinct(root) /\ Room(root)
    BY DEF TableInv, NamesInv
  <2>4. root' = createRootEntry(root, n) /\ Found(root, n) = {} => Distinct(root') /\ Room(root')
    BY <2>3, StaysDistinct
  <2>5. root' = root => Distinct(root') /\ Room(root')
    BY <2>3
  <2> QED BY <2>2, <2>4, <2>5 DEF NamesInv
<1>2. CASE UNCHANGED <<root, opened>>
  BY <1>2 DEF NamesInv
<1> QED BY <1>1, <1>2 DEF Next, vars, VMDirectoryOpen, VMDirectoryClose, VMDirectoryRead,
                          VMDirectoryRewind

(***************************************************************************)
(* updateSFN: no two files have the same short name, while so few names    *)
(* share the characters before the digit that the digit stays a char.      *)
(***************************************************************************)
THEOREM AlwaysShortNamesDistinct ==
  ASSUME FewShare
  PROVE  Spec => []ShortNamesDistinct
<1>1. Init => NamesInv
  BY NamesInit
<1>2. TableInv /\ NamesInv /\ [Next]_vars => NamesInv'
  BY NamesStep
<1>3. NamesInv => ShortNamesDistinct
  BY DEF NamesInv, ShortNamesDistinct
<1> QED BY <1>1, <1>2, <1>3, TableAlways, PTL DEF Spec

(* VMFileOpen: a name opens the same entry each time, although it takes    *)
(* the first file whose long name it begins or whose short name it has.    *)
THEOREM AlwaysSameFile == Spec => []SameFile
<1>1. TableInv => SameFile
  <2> SUFFICES ASSUME TableInv, NEW a \in opened, NEW b \in opened, a[1] = b[1]
               PROVE  a = b
    BY DEF SameFile
  <2>1. a \in Names \X (1 .. Len(root)) /\ b \in Names \X (1 .. Len(root))
    BY DEF TableInv
  <2>2. FirstIn(root, a[1], a[2]) /\ FirstIn(root, b[1], b[2])
    BY DEF TableInv
  <2>3. a[2] <= b[2] /\ b[2] <= a[2]
    BY <2>2 DEF FirstIn
  <2>4. a[2] = b[2]
    BY <2>1, <2>3
  <2> QED BY <2>1, <2>4
<1> QED BY <1>1, TableAlways, PTL

-----------------------------------------------------------------------------
(* Readers stay in the table, or at its end.                               *)
LEMMA SkipType ==
  ASSUME NEW r \in Seq(Slot), NEW i \in Nat, i >= 1
  PROVE  Skip(r, i) \in (1 .. Len(r)) \union {End}
<1> DEFINE stops == {j \in i .. Len(r) : StopsBefore(r, j)}
<1>1. stops \in SUBSET Nat /\ \A j \in stops : j \in 1 .. Len(r)
  BY LenProperties
<1>2. stops # {} => Min(stops) \in stops
  <2> HIDE DEF stops
  <2> QED BY <1>1, LeastExists
<1>3. Skip(r, i) = IF stops = {} THEN End ELSE Min(stops)
  BY DEF Skip
<1> HIDE DEF stops
<1> QED BY <1>1, <1>2, <1>3

LEMMA AfterPiecesType ==
  ASSUME NEW r \in Seq(Slot), NEW i \in 1 .. Len(r)
  PROVE  AfterPieces(r, i) \in Nat /\ AfterPieces(r, i) >= 1
<1> DEFINE C == {j \in i .. Len(r) + 1 : j = Len(r) + 1 \/ IsEntry(r[j])}
<1>1. Len(r) \in Nat /\ i \in Nat /\ i >= 1 /\ C \in SUBSET Nat /\ Len(r) + 1 \in C
  BY LenProperties
<1>2. PICK j \in C : \A k \in C : j <= k
  <2> HIDE DEF C
  <2> QED BY <1>1, LeastNatural
<1>3. \A k \in i .. j - 1 : ~ IsEntry(r[k])
  <2> TAKE k \in i .. j - 1
  <2>1. k \in i .. Len(r) + 1 /\ ~ (j <= k)
    BY <1>1
  <2> QED BY <1>2, <2>1
<1>4. AfterPieces(r, i) \in i .. Len(r) + 1
  BY <1>2, <1>3 DEF AfterPieces
<1> QED BY <1>1, <1>4

ReadersInv ==
  /\ nextDirDescriptor \in Nat /\ nextDirDescriptor >= 3
  /\ DOMAIN openDirectories \subseteq 3 .. nextDirDescriptor - 1
  /\ \A d \in DOMAIN openDirectories :
       openDirectories[d] \in (1 .. Len(root)) \union {End}

LEMMA ReadersInit == Init => ReadersInv
<1> SUFFICES ASSUME Init PROVE ReadersInv
  OBVIOUS
<1>1. DOMAIN openDirectories = {} /\ nextDirDescriptor = 3
  BY DEF Init
<1> QED BY <1>1 DEF ReadersInv

(* The table has grown, and the readers have not moved.                    *)
LEMMA ReadersOpen ==
  ASSUME TableInv, ReadersInv, NEW n \in Names, VMFileOpen(n)
  PROVE  ReadersInv'
<1>1. root \in Seq(Slot)
  BY DEF TableInv
<1>2. \A i \in 1 .. Len(root) : i \in 1 .. Len(root')
  <2>1. CASE root' = root
    BY <2>1
  <2>2. CASE root' = createRootEntry(root, n)
    BY <1>1, <2>2, NewSlots DEF Layout
  <2> QED BY <2>1, <2>2 DEF VMFileOpen
<1>3. UNCHANGED <<openDirectories, nextDirDescriptor>>
  BY DEF VMFileOpen, directories
<1> QED BY <1>2, <1>3 DEF ReadersInv, End

LEMMA ReadersStep == TableInv /\ ReadersInv /\ [Next]_vars => ReadersInv'
<1> SUFFICES ASSUME TableInv, ReadersInv, [Next]_vars PROVE ReadersInv'
  OBVIOUS
<1>1. root \in Seq(Slot) /\ Len(root) \in Nat
  BY LenProperties DEF TableInv
<1>2. CASE \E n \in Names : VMFileOpen(n)
  BY <1>2, ReadersOpen
<1>3. CASE VMDirectoryOpen
  <2>1. Skip(root, 1) \in (1 .. Len(root)) \union {End}
    BY <1>1, SkipType
  <2> QED BY <1>3, <2>1 DEF VMDirectoryOpen, ReadersInv, Put, End
<1>4. CASE \E d \in DOMAIN openDirectories : VMDirectoryClose(d)
  BY <1>4 DEF VMDirectoryClose, ReadersInv, End
<1>5. ASSUME NEW d \in DOMAIN openDirectories, VMDirectoryRead(d) PROVE ReadersInv'
  <2> DEFINE j == AfterPieces(root, openDirectories[d])
  <2>1. openDirectories[d] \in 1 .. Len(root)
    BY <1>5 DEF VMDirectoryRead, ReadersInv
  <2>2. j + 1 \in Nat /\ j + 1 >= 1
    BY <1>1, <2>1, AfterPiecesType
  <2>3. Skip(root, j + 1) \in (1 .. Len(root)) \union {End}
    <3> HIDE DEF j
    <3> QED BY <1>1, <2>2, SkipType
  <2>4. openDirectories' = [openDirectories EXCEPT ![d] = Skip(root, j + 1)]
        /\ UNCHANGED <<root, nextDirDescriptor>>
    BY <1>5 DEF VMDirectoryRead
  <2> HIDE DEF j
  <2> QED BY <2>3, <2>4 DEF ReadersInv, End
<1>6. ASSUME NEW d \in DOMAIN openDirectories, VMDirectoryRewind(d) PROVE ReadersInv'
  <2>1. Skip(root, 1) \in (1 .. Len(root)) \union {End}
    BY <1>1, SkipType
  <2> QED BY <1>6, <2>1 DEF VMDirectoryRewind, ReadersInv, End
<1>7. CASE UNCHANGED vars
  BY <1>7 DEF vars, directories, ReadersInv, End
<1> QED BY <1>2, <1>3, <1>4, <1>5, <1>6, <1>7 DEF Next

(* The directory calls: currEntry is a slot of the table or its end, never *)
(* a free slot, and descriptors are counted on.                            *)
THEOREM AlwaysTypeOK == Spec => []DirectoriesTypeOK
<1>1. TableInv /\ ReadersInv => DirectoriesTypeOK
  BY DEF TableInv, ReadersInv, DirectoriesTypeOK
<1>2. Spec => []ReadersInv
  BY ReadersInit, ReadersStep, TableAlways, PTL DEF Spec
<1> QED BY <1>1, <1>2, TableAlways, PTL

-----------------------------------------------------------------------------
(***************************************************************************)
(* What readers return.  s lists, in order, the files among the first n    *)
(* slots of r.                                                             *)
(***************************************************************************)
Lists(s, r, n) ==
  /\ s \in Seq(Nat)
  /\ \A x : (\E i \in 1 .. Len(s) : s[i] = x) <=> x \in 1 .. n /\ Listed(r, x)
  /\ \A i, j \in 1 .. Len(s) : i < j => s[i] < s[j]

(* Nothing is listed of the slots i to j.                                  *)
NoneListed(r, i, j) == \A k \in i .. j : ~ Listed(r, k)

LEMMA ListsMore ==
  ASSUME NEW r, NEW s, NEW n \in Nat, NEW m \in Nat,
         Lists(s, r, n), n <= m, NoneListed(r, n + 1, m)
  PROVE  Lists(s, r, m)
<1>1. \A x : x \in 1 .. m <=> x \in 1 .. n \/ x \in n + 1 .. m
  OBVIOUS
<1>2. \A x : x \in 1 .. m /\ Listed(r, x) <=> x \in 1 .. n /\ Listed(r, x)
  BY <1>1 DEF NoneListed
<1> QED BY <1>2 DEF Lists

LEMMA ListsAppend ==
  ASSUME NEW r, NEW s, NEW n \in Nat, Lists(s, r, n), Listed(r, n + 1)
  PROVE  Lists(Append(s, n + 1), r, n + 1)
<1> DEFINE q == Append(s, n + 1)
<1>1. s \in Seq(Nat) /\ Len(s) \in Nat
  BY LenProperties DEF Lists
<1>2. /\ q \in Seq(Nat) /\ Len(q) = Len(s) + 1 /\ q[Len(s) + 1] = n + 1
      /\ \A i \in 1 .. Len(s) : q[i] = s[i]
  BY <1>1
<1> HIDE DEF q
<1>3. \A i \in 1 .. Len(s) : s[i] \in 1 .. n
  BY DEF Lists
<1>4. ASSUME NEW x
      PROVE (\E i \in 1 .. Len(q) : q[i] = x) <=> x \in 1 .. n + 1 /\ Listed(r, x)
  <2>1. (\E i \in 1 .. Len(q) : q[i] = x) <=> (\E i \in 1 .. Len(s) : s[i] = x) \/ x = n + 1
    <3>1. \A i : i \in 1 .. Len(q) <=> i \in 1 .. Len(s) \/ i = Len(s) + 1
      BY <1>1, <1>2
    <3> QED BY <1>2, <3>1
  <2>2. x \in 1 .. n + 1 <=> x \in 1 .. n \/ x = n + 1
    OBVIOUS
  <2> QED BY <2>1, <2>2 DEF Lists
<1>5. ASSUME NEW i \in 1 .. Len(q), NEW j \in 1 .. Len(q), i < j PROVE q[i] < q[j]
  <2>1. i \in 1 .. Len(s)
    BY <1>1, <1>2, <1>5
  <2>2. CASE j \in 1 .. Len(s)
    BY <1>2, <1>5, <2>1, <2>2 DEF Lists
  <2>3. CASE j = Len(s) + 1
    BY <1>2, <1>3, <2>1, <2>3
  <2> QED BY <1>1, <1>2, <2>2, <2>3
<1>6. Lists(q, r, n + 1)
  BY <1>2, <1>4, <1>5 DEF Lists
<1> QED BY <1>6 DEF q

(* A long name is deleted with its file.                                   *)
LEMMA DeletedWhole ==
  ASSUME NEW r \in Seq(Slot), Sound(r), NEW k \in 1 .. Len(r),
         IsEntry(r[k]), HasLongName(r, k)
  PROVE  k - 1 \in 1 .. Len(r) /\ ~ IsEntry(r[k - 1]) /\ r[k].deleted = r[k - 1].deleted
<1> DEFINE i == k - 1
<1>1. Len(r) \in Nat /\ i \in 1 .. Len(r) /\ ~ IsEntry(r[i]) /\ k = i + 1
  BY LenProperties DEF HasLongName
<1>2. r[i].piece \in Nat /\ r[i].piece # 0
  BY <1>1, SlotType DEF IsEntry
<1>3. WholeFrom(r, i, i + r[i].piece)
  BY <1>1 DEF Sound
<1>4. k \in i .. i + r[i].piece
  BY <1>1, <1>2
<1>5. r[k].deleted = r[i].deleted
  BY <1>3, <1>4 DEF WholeFrom
<1> QED BY <1>1, <1>5

(* What a reader passes over is not listed.                                *)
LEMMA PassedUnlisted ==
  ASSUME NEW r \in Seq(Slot), Sound(r), NEW i \in Nat, NEW j \in Nat, j <= Len(r),
         i = 1 \/ (i > 1 /\ IsEntry(r[i - 1])),
         \A k \in i .. j : ~ StopsBefore(r, k)
  PROVE  NoneListed(r, i, j)
<1> SUFFICES ASSUME NEW k \in i .. j, Listed(r, k) PROVE FALSE
  BY DEF NoneListed
<1>1. Len(r) \in Nat /\ k \in 1 .. Len(r) /\ IsEntry(r[k])
  BY LenProperties DEF Listed
<1>2. ~ StopsBefore(r, k)
  OBVIOUS
<1>3. r[k].deleted /\ HasLongName(r, k)
  BY <1>1, <1>2 DEF StopsBefore, Listed
<1>4. k - 1 \in 1 .. Len(r) /\ ~ IsEntry(r[k - 1]) /\ r[k - 1].deleted
  BY <1>1, <1>3, DeletedWhole
<1>5. k - 1 \in i .. j
  <2>1. k # i
    BY <1>4
  <2> QED BY <1>1, <2>1
<1>6. StopsBefore(r, k - 1)
  BY <1>4 DEF StopsBefore
<1> QED BY <1>5, <1>6

LEMMA SkipStops ==
  ASSUME NEW r \in Seq(Slot), NEW i \in Nat, i >= 1, Len(r) <= RootEntryCount
  PROVE  \/ Skip(r, i) = End /\ \A k \in i .. Len(r) : ~ StopsBefore(r, k)
         \/ /\ Skip(r, i) \in i .. Len(r) /\ Skip(r, i) # End
            /\ StopsBefore(r, Skip(r, i))
            /\ \A k \in i .. Skip(r, i) - 1 : ~ StopsBefore(r, k)
<1> DEFINE stops == {j \in i .. Len(r) : StopsBefore(r, j)}
<1>1. Len(r) \in Nat /\ RootEntryCount \in Nat /\ stops \in SUBSET Nat
  BY LenProperties, DirectoryAssumption
<1>2. Skip(r, i) = IF stops = {} THEN End ELSE Min(stops)
  BY DEF Skip
<1>3. CASE stops = {}
  BY <1>2, <1>3
<1>4. CASE stops # {}
  <2> DEFINE e == Min(stops)
  <2>1. e \in stops /\ \A x \in stops : e <= x
    <3> HIDE DEF stops
    <3> QED BY <1>1, <1>4, LeastExists
  <2> HIDE DEF e
  <2>2. e \in i .. Len(r) /\ StopsBefore(r, e) /\ e # End
    BY <1>1, <2>1 DEF End
  <2>3. ASSUME NEW k \in i .. e - 1 PROVE ~ StopsBefore(r, k)
    <3>1. k \in i .. Len(r) /\ ~ (e <= k)
      BY <1>1, <2>2
    <3> QED BY <2>1, <3>1
  <2>4. Skip(r, i) = e
    BY <1>2, <1>4 DEF e
  <2> QED BY <2>2, <2>3, <2>4
<1> QED BY <1>3, <1>4

(* The file a reader returns is the next that is listed.                   *)
LEMMA NextListed ==
  ASSUME NEW r \in Seq(Slot), Sound(r), NEW i \in 1 .. Len(r), StopsBefore(r, i)
  PROVE  /\ AfterPieces(r, i) \in i .. Len(r)
         /\ IsEntry(r[AfterPieces(r, i)]) /\ Listed(r, AfterPieces(r, i))
         /\ NoneListed(r, i, AfterPieces(r, i) - 1)
<1> DEFINE C == {k \in i .. Len(r) + 1 : k = Len(r) + 1 \/ IsEntry(r[k])}
           e == i + r[i].piece
           j == AfterPieces(r, i)
<1>1. Len(r) \in Nat /\ i \in Nat /\ i >= 1 /\ i <= Len(r) /\ r[i].piece \in Nat
  BY LenProperties, SlotType
<1>2. e \in C /\ e <= Len(r) /\ IsEntry(r[e])
  <2>1. CASE IsEntry(r[i])
    BY <1>1, <2>1 DEF IsEntry
  <2>2. CASE ~ IsEntry(r[i])
    BY <1>1, <2>2 DEF Sound, WholeFrom
  <2> QED BY <2>1, <2>2
<1>3. C \in SUBSET Nat
  BY <1>1
<1>4. PICK l \in C : \A k \in C : l <= k
  <2> HIDE DEF C, e
  <2> QED BY <1>2, <1>3, LeastNatural
<1>5. l <= Len(r) /\ \A k \in i .. l - 1 : ~ IsEntry(r[k])
  <2>1. l <= e /\ l \in Nat /\ e \in Nat
    BY <1>2, <1>3, <1>4
  <2>2. l <= Len(r)
    BY <1>1, <1>2, <2>1
  <2>3. ASSUME NEW k \in i .. l - 1 PROVE ~ IsEntry(r[k])
    <3>1. k \in i .. Len(r) + 1 /\ ~ (l <= k)
      BY <1>1, <2>1, <2>2
    <3> QED BY <1>4, <3>1
  <2> QED BY <2>2, <2>3
<1>6. /\ j \in i .. Len(r) + 1
      /\ j = Len(r) + 1 \/ IsEntry(r[j])
      /\ \A k \in i .. j - 1 : ~ IsEntry(r[k])
  BY <1>4, <1>5 DEF AfterPieces
<1> HIDE DEF j, C
<1>7. j \in i .. Len(r) /\ IsEntry(r[j])
  <2>1. j # Len(r) + 1
    <3> SUFFICES ASSUME j = Len(r) + 1 PROVE FALSE
      OBVIOUS
    <3>1. e \in i .. j - 1
      BY <1>1, <1>2
    <3> QED BY <1>2, <1>6, <3>1
  <2> QED BY <1>1, <1>6, <2>1
<1>8. Listed(r, j)
  <2>1. CASE j = i
    BY <1>7, <2>1 DEF Listed, StopsBefore
  <2>2. CASE j # i
    <3>1. j - 1 \in i .. j - 1 /\ j > 1
      BY <1>1, <1>7, <2>2
    <3> QED BY <1>6, <1>7, <3>1 DEF Listed, HasLongName
  <2> QED BY <2>1, <2>2
<1>9. NoneListed(r, i, j - 1)
  BY <1>6 DEF NoneListed, Listed
<1> QED BY <1>7, <1>8, <1>9 DEF j

(* A reader that moves on passes nothing that is listed.                   *)
LEMMA MovesOn ==
  ASSUME NEW r \in Seq(Slot), Sound(r), Len(r) <= RootEntryCount,
         NEW n \in Nat, n <= Len(r), n = 0 \/ IsEntry(r[n]),
         NEW s, Lists(s, r, n)
  PROVE  LET e == Skip(r, n + 1)
         IN  /\ e = End => Lists(s, r, Len(r))
             /\ e # End => /\ e \in 1 .. Len(r) /\ StopsBefore(r, e)
                           /\ Lists(s, r, e - 1)
<1> DEFINE e == Skip(r, n + 1)
<1>1. Len(r) \in Nat /\ n + 1 \in Nat /\ n + 1 >= 1
  BY LenProperties
<1>2. n + 1 = 1 \/ (n + 1 > 1 /\ IsEntry(r[n + 1 - 1]))
  OBVIOUS
<1>3. \/ e = End /\ \A k \in n + 1 .. Len(r) : ~ StopsBefore(r, k)
      \/ /\ e \in n + 1 .. Len(r) /\ e # End /\ StopsBefore(r, e)
         /\ \A k \in n + 1 .. e - 1 : ~ StopsBefore(r, k)
  BY <1>1, SkipStops
<1> HIDE DEF e
<1>4. CASE e = End
  <2>1. \A k \in n + 1 .. Len(r) : ~ StopsBefore(r, k)
    BY <1>3, <1>4
  <2>2. NoneListed(r, n + 1, Len(r))
    BY <1>1, <1>2, <2>1, PassedUnlisted
  <2>3. Lists(s, r, Len(r))
    BY <1>1, <2>2, ListsMore
  <2> QED BY <1>4, <2>3 DEF e
<1>5. CASE e # End
  <2>1. /\ e \in n + 1 .. Len(r) /\ StopsBefore(r, e)
        /\ \A k \in n + 1 .. e - 1 : ~ StopsBefore(r, k)
    BY <1>3, <1>5
  <2>2. e \in 1 .. Len(r) /\ e - 1 \in Nat /\ e - 1 <= Len(r) /\ n <= e - 1
    BY <1>1, <2>1
  <2>3. NoneListed(r, n + 1, e - 1)
    BY <1>1, <1>2, <2>1, <2>2, PassedUnlisted
  <2>4. Lists(s, r, e - 1)
    BY <2>2, <2>3, ListsMore
  <2> QED BY <1>5, <2>1, <2>2, <2>4 DEF e
<1> QED BY <1>4, <1>5

LEMMA ListsNothing == ASSUME NEW r PROVE Lists(<< >>, r, 0)
<1>1. << >> \in Seq(Nat) /\ Len(<< >>) = 0
  OBVIOUS
<1> QED BY <1>1 DEF Lists

(* A reader has returned what is listed of the slots it has passed, and    *)
(* stands at a slot at which readers stop.                                 *)
Reader(d) ==
  /\ d \in DOMAIN returned /\ d \in DOMAIN seen
  /\ seen[d] \in 0 .. Len(root)
  /\ openDirectories[d] = End => Lists(returned[d], root, seen[d])
  /\ openDirectories[d] # End =>
       /\ openDirectories[d] \in 1 .. Len(root)
       /\ StopsBefore(root, openDirectories[d])
       /\ Lists(returned[d], root, openDirectories[d] - 1)

ListsInv == \A d \in DOMAIN openDirectories : Reader(d)

LEMMA ListsInit == Init => ListsInv
<1> SUFFICES ASSUME Init PROVE ListsInv
  OBVIOUS
<1>1. DOMAIN openDirectories = {}
  BY DEF Init
<1> QED BY <1>1 DEF ListsInv

(* A new file comes behind all the slots a reader has passed.              *)
LEMMA OldListed ==
  ASSUME NEW r \in Seq(Slot), NEW n \in Names, NEW s, NEW m \in 0 .. Len(r),
         Lists(s, r, m)
  PROVE  Lists(s, createRootEntry(r, n), m)
<1> DEFINE q == createRootEntry(r, n)
<1>1. Layout(r, n, q)
  BY NewSlots
<1> HIDE DEF q
<1>2. ASSUME NEW x \in 1 .. m PROVE Listed(q, x) <=> Listed(r, x)
  <2>1. Len(r) \in Nat /\ x \in 1 .. Len(r)
    BY LenProperties
  <2>2. q[x] = r[x] /\ (x > 1 => x - 1 \in 1 .. Len(r) /\ q[x - 1] = r[x - 1])
    BY <1>1, <2>1 DEF Layout
  <2> QED BY <2>2 DEF Listed, HasLongName
<1>3. Lists(s, q, m)
  BY <1>2 DEF Lists
<1> QED BY <1>3 DEF q

LEMMA ListsOpen ==
  ASSUME TableInv, ListsInv, NEW n \in Names, VMFileOpen(n)
  PROVE  ListsInv'
<1>1. root \in Seq(Slot) /\ Len(root) \in Nat
  BY LenProperties DEF TableInv
<1>2. UNCHANGED <<openDirectories, returned, seen>>
  BY DEF VMFileOpen, directories
<1>3. CASE root' = root
  BY <1>2, <1>3 DEF ListsInv, Reader, End
<1>4. CASE root' = createRootEntry(root, n)
  <2>1. Layout(root, n, root')
    BY <1>1, <1>4, NewSlots
  <2>2. \A s : \A m \in 0 .. Len(root) : Lists(s, root, m) => Lists(s, root', m)
    BY <1>1, <1>4, OldListed
  <2>3. Len(root') \in Nat /\ Len(root) <= Len(root')
        /\ \A i \in 1 .. Len(root) : root'[i] = root[i]
    BY <2>1 DEF Layout
  <2> SUFFICES ASSUME NEW d \in DOMAIN openDirectories PROVE Reader(d)'
    BY <1>2 DEF ListsInv
  <2>4. Reader(d)
    BY DEF ListsInv
  <2>5. CASE openDirectories[d] = End
    BY <1>1, <1>2, <2>2, <2>3, <2>4, <2>5 DEF Reader, End
  <2>6. CASE openDirectories[d] # End
    <3> DEFINE e == openDirectories[d]
    <3>1. e \in 1 .. Len(root) /\ e - 1 \in 0 .. Len(root) /\ e \in 1 .. Len(root')
      BY <1>1, <2>3, <2>4, <2>6 DEF Reader
    <3>2. StopsBefore(root', e)
      BY <2>3, <2>4, <2>6, <3>1 DEF Reader, StopsBefore
    <3>3. Lists(returned[d], root', e - 1)
      BY <2>2, <2>4, <2>6, <3>1 DEF Reader
    <3>4. seen[d] \in 0 .. Len(root')
      BY <1>1, <2>3, <2>4 DEF Reader
    <3> QED BY <1>2, <2>4, <2>6, <3>1, <3>2, <3>3, <3>4 DEF Reader, End
  <2> QED BY <2>5, <2>6
<1> QED BY <1>3, <1>4 DEF VMFileOpen

(* s lists the files among the first n slots, and no piece comes after s.  *)
Prefix(n, s) ==
  n <= Len(root) /\ (n = 0 \/ IsEntry(root[n])) /\ Lists(s, root, n)

LEMMA PrefixEmpty == ASSUME TableInv PROVE Prefix(0, << >>)
<1>1. root \in Seq(Slot) /\ 0 <= Len(root)
  BY LenProperties DEF TableInv
<1> QED BY <1>1, ListsNothing DEF Prefix

(* A reader that has been put where it belongs.                            *)
LEMMA ReaderPut ==
  ASSUME TableInv, NEW d, NEW n \in Nat, NEW s, Prefix(n, s),
         d \in DOMAIN returned', d \in DOMAIN seen', UNCHANGED root,
         returned'[d] = s, seen'[d] = Len(root), openDirectories'[d] = Skip(root, n + 1)
  PROVE  Reader(d)'
<1> DEFINE e == Skip(root, n + 1)
<1>1. root \in Seq(Slot) /\ Len(root) \in Nat /\ Sound(root) /\ Len(root) <= RootEntryCount
  BY LenProperties DEF TableInv
<1>2. /\ e = End => Lists(s, root, Len(root))
      /\ e # End => /\ e \in 1 .. Len(root) /\ StopsBefore(root, e)
                    /\ Lists(s, root, e - 1)
  BY <1>1, MovesOn DEF Prefix
<1> HIDE DEF e
<1>3. openDirectories'[d] = e /\ Len(root) \in 0 .. Len(root)
  BY <1>1 DEF e
<1> QED BY <1>2, <1>3 DEF Reader, End

MovedTo(d, n, s) ==
  /\ openDirectories' = [openDirectories EXCEPT ![d] = Skip(root, n + 1)]
  /\ returned' = [returned EXCEPT ![d] = s]
  /\ seen' = [seen EXCEPT ![d] = Len(root)]
  /\ UNCHANGED root

LEMMA ListsStep == TableInv /\ ReadersInv /\ ListsInv /\ [Next]_vars => ListsInv'
<1> SUFFICES ASSUME TableInv, ReadersInv, ListsInv, [Next]_vars PROVE ListsInv'
  OBVIOUS
<1>1. root \in Seq(Slot) /\ Len(root) \in Nat /\ Sound(root)
  BY LenProperties DEF TableInv
<1>2. CASE \E n \in Names : VMFileOpen(n)
  BY <1>2, ListsOpen
<1>3. CASE VMDirectoryOpen
  <2> PICK d : d = nextDirDescriptor
    OBVIOUS
  <2>1. /\ openDirectories' = Put(openDirectories, d, Skip(root, 1))
        /\ returned' = Put(returned, d, << >>) /\ seen' = Put(seen, d, Len(root))
        /\ UNCHANGED root
    BY <1>3 DEF VMDirectoryOpen
  <2>2. d \notin DOMAIN openDirectories
    BY DEF ReadersInv
  <2>3. /\ d \in DOMAIN returned' /\ d \in DOMAIN seen'
        /\ returned'[d] = << >> /\ seen'[d] = Len(root)
        /\ openDirectories'[d] = Skip(root, 0 + 1)
    BY <2>1 DEF Put
  <2>4. Reader(d)'
    BY <2>1, <2>3, PrefixEmpty, ReaderPut
  <2>5. ASSUME NEW e \in DOMAIN openDirectories PROVE Reader(e)'
    <3>1. Reader(e) /\ e # d
      BY <2>2 DEF ListsInv
    <3>2. /\ openDirectories'[e] = openDirectories[e]
          /\ e \in DOMAIN returned' /\ returned'[e] = returned[e]
          /\ e \in DOMAIN seen' /\ seen'[e] = seen[e]
      BY <2>1, <3>1 DEF Put, Reader
    <3> QED BY <2>1, <3>1, <3>2 DEF Reader, End
  <2>6. DOMAIN openDirectories' = DOMAIN openDirectories \union {d}
    BY <2>1 DEF Put
  <2> QED BY <2>4, <2>5, <2>6 DEF ListsInv
<1>4. ASSUME NEW d \in DOMAIN openDirectories, VMDirectoryClose(d) PROVE ListsInv'
  <2>1. /\ openDirectories' = [e \in DOMAIN openDirectories \ {d} |-> openDirectories[e]]
        /\ UNCHANGED <<root, returned, seen>>
    BY <1>4 DEF VMDirectoryClose
  <2> QED BY <2>1 DEF ListsInv, Reader, End
<1>5. ASSUME NEW d \in DOMAIN openDirectories,
             VMDirectoryRead(d) \/ VMDirectoryRewind(d)
      PROVE  ListsInv'
  <2>1. PICK n \in Nat, s \in Seq(Nat) :
          Prefix(n, s) /\ MovedTo(d, n, s)
    <3>1. CASE VMDirectoryRewind(d)
      <4>1. MovedTo(d, 0, << >>)
        BY <3>1 DEF VMDirectoryRewind, MovedTo
      <4>2. 0 \in Nat /\ << >> \in Seq(Nat)
        OBVIOUS
      <4> QED BY <4>1, <4>2, PrefixEmpty
    <3>2. CASE VMDirectoryRead(d)
      <4> DEFINE i == openDirectories[d]
                 j == AfterPieces(root, i)
      <4>1. /\ i # End
            /\ MovedTo(d, j, Append(returned[d], j))
        BY <3>2 DEF VMDirectoryRead, MovedTo
      <4>2. i \in 1 .. Len(root) /\ StopsBefore(root, i) /\ Lists(returned[d], root, i - 1)
        BY <4>1 DEF ListsInv, Reader
      <4> HIDE DEF i
      <4>3. /\ j \in i .. Len(root) /\ IsEntry(root[j]) /\ Listed(root, j)
            /\ NoneListed(root, i, j - 1)
        BY <1>1, <4>2, NextListed
      <4> HIDE DEF j
      <4>4. j \in Nat /\ i - 1 \in Nat /\ j - 1 \in Nat /\ i - 1 <= j - 1 /\ j <= Len(root)
            /\ (i - 1) + 1 = i /\ (j - 1) + 1 = j
        BY <1>1, <4>2, <4>3
      <4>5. Lists(returned[d], root, j - 1)
        BY <4>2, <4>3, <4>4, ListsMore
      <4>6. Lists(Append(returned[d], j), root, j)
        <5>1. Lists(Append(returned[d], (j - 1) + 1), root, (j - 1) + 1)
          BY <4>3, <4>4, <4>5, ListsAppend
        <5> QED BY <4>4, <5>1
      <4>7. Prefix(j, Append(returned[d], j)) /\ Append(returned[d], j) \in Seq(Nat)
        BY <4>3, <4>4, <4>6 DEF Prefix, Lists
      <4> QED BY <4>1, <4>4, <4>7
    <3> QED BY <1>5, <3>1, <3>2
  <2>2. Reader(d)
    BY DEF ListsInv
  <2>3. Reader(d)'
    <3>1. /\ d \in DOMAIN returned' /\ d \in DOMAIN seen'
          /\ returned'[d] = s /\ seen'[d] = Len(root)
          /\ openDirectories'[d] = Skip(root, n + 1)
      BY <2>1, <2>2 DEF Reader, MovedTo
    <3> QED BY <2>1, <3>1, ReaderPut DEF MovedTo
  <2>4. ASSUME NEW e \in DOMAIN openDirectories, e # d PROVE Reader(e)'
    <3>1. Reader(e)
      BY DEF ListsInv
    <3>2. /\ openDirectories'[e] = openDirectories[e]
          /\ e \in DOMAIN returned' /\ returned'[e] = returned[e]
          /\ e \in DOMAIN seen' /\ seen'[e] = seen[e]
      BY <2>1, <2>4, <3>1 DEF Reader, MovedTo
    <3> QED BY <2>1, <3>1, <3>2 DEF Reader, End, MovedTo
  <2>5. DOMAIN openDirectories' = DOMAIN openDirectories
    BY <2>1 DEF MovedTo
  <2> QED BY <2>3, <2>4, <2>5 DEF ListsInv
<1>6. CASE UNCHANGED vars
  BY <1>6 DEF vars, directories, ListsInv, Reader, End
<1> QED BY <1>2, <1>3, <1>4, <1>5, <1>6 DEF Next

(* VMDirectoryRead: each file is returned once, in the order of the table, *)
(* and none is passed over, whatever is created between two calls.         *)
THEOREM AlwaysReadsInOrder == Spec => []ReadsInOrder
<1>1. ListsInv => ReadsInOrder
  <2> SUFFICES ASSUME ListsInv, NEW d \in DOMAIN openDirectories
               PROVE  /\ Range(returned[d]) = {j \in 1 .. Passed(d) : Listed(root, j)}
                      /\ \A i, j \in DOMAIN returned[d] :
                           i < j => returned[d][i] < returned[d][j]
    BY DEF ReadsInOrder
  <2>1. Lists(returned[d], root, Passed(d))
    BY DEF ListsInv, Reader, Passed
  <2>2. returned[d] \in Seq(Nat) /\ DOMAIN returned[d] = 1 .. Len(returned[d])
    BY <2>1 DEF Lists
  <2>3. \A x : x \in Range(returned[d]) <=> x \in 1 .. Passed(d) /\ Listed(root, x)
    BY <2>1, <2>2 DEF Lists, Range
  <2> QED BY <2>1, <2>2, <2>3 DEF Lists
<1>2. Spec => []ReadersInv
  BY ReadersInit, ReadersStep, TableAlways, PTL DEF Spec
<1>3. Spec => []ListsInv
  BY ListsInit, ListsStep, <1>2, TableAlways, PTL DEF Spec
<1> QED BY <1>1, <1>3, PTL

=============================================================================
