---------------------------- MODULE FilesProofs ----------------------------
(***************************************************************************)
(* The file system's inductive invariant and the theorems that follow from *)
(* it, for every sound disk, every size of sectors, clusters and FAT, and  *)
(* any number of threads that take none of the three risks.                *)
(*                                                                         *)
(* The invariant says that there are chains, one for each entry of the     *)
(* root directory, that the FAT lays out (LaidOut); that a file which no   *)
(* call is at work on has its bytes in its chain (Filed); and that a call  *)
(* under way has got as far as its file pointer says (Under): what a write *)
(* has copied so far is in the chain, and the rest is as it was.           *)
(***************************************************************************)
EXTENDS Files, IterationProofs, FiniteSetTheorems

-----------------------------------------------------------------------------
(* Blocks of n bytes                                                       *)

(* What dividing leaves.                                                   *)
LEMMA DivMod ==
  ASSUME NEW n \in Nat \ {0}, NEW i \in Nat
  PROVE  /\ i \div n \in Nat /\ i % n \in 0 .. n - 1
         /\ i = (i \div n) * n + (i % n)
OBVIOUS

(* A block ends where the next begins, or before.                          *)
LEMMA NextBlock ==
  ASSUME NEW n \in Nat \ {0}, NEW k \in Int, NEW l \in Int, k < l
  PROVE  k * n + n <= l * n
<1>1. (l - k - 1) * n >= 0
  OBVIOUS
<1> QED BY <1>1

(* A byte is in one block only, ...                                        *)
LEMMA OneBlock ==
  ASSUME NEW n \in Nat \ {0}, NEW k \in Int, NEW l \in Int,
         NEW r \in 1 .. n, NEW s \in 1 .. n, k * n + r = l * n + s
  PROVE  k = l /\ r = s
<1>1. k * n \in Int /\ l * n \in Int
  OBVIOUS
<1>2. ~ (k < l)
  BY <1>1, NextBlock
<1>3. ~ (l < k)
  BY <1>1, NextBlock
<1> QED BY <1>1, <1>2, <1>3

(* ... which is found by dividing.                                         *)
LEMMA WhichBlock ==
  ASSUME NEW n \in Nat \ {0}, NEW k \in Nat, NEW r \in 1 .. n
  PROVE  /\ (k * n + r - 1) \div n = k
         /\ ((k * n + r - 1) % n) + 1 = r
<1> DEFINE i == k * n + r - 1
<1>1. k * n \in Nat /\ i \in Nat
  OBVIOUS
<1> HIDE DEF i
<1>2. i \div n \in Nat /\ i % n \in 0 .. n - 1 /\ i = (i \div n) * n + (i % n)
  BY <1>1, DivMod
<1>3. k * n + r = (i \div n) * n + ((i % n) + 1)
  BY <1>1, <1>2 DEF i
<1>4. (i % n) + 1 \in 1 .. n /\ i \div n \in Int /\ k \in Int
  BY <1>2
<1>5. k = i \div n /\ r = (i % n) + 1
  BY <1>3, <1>4, OneBlock
<1> QED BY <1>5 DEF i

(* A cluster holds at least one byte.                                      *)
LEMMA ClusterSizeType == ClusterSize \in Nat \ {0}
  BY FileAssumption DEF ClusterSize

(* The numbers of clusters lie in the FAT, after entries 0 and 1, and      *)
(* below the marks.                                                        *)
LEMMA ClusterType ==
  /\ FatSize \in Nat \ {0, 1, 2} /\ EndMark \in Nat /\ FatSize <= EndMark
  /\ Cluster \subseteq 0 .. FatSize - 1 /\ Cluster \subseteq Nat
  /\ \A c \in Cluster : c # 0 /\ c < EndMark
  BY FileAssumption DEF Cluster

(* The byte of a file is where StartCluster and Stored look for it.        *)
LEMMA InBlock ==
  ASSUME NEW len \in Nat, NEW i \in 1 .. len * ClusterSize
  PROVE  /\ (i - 1) \div ClusterSize \in 0 .. len - 1
         /\ ((i - 1) % ClusterSize) + 1 \in 1 .. ClusterSize
         /\ i = ((i - 1) \div ClusterSize) * ClusterSize + (((i - 1) % ClusterSize) + 1)
<1> DEFINE k == (i - 1) \div ClusterSize
           r == (i - 1) % ClusterSize
<1>1. i - 1 \in Nat
  BY ClusterSizeType
<1>2. k \in Nat /\ r \in 0 .. ClusterSize - 1 /\ i - 1 = k * ClusterSize + r
  BY <1>1, ClusterSizeType, DivMod
<1>3. i <= len * ClusterSize /\ i \in Nat
  BY ClusterSizeType
<1> HIDE DEF k, r
<1>4. k * ClusterSize \in Nat /\ len * ClusterSize \in Nat /\ r + 1 \in 1 .. ClusterSize
  BY <1>2, ClusterSizeType
<1>5. ~ (len <= k)
  <2>1. len * ClusterSize <= k * ClusterSize \/ k < len
    <3>1. CASE len = k
      BY <1>4, <3>1
    <3>2. CASE len < k
      BY <1>2, <1>4, <3>2, ClusterSizeType, NextBlock
    <3> QED BY <1>2, <3>1, <3>2
  <2> QED BY <1>2, <1>3, <1>4, <2>1
<1>6. k \in 0 .. len - 1
  BY <1>2, <1>5
<1>7. i = k * ClusterSize + (r + 1)
  BY <1>1, <1>2, <1>3, <1>4
<1> QED BY <1>4, <1>6, <1>7 DEF k, r

-----------------------------------------------------------------------------
(* The FAT                                                                 *)

(* FATs whose first two entries, which are no clusters, are not free.      *)
Fats == {f \in [0 .. FatSize - 1 -> 0 .. EndOfChain] : f[0] # 0 /\ f[1] # 0}

(* createRootEntry and the write call find a free cluster if there is one. *)
LEMMA FirstFreeIs ==
  ASSUME NEW f \in Fats, Free(f) # {}
  PROVE  FirstFree(f) \in Cluster /\ f[FirstFree(f)] = 0
<1>1. Free(f) \in SUBSET Nat
  BY DEF Free
<1>2. \E i \in Free(f) : \A j \in Free(f) : i <= j
  BY <1>1, LeastNatural
<1>3. FirstFree(f) \in Free(f)
  BY <1>2 DEF FirstFree
<1> QED BY <1>3, ClusterType DEF Free, Fats, Cluster

(* What is known of the chain of entry e.                                  *)
LEMMA ChainFacts ==
  ASSUME NEW ps, NEW f \in Fats, NEW r \in Seq(Entry), LaidOut(ps, f, r),
         NEW e \in 1 .. Len(r)
  PROVE  /\ ps[e] \in Seq(Cluster) /\ Len(ps[e]) \in Nat \ {0}
         /\ \A i \in 1 .. Len(ps[e]) : ps[e][i] \in Cluster /\ f[ps[e][i]] \notin {0, EndMark}
         /\ f[ps[e][Len(ps[e])]] > EndMark
         /\ r[e] \in Entry
<1>1. ps[e] \in Seq(Cluster) /\ Chained(ps[e], f, r[e])
  BY ElementOfSeq DEF LaidOut
<1>2. Len(ps[e]) \in Nat \ {0}
  BY <1>1, EmptySeq DEF Chained
<1>3. \A i \in 1 .. Len(ps[e]) : ps[e][i] \in Cluster
  BY <1>1, ElementOfSeq
<1>4. EndMark \in Nat /\ EndOfChain \in Nat /\ \A c \in Cluster : c # 0 /\ c # EndMark
  BY ClusterType DEF EndOfChain
<1>5. ASSUME NEW i \in 1 .. Len(ps[e]) PROVE f[ps[e][i]] \notin {0, EndMark}
  <2>1. CASE i = Len(ps[e])
    BY <1>1, <1>4, <2>1 DEF Chained
  <2>2. CASE i # Len(ps[e])
    <3>1. i \in 1 .. Len(ps[e]) - 1 /\ i + 1 \in 1 .. Len(ps[e])
      BY <1>2, <2>2
    <3> QED BY <1>1, <1>3, <1>4, <3>1 DEF Chained
  <2> QED BY <2>1, <2>2
<1>6. f[ps[e][Len(ps[e])]] > EndMark
  BY <1>1, <1>4 DEF Chained
<1> QED BY <1>1, <1>2, <1>3, <1>5, <1>6, ElementOfSeq

(* A free cluster is in no chain.                                          *)
LEMMA FreeApart ==
  ASSUME NEW ps, NEW f \in Fats, NEW r \in Seq(Entry), LaidOut(ps, f, r), Free(f) # {}
  PROVE  \A e \in 1 .. Len(r) : \A i \in 1 .. Len(ps[e]) : ps[e][i] # FirstFree(f)
  BY FirstFreeIs, ChainFacts

(* Link changes two entries of the FAT: the last cluster's and the free    *)
(* one's.                                                                  *)
LEMMA LinkIs ==
  ASSUME NEW f \in Fats, NEW c \in Cluster, f[c] # 0, Free(f) # {}
  PROVE  /\ Link(f, c) \in Fats
         /\ Link(f, c)[c] = FirstFree(f)
         /\ Link(f, c)[FirstFree(f)] = EndOfChain
         /\ \A i \in 0 .. FatSize - 1 : i \notin {c, FirstFree(f)} => Link(f, c)[i] = f[i]
<1> DEFINE n == FirstFree(f)
<1>1. n \in Cluster /\ f[n] = 0
  BY FirstFreeIs
<1>2. n # c /\ n \in 0 .. FatSize - 1 /\ c \in 0 .. FatSize - 1
  BY <1>1, ClusterType
<1>3. n \in 0 .. EndOfChain /\ EndOfChain \in 0 .. EndOfChain
  <2> HIDE DEF n
  <2>1. n \in Nat /\ n < EndMark /\ EndMark \in Nat
    BY <1>1, ClusterType
  <2> QED BY <2>1 DEF EndOfChain
<1>4. Link(f, c) = [f EXCEPT ![c] = n, ![n] = EndOfChain]
  BY DEF Link
<1> HIDE DEF n
<1>5. Link(f, c) \in [0 .. FatSize - 1 -> 0 .. EndOfChain]
  BY <1>2, <1>3, <1>4 DEF Fats
<1>6. /\ Link(f, c)[c] = n /\ Link(f, c)[n] = EndOfChain
      /\ \A i \in 0 .. FatSize - 1 : i \notin {c, n} => Link(f, c)[i] = f[i]
  BY <1>2, <1>4 DEF Fats
<1>7. 0 \in 0 .. FatSize - 1 /\ 1 \in 0 .. FatSize - 1 /\ 0 \notin Cluster /\ 1 \notin Cluster
  BY ClusterType DEF Cluster
<1>8. Link(f, c)[0] # 0 /\ Link(f, c)[1] # 0
  BY <1>1, <1>6, <1>7 DEF Fats
<1> QED BY <1>5, <1>6, <1>8 DEF n, Fats

(* The chain p with cluster n at its end.                                  *)
LEMMA LongerChain ==
  ASSUME NEW p \in Seq(Cluster), NEW n \in Cluster
  PROVE  /\ Append(p, n) \in Seq(Cluster)
         /\ Len(Append(p, n)) = Len(p) + 1
         /\ \A i \in 1 .. Len(p) : Append(p, n)[i] = p[i]
         /\ Append(p, n)[Len(p) + 1] = n
         /\ Append(p, n) # << >>
<1>1. Len(p) \in Nat
  BY LenProperties
<1>2. /\ Append(p, n) \in Seq(Cluster)
      /\ Len(Append(p, n)) = Len(p) + 1
      /\ \A i \in 1 .. Len(p) : Append(p, n)[i] = p[i]
      /\ Append(p, n)[Len(p) + 1] = n
  BY AppendProperties
<1> QED BY <1>1, <1>2, EmptySeq

(* A chain that grows stays apart from the others, and all is laid out.    *)
LEMMA LinkLaysOut ==
  ASSUME NEW ps, NEW f \in Fats, NEW r \in Seq(Entry), LaidOut(ps, f, r),
         NEW e \in 1 .. Len(r), Free(f) # {}
  PROVE  LaidOut([ps EXCEPT ![e] = Append(ps[e], FirstFree(f))],
                 Link(f, ps[e][Len(ps[e])]), r)
<1> DEFINE n == FirstFree(f)
           p == ps[e]
           last == p[Len(p)]
           g == Link(f, last)
           q == Append(p, n)
           qs == [ps EXCEPT ![e] = q]
<1>1. n \in Cluster /\ f[n] = 0
  BY FirstFreeIs
<1>2. /\ p \in Seq(Cluster) /\ Len(p) \in Nat \ {0}
      /\ \A i \in 1 .. Len(p) : p[i] \in Cluster /\ f[p[i]] \notin {0, EndMark}
  BY ChainFacts
<1>3. last \in Cluster /\ f[last] # 0
  BY <1>2
<1>4. /\ g[last] = n /\ g[n] = EndOfChain
      /\ \A i \in 0 .. FatSize - 1 : i \notin {last, n} => g[i] = f[i]
  BY <1>3, LinkIs
<1>5. /\ q \in Seq(Cluster) /\ Len(q) = Len(p) + 1
      /\ \A i \in 1 .. Len(p) : q[i] = p[i]
      /\ q[Len(p) + 1] = n /\ q # << >>
  BY <1>1, <1>2, LongerChain
<1>6. Len(r) \in Nat /\ ps \in Seq(Seq(Cluster)) /\ Len(ps) = Len(r)
  BY LenProperties DEF LaidOut
<1>7. /\ qs \in Seq(Seq(Cluster)) /\ Len(qs) = Len(r)
      /\ \A d \in 1 .. Len(r) : qs[d] = IF d = e THEN q ELSE ps[d]
  <2> HIDE DEF q
  <2> QED BY <1>5, <1>6, ExceptSeq
<1>8. \A d \in 1 .. Len(r) : \A i \in 1 .. Len(ps[d]) : ps[d][i] # n
  BY FreeApart
<1>9. \A d \in 1 .. Len(r) : Chained(ps[d], f, r[d]) /\ Len(ps[d]) \in Nat \ {0}
        /\ \A i \in 1 .. Len(ps[d]) : ps[d][i] \in Cluster
  BY ChainFacts DEF LaidOut
<1>10. \A d1, d2 \in 1 .. Len(r) :
         \A i \in 1 .. Len(ps[d1]), j \in 1 .. Len(ps[d2]) :
           ps[d1][i] = ps[d2][j] => d1 = d2 /\ i = j
  BY DEF LaidOut
<1> HIDE DEF n, g, q, qs
<1>11. ASSUME NEW d \in 1 .. Len(r) PROVE Chained(qs[d], g, r[d])
  <2>1. CASE d = e
    <3>1. q[1] = r[d].first
      BY <1>2, <1>5, <1>9, <2>1 DEF Chained
    <3>2. ASSUME NEW i \in 1 .. Len(q) - 1 PROVE g[q[i]] = q[i + 1]
      <4>1. i \in 1 .. Len(p)
        BY <1>2, <1>5
      <4>2. CASE i = Len(p)
        BY <1>4, <1>5, <4>1, <4>2
      <4>3. CASE i # Len(p)
        <5>1. i \in 1 .. Len(p) - 1 /\ i + 1 \in 1 .. Len(p)
          BY <1>2, <4>1, <4>3
        <5>2. f[p[i]] = p[i + 1]
          BY <1>9, <2>1, <5>1 DEF Chained
        <5>3. p[i] # last /\ p[i] # n /\ p[i] \in 0 .. FatSize - 1
          <6>1. Len(p) \in 1 .. Len(p)
            BY <1>2
          <6>2. ps[e][i] # ps[e][Len(ps[e])]
            BY <1>10, <4>1, <4>3, <6>1
          <6> QED BY <1>2, <1>8, <4>1, <6>2, ClusterType
        <5> QED BY <1>4, <1>5, <4>1, <5>1, <5>2, <5>3
      <4> QED BY <4>2, <4>3
    <3>3. g[q[Len(q)]] \in EndMark + 1 .. EndOfChain
      BY <1>4, <1>5, ClusterType DEF EndOfChain
    <3>4. r[d].size <= Len(q) * ClusterSize
      <4>1. r[d].size <= Len(p) * ClusterSize /\ r[d].size \in Nat
        BY <1>9, <2>1, ChainFacts DEF Chained, Entry
      <4>2. Len(q) * ClusterSize = Len(p) * ClusterSize + ClusterSize
        BY <1>2, <1>5, ClusterSizeType
      <4>3. Len(p) * ClusterSize \in Nat
        BY <1>2, ClusterSizeType
      <4> QED BY <4>1, <4>2, <4>3, ClusterSizeType
    <3> QED BY <1>5, <1>7, <2>1, <3>1, <3>2, <3>3, <3>4 DEF Chained
  <2>2. CASE d # e
    <3>1. \A i \in 1 .. Len(ps[d]) : ps[d][i] # last /\ ps[d][i] # n /\ ps[d][i] \in 0 .. FatSize - 1
      <4>1. Len(p) \in 1 .. Len(p)
        BY <1>2
      <4>2. \A i \in 1 .. Len(ps[d]) : ps[d][i] # ps[e][Len(ps[e])]
        BY <1>10, <2>2, <4>1
      <4> QED BY <1>8, <1>9, <4>2, ClusterType
    <3>2. \A i \in 1 .. Len(ps[d]) : g[ps[d][i]] = f[ps[d][i]]
      BY <1>4, <3>1
    <3>3. Len(ps[d]) \in 1 .. Len(ps[d]) /\ 1 .. Len(ps[d]) - 1 \subseteq 1 .. Len(ps[d])
      BY <1>9
    <3>4. Chained(ps[d], g, r[d])
      BY <1>9, <3>2, <3>3 DEF Chained
    <3> QED BY <1>7, <2>2, <3>4
  <2> QED BY <2>1, <2>2
<1>12. ASSUME NEW d1 \in 1 .. Len(r), NEW d2 \in 1 .. Len(r),
              NEW i \in 1 .. Len(qs[d1]), NEW j \in 1 .. Len(qs[d2]), qs[d1][i] = qs[d2][j]
       PROVE  d1 = d2 /\ i = j
  <2>1. d1 = e => \/ i = Len(p) + 1 /\ qs[d1][i] = n
                  \/ i \in 1 .. Len(p) /\ qs[d1][i] = p[i]
    <3> SUFFICES ASSUME d1 = e PROVE i = Len(p) + 1 \/ i \in 1 .. Len(p)
      BY <1>5, <1>7
    <3>1. i \in 1 .. Len(q)
      BY <1>7
    <3> QED BY <1>2, <1>5, <3>1
  <2>2. d2 = e => \/ j = Len(p) + 1 /\ qs[d2][j] = n
                  \/ j \in 1 .. Len(p) /\ qs[d2][j] = p[j]
    <3> SUFFICES ASSUME d2 = e PROVE j = Len(p) + 1 \/ j \in 1 .. Len(p)
      BY <1>5, <1>7
    <3>1. j \in 1 .. Len(q)
      BY <1>7
    <3> QED BY <1>2, <1>5, <3>1
  <2>3. d1 # e => i \in 1 .. Len(ps[d1]) /\ qs[d1][i] = ps[d1][i]
    BY <1>7
  <2>4. d2 # e => j \in 1 .. Len(ps[d2]) /\ qs[d2][j] = ps[d2][j]
    BY <1>7
  <2>5. CASE d1 = e /\ d2 = e
    BY <1>8, <1>10, <1>12, <2>1, <2>2, <2>5
  <2>6. CASE d1 = e /\ d2 # e
    BY <1>8, <1>10, <1>12, <2>1, <2>4, <2>6
  <2>7. CASE d1 # e /\ d2 = e
    BY <1>8, <1>10, <1>12, <2>2, <2>3, <2>7
  <2>8. CASE d1 # e /\ d2 # e
    BY <1>10, <1>12, <2>3, <2>4, <2>8
  <2> QED BY <2>5, <2>6, <2>7, <2>8
<1>13. ASSUME NEW c \in Cluster, g[c] \notin {0, EndMark}
       PROVE  \E d \in 1 .. Len(r) : \E i \in 1 .. Len(qs[d]) : qs[d][i] = c
  <2>1. CASE c = n
    <3>1. Len(p) + 1 \in 1 .. Len(qs[e]) /\ qs[e][Len(p) + 1] = n
      BY <1>2, <1>5, <1>7
    <3> QED BY <2>1, <3>1
  <2>2. CASE c # n
    <3>1. f[c] \notin {0, EndMark}
      BY <1>2, <1>4, <1>13, <2>2, ClusterType
    <3>2. PICK d \in 1 .. Len(r) : \E i \in 1 .. Len(ps[d]) : ps[d][i] = c
      BY <3>1 DEF LaidOut
    <3>3. PICK i \in 1 .. Len(ps[d]) : ps[d][i] = c
      BY <3>2
    <3>4. i \in 1 .. Len(qs[d]) /\ qs[d][i] = c
      BY <1>2, <1>5, <1>7, <3>3, SMTT(30)
    <3> QED BY <3>4
  <2> QED BY <2>1, <2>2
<1> QED BY <1>7, <1>11, <1>12, <1>13 DEF LaidOut, n, g, q, qs

(* The chain of a new file is the first free cluster.                      *)
LEMMA NewLaysOut ==
  ASSUME NEW ps, NEW f \in Fats, NEW r \in Seq(Entry), LaidOut(ps, f, r), Free(f) # {},
         NEW x \in Entry, x.first = FirstFree(f), x.size = 0
  PROVE  /\ [f EXCEPT ![FirstFree(f)] = EndOfChain] \in Fats
         /\ LaidOut(Append(ps, <<FirstFree(f)>>), [f EXCEPT ![FirstFree(f)] = EndOfChain],
                    Append(r, x))
<1> DEFINE n == FirstFree(f)
           g == [f EXCEPT ![n] = EndOfChain]
           qs == Append(ps, <<n>>)
           z == Append(r, x)
           new == Len(r) + 1
<1>1. n \in Cluster /\ f[n] = 0
  BY FirstFreeIs
<1>2. Len(r) \in Nat /\ ps \in Seq(Seq(Cluster)) /\ Len(ps) = Len(r)
  BY LenProperties DEF LaidOut
<1>3. \A d \in 1 .. Len(r) : \A i \in 1 .. Len(ps[d]) : ps[d][i] # n
  BY FreeApart
<1>4. \A d \in 1 .. Len(r) : Chained(ps[d], f, r[d]) /\ Len(ps[d]) \in Nat \ {0}
        /\ \A i \in 1 .. Len(ps[d]) : ps[d][i] \in Cluster
  <2>1. \A d \in 1 .. Len(r) : Chained(ps[d], f, r[d])
    BY DEF LaidOut
  <2> QED BY <2>1, ChainFacts
<1>5. \A d1, d2 \in 1 .. Len(r) :
        \A i \in 1 .. Len(ps[d1]), j \in 1 .. Len(ps[d2]) :
          ps[d1][i] = ps[d2][j] => d1 = d2 /\ i = j
  BY DEF LaidOut
<1>6. /\ z \in Seq(Entry) /\ Len(z) = new /\ z[new] = x
      /\ \A d \in 1 .. Len(r) : z[d] = r[d]
  BY <1>2, AppendProperties
<1>7. /\ <<n>> \in Seq(Cluster) /\ Len(<<n>>) = 1 /\ <<n>>[1] = n /\ <<n>> # << >>
  BY <1>1
<1>8. /\ qs \in Seq(Seq(Cluster)) /\ Len(qs) = new /\ qs[new] = <<n>>
      /\ \A d \in 1 .. Len(r) : qs[d] = ps[d]
  <2>1. \A w : w \in Seq(Cluster) =>
          /\ Append(ps, w) \in Seq(Seq(Cluster)) /\ Len(Append(ps, w)) = new
          /\ Append(ps, w)[new] = w
          /\ \A d \in 1 .. Len(r) : Append(ps, w)[d] = ps[d]
    BY <1>2, AppendProperties
  <2> QED BY <1>7, <2>1
<1>9. 0 \in 0 .. FatSize - 1 /\ 1 \in 0 .. FatSize - 1 /\ n # 0 /\ n # 1
  BY <1>1, ClusterType DEF Cluster
<1>10. n \in 0 .. FatSize - 1 /\ EndOfChain \in 0 .. EndOfChain
       /\ EndOfChain \in EndMark + 1 .. EndOfChain
  <2> HIDE DEF n
  <2> QED BY <1>1, ClusterType DEF EndOfChain
<1>11. /\ g \in [0 .. FatSize - 1 -> 0 .. EndOfChain] /\ g[n] = EndOfChain
       /\ \A i \in 0 .. FatSize - 1 : i # n => g[i] = f[i]
  <2> HIDE DEF n
  <2> QED BY <1>10 DEF Fats
<1>12. g \in Fats
  <2> HIDE DEF g, n
  <2> QED BY <1>9, <1>11 DEF Fats
<1> HIDE DEF n, g, qs, z
<1>13. new = Len(r) + 1 /\ new \in Nat
  BY <1>2
<1>14. ASSUME NEW d \in 1 .. new PROVE Chained(qs[d], g, z[d])
  <2>1. CASE d = new
    <3>1. Chained(<<n>>, g, x)
      BY <1>7, <1>10, <1>11, ClusterSizeType DEF Chained, n
    <3> QED BY <1>6, <1>8, <2>1, <3>1
  <2>2. CASE d # new
    <3>1. d \in 1 .. Len(r)
      BY <1>2, <2>2
    <3>2. \A i \in 1 .. Len(ps[d]) : ps[d][i] # n /\ ps[d][i] \in 0 .. FatSize - 1
      BY <1>3, <1>4, <3>1, ClusterType
    <3>3. \A i \in 1 .. Len(ps[d]) : g[ps[d][i]] = f[ps[d][i]]
      BY <1>11, <3>2
    <3>4. Len(ps[d]) \in 1 .. Len(ps[d]) /\ 1 .. Len(ps[d]) - 1 \subseteq 1 .. Len(ps[d])
      BY <1>4, <3>1
    <3>5. Chained(ps[d], g, r[d])
      <4>1. Chained(ps[d], f, r[d])
        BY <1>4, <3>1
      <4> QED BY <3>3, <3>4, <4>1 DEF Chained
    <3> QED BY <1>6, <1>8, <3>1, <3>5
  <2> QED BY <2>1, <2>2
<1>15. \A d \in 1 .. new : d = new \/ d \in 1 .. Len(r)
  BY <1>2
<1>16. ASSUME NEW d1 \in 1 .. new, NEW d2 \in 1 .. new,
              NEW i \in 1 .. Len(qs[d1]), NEW j \in 1 .. Len(qs[d2]), qs[d1][i] = qs[d2][j]
       PROVE  d1 = d2 /\ i = j
  <2>1. d1 = new => i = 1 /\ qs[d1][i] = n
    <3> SUFFICES ASSUME d1 = new PROVE i = 1
      BY <1>7, <1>8
    <3>1. i \in 1 .. 1
      BY <1>7, <1>8
    <3> QED BY <3>1
  <2>2. d2 = new => j = 1 /\ qs[d2][j] = n
    <3> SUFFICES ASSUME d2 = new PROVE j = 1
      BY <1>7, <1>8
    <3>1. j \in 1 .. 1
      BY <1>7, <1>8
    <3> QED BY <3>1
  <2>3. d1 # new => d1 \in 1 .. Len(r) /\ i \in 1 .. Len(ps[d1]) /\ qs[d1][i] = ps[d1][i]
    BY <1>8, <1>15
  <2>4. d2 # new => d2 \in 1 .. Len(r) /\ j \in 1 .. Len(ps[d2]) /\ qs[d2][j] = ps[d2][j]
    BY <1>8, <1>15
  <2> QED BY <1>3, <1>5, <1>16, <2>1, <2>2, <2>3, <2>4
<1>17. ASSUME NEW c \in Cluster, g[c] \notin {0, EndMark}
       PROVE  \E d \in 1 .. new : \E i \in 1 .. Len(qs[d]) : qs[d][i] = c
  <2>1. CASE c = n
    <3>1. new \in 1 .. new /\ 1 \in 1 .. Len(qs[new]) /\ qs[new][1] = n
      BY <1>2, <1>7, <1>8
    <3> QED BY <2>1, <3>1
  <2>2. CASE c # n
    <3>1. f[c] \notin {0, EndMark}
      BY <1>11, <1>17, <2>2, ClusterType
    <3>2. PICK d \in 1 .. Len(r) : \E i \in 1 .. Len(ps[d]) : ps[d][i] = c
      BY <3>1 DEF LaidOut
    <3>3. d \in 1 .. new
      BY <1>2
    <3> QED BY <1>8, <3>2, <3>3
  <2> QED BY <2>1, <2>2
<1>18. LaidOut(qs, g, z)
  <2> HIDE DEF new
  <2> QED BY <1>6, <1>8, <1>14, <1>16, <1>17 DEF LaidOut
<1> QED BY <1>12, <1>18 DEF n, g, qs, z

(* The directory with another size for entry e.                            *)
LEMMA ResizeIs ==
  ASSUME NEW r \in Seq(Entry), NEW e \in 1 .. Len(r), NEW s \in Nat
  PROVE  /\ [r EXCEPT ![e].size = s] \in Seq(Entry)
         /\ Len([r EXCEPT ![e].size = s]) = Len(r)
         /\ [r EXCEPT ![e].size = s][e].first = r[e].first
         /\ [r EXCEPT ![e].size = s][e].size = s
         /\ \A d \in 1 .. Len(r) : d # e => [r EXCEPT ![e].size = s][d] = r[d]
<1> DEFINE x == [r[e] EXCEPT !.size = s]
<1>1. r[e] \in Entry
  BY ElementOfSeq
<1>2. x \in Entry /\ x.first = r[e].first /\ x.size = s
  BY <1>1 DEF Entry
<1>3. [r EXCEPT ![e].size = s] = [r EXCEPT ![e] = x]
  OBVIOUS
<1> HIDE DEF x
<1>4. /\ [r EXCEPT ![e] = x] \in Seq(Entry) /\ Len([r EXCEPT ![e] = x]) = Len(r)
      /\ \A d \in 1 .. Len(r) : [r EXCEPT ![e] = x][d] = IF d = e THEN x ELSE r[d]
  BY <1>2, ExceptSeq
<1> QED BY <1>2, <1>3, <1>4

(* Setting the size of a file leaves the chains as they are.               *)
LEMMA ResizeLaysOut ==
  ASSUME NEW ps, NEW f \in Fats, NEW r \in Seq(Entry), LaidOut(ps, f, r),
         NEW e \in 1 .. Len(r), NEW s \in Nat, s <= Len(ps[e]) * ClusterSize
  PROVE  LaidOut(ps, f, [r EXCEPT ![e].size = s])
<1> DEFINE z == [r EXCEPT ![e].size = s]
<1>1. /\ Len(z) = Len(r) /\ z[e].first = r[e].first /\ z[e].size = s
      /\ \A d \in 1 .. Len(r) : d # e => z[d] = r[d]
  BY ResizeIs
<1> HIDE DEF z
<1>2. \A d \in 1 .. Len(r) : Chained(ps[d], f, r[d])
  BY DEF LaidOut
<1>3. \A d \in 1 .. Len(r) : Chained(ps[d], f, z[d])
  <2>1. Chained(ps[e], f, z[e])
    BY <1>1, <1>2 DEF Chained
  <2> QED BY <1>1, <1>2, <2>1
<1>4. LaidOut(ps, f, z)
  BY <1>1, <1>3, SMTT(30) DEF LaidOut
<1> QED BY <1>4 DEF z

-----------------------------------------------------------------------------
(* Following a chain                                                       *)

(* A chain is no longer than the FAT has clusters.                         *)
LEMMA ChainFits ==
  ASSUME NEW ps, NEW f \in Fats, NEW r \in Seq(Entry), LaidOut(ps, f, r),
         NEW e \in 1 .. Len(r)
  PROVE  /\ Len(ps[e]) < FatSize
         /\ Cardinality({ps[e][i] : i \in 1 .. Len(ps[e])}) = Len(ps[e])
<1> DEFINE p == ps[e]
           L == Len(p)
           R == {p[i] : i \in 1 .. L}
<1>1. /\ L \in Nat /\ \A i \in 1 .. L : p[i] \in Cluster
  BY ChainFacts
<1>2. \A i, j \in 1 .. L : p[i] = p[j] => i = j
  BY DEF LaidOut
<1> HIDE DEF p, L
<1>3. IsFiniteSet(1 .. L) /\ Cardinality(1 .. L) = L
  BY <1>1, FS_Interval
<1> DEFINE g == [i \in 1 .. L |-> p[i]]
<1>4. g \in Bijection(1 .. L, R)
  BY <1>2 DEF Bijection, Injection, Surjection, IsInjective
<1>5. ExistsBijection(1 .. L, R)
  BY <1>4 DEF ExistsBijection
<1>6. Cardinality(R) = L
  <2> HIDE DEF R
  <2> QED BY <1>3, <1>5, FS_Bijection
<1>7. R \in SUBSET Cluster
  BY <1>1
<1>8. IsFiniteSet(Cluster) /\ Cardinality(Cluster) < FatSize
  <2>1. FatSize - 1 \in Int /\ 2 \in Int /\ FatSize \in Nat \ {0, 1, 2}
    BY ClusterType
  <2> QED BY <2>1, FS_Interval DEF Cluster
<1>9. Cardinality(R) <= Cardinality(Cluster)
  BY <1>7, <1>8, FS_Subset
<1>10. Cardinality(Cluster) \in Nat
  BY <1>8, FS_CardinalityType
<1>11. L < FatSize
  BY <1>1, <1>6, <1>8, <1>9, <1>10, ClusterType
<1> QED BY <1>6, <1>11 DEF p, L

(* The function that Hops defines exists.                                  *)
LEMMA HopsDefined ==
  ASSUME NEW f \in Fats, NEW first \in 0 .. EndOfChain
  PROVE  /\ Hops(f, first)[0] = first
         /\ \A n \in 1 .. FatSize :
              Hops(f, first)[n] = IF Hops(f, first)[n - 1] \in Cluster
                                  THEN f[Hops(f, first)[n - 1]] ELSE Hops(f, first)[n - 1]
<1> DEFINE X == 0 .. EndOfChain
           last == FatSize
           Hop(v) == IF v \in Cluster THEN f[v] ELSE v
           step == [n \in 1 .. last |-> [v \in X |-> Hop(v)]]
           Is(g) == g = [n \in 0 .. last |->
                           IF n = 0 THEN first
                           ELSE IF g[n - 1] \in Cluster THEN f[g[n - 1]] ELSE g[n - 1]]
           hop == CHOOSE g : Is(g)
<1>1. last \in Nat
  BY ClusterType
<1>2. /\ \A n \in 1 .. last, v \in X : step[n][v] = Hop(v)
      /\ step \in [1 .. last -> [X -> X]]
  <2>1. \A v \in X : Hop(v) \in X
    BY ClusterType DEF Fats
  <2> HIDE DEF last, X, Hop
  <2> QED BY <2>1
<1> HIDE DEF last, step, X
<1>3. PICK g \in [0 .. last -> X] : IsLoop(g, first, step, last)
  BY <1>1, <1>2, IterationExists DEF X
<1>4. Is(g)
  <2>1. \A n \in 0 .. last : n # 0 => n \in 1 .. last /\ n - 1 \in 0 .. last
    BY <1>1
  <2>2. \A n \in 0 .. last : g[n] = IF n = 0 THEN first ELSE Hop(g[n - 1])
    BY <1>2, <1>3, <2>1 DEF IsLoop
  <2> QED BY <1>3, <2>2
<1>5. Is(hop)
  BY <1>4
<1>6. Hops(f, first) = hop
  BY DEF Hops, last
<1> HIDE DEF hop
<1>7. /\ hop[0] = first
      /\ \A n \in 1 .. last :
           hop[n] = IF hop[n - 1] \in Cluster THEN f[hop[n - 1]] ELSE hop[n - 1]
  BY <1>1, <1>5
<1> QED BY <1>6, <1>7 DEF last

(* Hop by hop, a chain is met from its first cluster to its end mark.      *)
LEMMA HopsAre ==
  ASSUME NEW ps, NEW f \in Fats, NEW r \in Seq(Entry), LaidOut(ps, f, r),
         NEW e \in 1 .. Len(r)
  PROVE  \A n \in 0 .. FatSize :
           Hops(f, r[e].first)[n] =
             IF n < Len(ps[e]) THEN ps[e][n + 1] ELSE f[ps[e][Len(ps[e])]]
<1> DEFINE p == ps[e]
           hop == Hops(f, r[e].first)
           end == f[p[Len(p)]]
           S == [n \in 0 .. FatSize |-> {IF n < Len(p) THEN p[n + 1] ELSE end}]
<1>1. /\ p \in Seq(Cluster) /\ Len(p) \in Nat \ {0}
      /\ \A i \in 1 .. Len(p) : p[i] \in Cluster
      /\ end > EndMark
  BY ChainFacts
<1>2. p[1] = r[e].first /\ \A i \in 1 .. Len(p) - 1 : f[p[i]] = p[i + 1]
  BY DEF LaidOut, Chained
<1>3. end \in Nat /\ end \notin Cluster
  <2>1. Len(p) \in 1 .. Len(p)
    BY <1>1
  <2>2. p[Len(p)] \in 0 .. FatSize - 1
    BY <1>1, <2>1, ClusterType
  <2>3. end \in Nat
    BY <2>2 DEF Fats
  <2>4. \A c \in Cluster : c \in Nat /\ ~ (c > EndMark)
    BY ClusterType
  <2> QED BY <1>1, <2>3, <2>4
<1>4. r[e].first \in 0 .. EndOfChain /\ FatSize \in Nat \ {0, 1, 2}
  <2>1. r[e].first \in 0 .. FatSize - 1
    BY ChainFacts DEF Entry
  <2> QED BY <2>1, ClusterType DEF EndOfChain
<1>5. /\ hop[0] = r[e].first
      /\ \A n \in 1 .. FatSize :
           hop[n] = IF hop[n - 1] \in Cluster THEN f[hop[n - 1]] ELSE hop[n - 1]
  BY <1>4, HopsDefined
<1> HIDE DEF hop, p, end
<1>6. hop[0] \in S[0]
  BY <1>1, <1>2, <1>4, <1>5
<1>7. ASSUME NEW n \in 1 .. FatSize, hop[n - 1] \in S[n - 1] PROVE hop[n] \in S[n]
  <2>1. n - 1 \in 0 .. FatSize /\ n \in 0 .. FatSize
    BY <1>4
  <2>2. hop[n - 1] = IF n - 1 < Len(p) THEN p[n - 1 + 1] ELSE end
    BY <1>7, <2>1
  <2>3. CASE n < Len(p)
    <3>1. hop[n - 1] = p[n] /\ n \in 1 .. Len(p) /\ n \in 1 .. Len(p) - 1
      BY <1>1, <2>2, <2>3
    <3>2. hop[n] = p[n + 1]
      BY <1>1, <1>2, <1>5, <3>1
    <3> QED BY <2>1, <2>3, <3>2
  <2>4. CASE n = Len(p)
    <3>1. hop[n - 1] = p[n] /\ n \in 1 .. Len(p)
      BY <1>1, <2>2, <2>4
    <3>2. hop[n] = end
      BY <1>1, <1>5, <2>4, <3>1 DEF end
    <3> QED BY <2>1, <2>4, <3>2
  <2>5. CASE n > Len(p)
    <3>1. hop[n - 1] = end
      BY <1>1, <2>2, <2>5
    <3>2. hop[n] = end
      BY <1>3, <1>5, <3>1
    <3> QED BY <1>1, <2>1, <2>5, <3>2
  <2> QED BY <1>1, <2>3, <2>4, <2>5
<1>8. \A n \in 0 .. FatSize : hop[n] \in S[n]
  <2>1. \A n \in 1 .. FatSize : hop[n - 1] \in S[n - 1] => hop[n] \in S[n]
    BY <1>7
  <2> HIDE DEF S
  <2> QED BY <1>4, <1>6, <2>1, IterationStays
<1> QED BY <1>8 DEF hop, p, end

(* FatSearch along a chain.                                                *)
LEMMA FatSearchIs ==
  ASSUME NEW ps, NEW f \in Fats, NEW r \in Seq(Entry), LaidOut(ps, f, r),
         NEW e \in 1 .. Len(r), NEW hops \in 0 .. Len(ps[e])
  PROVE  FatSearch(f, r[e].first, hops) =
           IF hops < Len(ps[e]) THEN ps[e][hops + 1] ELSE f[ps[e][Len(ps[e])]]
<1> DEFINE p == ps[e]
           first == r[e].first
           end == f[p[Len(p)]]
           X == {p[i] : i \in 1 .. Len(p)} \union EndMark .. EndOfChain
           Over(v) == v = 0 \/ v >= EndMark
           Hop(v) == IF Over(v) THEN EndOfChain ELSE f[v]
           step == [n \in 1 .. hops |-> [v \in X |-> Hop(v)]]
           Is(g) == g = [n \in 0 .. hops |->
                           IF n = 0 THEN first
                           ELSE IF g[n - 1] = 0 \/ g[n - 1] >= EndMark THEN EndOfChain
                           ELSE f[g[n - 1]]]
           hop == CHOOSE g : Is(g)
           S == [n \in 0 .. hops |-> {IF n < Len(p) THEN p[n + 1] ELSE end}]
<1>1. /\ p \in Seq(Cluster) /\ Len(p) \in Nat \ {0}
      /\ \A i \in 1 .. Len(p) : p[i] \in Cluster
  BY ChainFacts
<1>2. /\ p[1] = first /\ \A i \in 1 .. Len(p) - 1 : f[p[i]] = p[i + 1]
      /\ end \in EndMark + 1 .. EndOfChain
  BY DEF LaidOut, Chained
<1>3. hops \in Nat /\ hops <= Len(p)
  BY <1>1
<1>4. EndMark \in Nat /\ EndOfChain \in Nat /\ EndOfChain \in EndMark .. EndOfChain
  BY ClusterType DEF EndOfChain
<1>5. \A c \in Cluster : ~ Over(c)
  BY ClusterType
<1> HIDE DEF p, first, end
<1>6. \A v \in X : Hop(v) \in X
  <2>1. ASSUME NEW i \in 1 .. Len(p) PROVE Hop(p[i]) \in X
    <3>1. Hop(p[i]) = f[p[i]]
      BY <1>1, <1>5
    <3>2. CASE i = Len(p)
      BY <1>2, <1>4, <3>1, <3>2 DEF end
    <3>3. CASE i # Len(p)
      <4>1. i \in 1 .. Len(p) - 1 /\ i + 1 \in 1 .. Len(p)
        BY <1>1, <3>3
      <4> QED BY <1>2, <3>1, <4>1
    <3> QED BY <3>2, <3>3
  <2>2. \A v \in EndMark .. EndOfChain : Hop(v) \in X
    BY <1>4
  <2> QED BY <2>1, <2>2
<1>7. first \in X
  <2>1. 1 \in 1 .. Len(p)
    BY <1>1
  <2> QED BY <1>2, <2>1
<1>8. /\ \A n \in 1 .. hops, v \in X : step[n][v] = Hop(v)
      /\ step \in [1 .. hops -> [X -> X]]
  <2> HIDE DEF X, Hop
  <2> QED BY <1>6
<1> HIDE DEF step, X
<1>9. PICK g \in [0 .. hops -> X] : IsLoop(g, first, step, hops)
  BY <1>3, <1>7, <1>8, IterationExists
<1>10. Is(g)
  <2>1. \A n \in 0 .. hops : n # 0 => n \in 1 .. hops /\ n - 1 \in 0 .. hops
    BY <1>3
  <2>2. \A n \in 0 .. hops : g[n] = IF n = 0 THEN first ELSE Hop(g[n - 1])
    BY <1>8, <1>9, <2>1 DEF IsLoop
  <2> QED BY <1>9, <2>2
<1>11. Is(hop)
  BY <1>10
<1>12. FatSearch(f, first, hops) = hop[hops]
  BY DEF FatSearch, first
<1> HIDE DEF hop
<1>13. hop[0] = first /\ \A n \in 1 .. hops : hop[n] = Hop(hop[n - 1])
  BY <1>3, <1>11
<1>14. hop[0] \in S[0]
  BY <1>1, <1>2, <1>3, <1>13
<1>15. ASSUME NEW n \in 1 .. hops, hop[n - 1] \in S[n - 1] PROVE hop[n] \in S[n]
  <2>1. n - 1 \in 0 .. hops /\ n \in 0 .. hops /\ n \in 1 .. Len(p) /\ n - 1 < Len(p)
    BY <1>1, <1>3
  <2>2. hop[n - 1] = p[n]
    BY <1>15, <2>1
  <2>3. hop[n] = f[p[n]]
    BY <1>1, <1>5, <1>13, <2>1, <2>2
  <2>4. CASE n < Len(p)
    <3>1. n \in 1 .. Len(p) - 1
      BY <1>1, <2>1, <2>4
    <3> QED BY <1>2, <2>1, <2>3, <2>4, <3>1
  <2>5. CASE n = Len(p)
    BY <1>1, <2>1, <2>3, <2>5 DEF end
  <2> QED BY <1>1, <2>1, <2>4, <2>5
<1>16. hop[hops] \in S[hops]
  <2>1. \A n \in 1 .. hops : hop[n - 1] \in S[n - 1] => hop[n] \in S[n]
    BY <1>15
  <2>2. hops \in 0 .. hops
    BY <1>3
  <2> HIDE DEF S
  <2> QED BY <1>3, <1>14, <2>1, <2>2, IterationStays
<1>17. hop[hops] = IF hops < Len(p) THEN p[hops + 1] ELSE end
  BY <1>3, <1>16
<1> QED BY <1>12, <1>17 DEF first, p, end

(* The entries met from first on, and the clusters of a path.              *)
Met(f, first) == {Hops(f, first)[n] : n \in 0 .. FatSize}
On(p) == {p[i] : i \in 1 .. Len(p)}

(* What is met from the first cluster of a file on: its chain and the end  *)
(* mark.                                                                   *)
LEMMA ChainIs ==
  ASSUME NEW ps, NEW f \in Fats, NEW r \in Seq(Entry), LaidOut(ps, f, r),
         NEW e \in 1 .. Len(r)
  PROVE  Met(f, r[e].first) = On(ps[e]) \union {f[ps[e][Len(ps[e])]]}
<1> DEFINE p == ps[e]
           L == Len(p)
           end == f[p[L]]
           hop == Hops(f, r[e].first)
<1>1. L \in Nat \ {0} /\ L < FatSize /\ FatSize \in Nat
  BY ChainFacts, ChainFits, ClusterType
<1>2. \A n \in 0 .. FatSize : hop[n] = IF n < L THEN p[n + 1] ELSE end
  BY HopsAre
<1> HIDE DEF p, L, end, hop
<1>3. ASSUME NEW n \in 0 .. FatSize PROVE hop[n] \in {p[i] : i \in 1 .. L} \union {end}
  <2>1. n < L => n + 1 \in 1 .. L
    BY <1>1
  <2> QED BY <1>2, <2>1
<1>4. ASSUME NEW i \in 1 .. L PROVE p[i] \in {hop[n] : n \in 0 .. FatSize}
  <2>1. i - 1 \in 0 .. FatSize /\ i - 1 < L /\ (i - 1) + 1 = i
    BY <1>1
  <2>2. hop[i - 1] = p[i]
    BY <1>2, <2>1
  <2> QED BY <2>1, <2>2
<1>5. end \in {hop[n] : n \in 0 .. FatSize}
  <2>1. L \in 0 .. FatSize /\ ~ (L < L)
    BY <1>1
  <2>2. hop[L] = end
    BY <1>2, <2>1
  <2> QED BY <2>1, <2>2
<1>6. {hop[n] : n \in 0 .. FatSize} = {p[i] : i \in 1 .. L} \union {end}
  BY <1>3, <1>4, <1>5
<1> QED BY <1>6 DEF p, L, end, hop, Met, On

(* Chains that are laid out are sound.                                     *)
LEMMA LaidOutSound ==
  ASSUME NEW ps, fat \in Fats, root \in Seq(Entry), LaidOut(ps, fat, root)
  PROVE  ChainsSound
<1>1. \A e \in 1 .. Len(root) :
        Met(fat, root[e].first) = On(ps[e]) \union {fat[ps[e][Len(ps[e])]]}
  BY ChainIs
<1> DEFINE In(e) == On(ps[e])
           end(e) == fat[ps[e][Len(ps[e])]]
<1>2. ASSUME NEW e \in 1 .. Len(root)
      PROVE  /\ Chain(root[e].first) = In(e) \union {end(e)}
             /\ In(e) \subseteq Cluster
             /\ end(e) \in EndMark + 1 .. EndOfChain /\ end(e) \notin Cluster
             /\ Cardinality(In(e)) = Len(ps[e])
             /\ root[e].size <= Len(ps[e]) * ClusterSize
  <2>1. Chain(root[e].first) = In(e) \union {end(e)}
    <3>1. Met(fat, root[e].first) = On(ps[e]) \union {fat[ps[e][Len(ps[e])]]}
      BY <1>1
    <3>2. Chain(root[e].first) = Met(fat, root[e].first)
      BY DEF Chain, Met
    <3> QED BY <3>1, <3>2 DEF In
  <2>2. In(e) \subseteq Cluster
    BY ChainFacts DEF On
  <2>3. end(e) \in EndMark + 1 .. EndOfChain /\ root[e].size <= Len(ps[e]) * ClusterSize
    BY DEF LaidOut, Chained
  <2>4. end(e) \notin Cluster
    <3>1. \A c \in Cluster : c \in Nat /\ c < EndMark /\ EndMark \in Nat
      BY ClusterType
    <3> HIDE DEF end
    <3> QED BY <2>3, <3>1
  <2>5. Cardinality(In(e)) = Len(ps[e])
    BY ChainFits DEF On
  <2> QED BY <2>1, <2>2, <2>3, <2>4, <2>5
<1> HIDE DEF In, end
<1>3. \A e \in 1 .. Len(root) : Clusters(e) = In(e)
  BY <1>2 DEF Clusters
<1>4. EndMark \in Nat /\ EndMark + 1 .. EndOfChain \subseteq EndMark .. EndOfChain
  BY ClusterType DEF EndOfChain
<1>5. ASSUME NEW e \in 1 .. Len(root)
      PROVE  /\ \E i \in Chain(root[e].first) : i >= EndMark
             /\ Chain(root[e].first) \subseteq Cluster \union EndMark .. EndOfChain
             /\ root[e].size <= Cardinality(Clusters(e)) * ClusterSize
  <2>1. end(e) >= EndMark
    BY <1>2, <1>4
  <2> QED BY <1>2, <1>3, <1>4, <2>1
<1>6. ASSUME NEW e1 \in 1 .. Len(root), NEW e2 \in 1 .. Len(root), e1 # e2
      PROVE  Clusters(e1) \intersect Clusters(e2) = {}
  <2>1. \A i \in 1 .. Len(ps[e1]), j \in 1 .. Len(ps[e2]) : ps[e1][i] # ps[e2][j]
    BY <1>6 DEF LaidOut
  <2> QED BY <1>3, <2>1 DEF In, On
<1>7. ASSUME NEW c \in Cluster
      PROVE  fat[c] \notin {0, EndMark} <=> \E e \in 1 .. Len(root) : c \in Clusters(e)
  <2>1. ASSUME fat[c] \notin {0, EndMark} PROVE \E e \in 1 .. Len(root) : c \in Clusters(e)
    <3>1. \E e \in 1 .. Len(root) : \E i \in 1 .. Len(ps[e]) : ps[e][i] = c
      BY <2>1 DEF LaidOut
    <3> QED BY <1>3, <3>1 DEF In, On
  <2>2. ASSUME NEW e \in 1 .. Len(root), c \in Clusters(e) PROVE fat[c] \notin {0, EndMark}
    <3>1. PICK i \in 1 .. Len(ps[e]) : ps[e][i] = c
      BY <1>3, <2>2 DEF In, On
    <3> QED BY <3>1, ChainFacts
  <2> QED BY <2>1, <2>2
<1>8. \A e \in 1 .. Len(root) : Clusters(e) \subseteq Cluster
  BY <1>2, <1>3
<1>9. {c \in Cluster : fat[c] \notin {0, EndMark}} = UNION {Clusters(e) : e \in 1 .. Len(root)}
  BY <1>7, <1>8
<1> QED BY <1>5, <1>6, <1>9 DEF ChainsSound

-----------------------------------------------------------------------------
(* What is in the clusters                                                 *)

(* What is in a cluster, and in all of them.                               *)
Block == [1 .. ClusterSize -> Byte]
Contents == [Cluster -> Block]

Holding(ca, data) == [c \in Cluster |-> Bytes(ca, data, c)]

(* What is in the sectors of the disk.                                     *)
Sectored == [Sectors -> [1 .. SectorSize -> Byte]]

(* A cluster's sectors.                                                    *)
LEMMA SectorsOf ==
  ASSUME NEW c \in Cluster, NEW i \in 1 .. ClusterSize
  PROVE  /\ (i - 1) \div SectorSize \in 0 .. SectorsPerCluster - 1
         /\ ((i - 1) % SectorSize) + 1 \in 1 .. SectorSize
         /\ c * SectorsPerCluster + (i - 1) \div SectorSize \in Sectors
         /\ i = ((i - 1) \div SectorSize) * SectorSize + (((i - 1) % SectorSize) + 1)
<1> DEFINE k == (i - 1) \div SectorSize
           m == (i - 1) % SectorSize
<1>1. SectorSize \in Nat \ {0} /\ SectorsPerCluster \in Nat \ {0}
  BY FileAssumption
<1>2. i \in Nat \ {0} /\ i <= SectorSize * SectorsPerCluster
  BY ClusterSizeType DEF ClusterSize
<1>3. k \in Nat /\ m \in 0 .. SectorSize - 1 /\ i - 1 = k * SectorSize + m
  <2>1. i - 1 \in Nat
    BY <1>2
  <2> QED BY <1>1, <2>1, DivMod
<1> HIDE DEF k, m
<1>4. k * SectorSize \in Nat /\ SectorsPerCluster * SectorSize \in Nat
      /\ SectorSize * SectorsPerCluster = SectorsPerCluster * SectorSize
  BY <1>1, <1>3
<1>5. ~ (SectorsPerCluster <= k)
  <2>1. CASE k = SectorsPerCluster
    BY <1>2, <1>3, <1>4, <2>1
  <2>2. CASE SectorsPerCluster < k
    <3>1. SectorsPerCluster * SectorSize + SectorSize <= k * SectorSize
      BY <1>1, <1>3, <2>2, NextBlock
    <3> QED BY <1>1, <1>2, <1>3, <1>4, <3>1
  <2> QED BY <1>1, <1>3, <2>1, <2>2
<1>6. k \in 0 .. SectorsPerCluster - 1 /\ m + 1 \in 1 .. SectorSize
  BY <1>1, <1>3, <1>5
<1>7. i = k * SectorSize + (m + 1)
  BY <1>2, <1>3, <1>4
<1>8. c \in Int /\ 2 <= c /\ c <= FatSize - 1 /\ FatSize \in Int
  BY ClusterType DEF Cluster
<1>9. /\ 2 * SectorsPerCluster <= c * SectorsPerCluster
      /\ c * SectorsPerCluster + SectorsPerCluster <= FatSize * SectorsPerCluster
      /\ c * SectorsPerCluster \in Int /\ FatSize * SectorsPerCluster \in Int
  <2>1. c < FatSize
    BY <1>8
  <2>2. c * SectorsPerCluster + SectorsPerCluster <= FatSize * SectorsPerCluster
    BY <1>1, <1>8, <2>1, NextBlock
  <2>3. 2 * SectorsPerCluster <= c * SectorsPerCluster
    <3>1. CASE c = 2
      BY <1>1, <3>1
    <3>2. CASE 2 < c
      <4>1. 2 * SectorsPerCluster + SectorsPerCluster <= c * SectorsPerCluster
        BY <1>1, <1>8, <3>2, NextBlock
      <4>2. c * SectorsPerCluster \in Int
        BY <1>1, <1>8
      <4> QED BY <1>1, <4>1, <4>2
    <3> QED BY <1>8, <3>1, <3>2
  <2> QED BY <1>1, <1>8, <2>2, <2>3
<1>10. c * SectorsPerCluster + k \in Sectors
  BY <1>1, <1>6, <1>9 DEF Sectors
<1> QED BY <1>6, <1>7, <1>10 DEF k, m

(* A cluster is read from the disk whole.                                  *)
LEMMA OnDiskType ==
  ASSUME NEW data \in Sectored, NEW c \in Cluster
  PROVE  OnDisk(data, c) \in Block
<1>1. \A s \in Sectors : \A j \in 1 .. SectorSize : data[s][j] \in Byte
  BY DEF Sectored
<1>2. ASSUME NEW i \in 1 .. ClusterSize
      PROVE  data[c * SectorsPerCluster + (i - 1) \div SectorSize]
                 [((i - 1) % SectorSize) + 1] \in Byte
  BY <1>1, SectorsOf
<1> QED BY <1>2 DEF OnDisk, Block

(* Clusters that are cached.                                               *)
Cached(ca) == DOMAIN ca \subseteq Cluster /\ ca \in [DOMAIN ca -> Block]

(* A cached cluster counts as it is cached, any other as it is on the      *)
(* disk.                                                                   *)
LEMMA HoldingType ==
  ASSUME NEW ca, Cached(ca), NEW data \in Sectored
  PROVE  /\ Holding(ca, data) \in Contents
         /\ \A c \in Cluster : Holding(ca, data)[c] = IF c \in DOMAIN ca THEN ca[c]
                                                      ELSE OnDisk(data, c)
  BY OnDiskType DEF Holding, Contents, Bytes, Cached, Block

(* The chain p of clusters with the contents b holds the bytes of t.       *)
Filed(p, b, t) ==
  \A k \in 0 .. Len(p) - 1, i \in 1 .. ClusterSize :
    k * ClusterSize + i <= Len(t) => b[p[k + 1]][i] = t[k * ClusterSize + i]

(* A file is found as it is filed.                                         *)
LEMMA StoredIs ==
  ASSUME NEW ps, NEW f \in Fats, NEW r \in Seq(Entry), LaidOut(ps, f, r),
         NEW e \in 1 .. Len(r), NEW ca, Cached(ca), NEW data \in Sectored,
         NEW t \in Seq(Byte), r[e].size = Len(t), Filed(ps[e], Holding(ca, data), t)
  PROVE  Stored(f, ca, data, r[e]) = t
<1> DEFINE p == ps[e]
           w == Stored(f, ca, data, r[e])
           hop == Hops(f, r[e].first)
<1>1. /\ Len(p) \in Nat /\ Len(p) < FatSize /\ FatSize \in Nat
      /\ \A i \in 1 .. Len(p) : p[i] \in Cluster
      /\ Len(t) <= Len(p) * ClusterSize
  <2>1. Len(t) <= Len(p) * ClusterSize
    BY DEF LaidOut, Chained
  <2> QED BY <2>1, ChainFacts, ChainFits, ClusterType
<1>2. Len(t) \in Nat /\ t \in [1 .. Len(t) -> Byte]
  BY LenProperties
<1>3. \A n \in 0 .. FatSize : n < Len(p) => hop[n] = p[n + 1]
  BY HopsAre
<1>4. w = [i \in 1 .. Len(t) |->
             Bytes(ca, data, hop[(i - 1) \div ClusterSize])[((i - 1) % ClusterSize) + 1]]
  BY DEF Stored
<1> HIDE DEF p, w, hop
<1>5. ASSUME NEW i \in 1 .. Len(t)
      PROVE  Bytes(ca, data, hop[(i - 1) \div ClusterSize])[((i - 1) % ClusterSize) + 1] = t[i]
  <2> DEFINE k == (i - 1) \div ClusterSize
             m == ((i - 1) % ClusterSize) + 1
  <2>1. i \in 1 .. Len(p) * ClusterSize
    BY <1>1, <1>2, ClusterSizeType
  <2>2. k \in 0 .. Len(p) - 1 /\ m \in 1 .. ClusterSize /\ i = k * ClusterSize + m
    BY <1>1, <2>1, InBlock
  <2> HIDE DEF k, m
  <2>3. k \in 0 .. FatSize /\ k < Len(p) /\ k + 1 \in 1 .. Len(p)
    BY <1>1, <2>2
  <2>4. hop[k] = p[k + 1] /\ p[k + 1] \in Cluster
    BY <1>1, <1>3, <2>3
  <2>5. Holding(ca, data)[p[k + 1]][m] = t[i]
    <3>1. i <= Len(t)
      BY <1>2
    <3> QED BY <2>2, <3>1 DEF Filed, p
  <2>6. Holding(ca, data)[p[k + 1]] = Bytes(ca, data, p[k + 1])
    BY <2>4 DEF Holding
  <2> QED BY <2>4, <2>5, <2>6 DEF k, m
<1>6. w = [i \in 1 .. Len(t) |-> t[i]]
  BY <1>4, <1>5
<1> QED BY <1>2, <1>6 DEF w

-----------------------------------------------------------------------------
(* Copying                                                                 *)

(* What a thread knows of the call it is in.                               *)
Calls ==
  [ at : {"user", "lock", "seek", "read", "unlocked", "wild", "freed"},
    op : {"none", "read", "write"}, fd : Nat, size : Nat, cluster : Nat,
    offset : Nat, left : Nat, done : Seq(Byte), byte : Byte \union {0},
    buffer : Seq(Byte) ]

(* The states of the loop while the clusters in D are cached.              *)
CopyStates(D) ==
  [ c : Calls, ptr : Nat, fat : Fats, cache : [D -> Block],
    next : {"more", "miss", "wild", "done"} ]

(* What is in the cluster of the call after n bytes have been copied.      *)
Copied(x, n) ==
  [i \in 1 .. ClusterSize |->
     IF x.c.op = "write" /\ x.c.offset < i /\ i <= x.c.offset + n
     THEN x.c.byte ELSE x.cache[x.c.cluster][i]]

(* A copy of n bytes within a cluster.                                     *)
LEMMA CopiedIs ==
  ASSUME NEW D \in SUBSET Cluster, NEW x \in CopyStates(D), x.c.cluster \in D,
         x.c.op \in {"read", "write"}, x.c.op = "write" => x.c.byte \in Byte,
         NEW n \in Nat, x.c.offset + n <= ClusterSize
  PROVE  /\ Copied(x, n) \in Block
         /\ SubSeq(Copied(x, n), x.c.offset + 1, x.c.offset + n) \in Seq(Byte)
         /\ Len(SubSeq(Copied(x, n), x.c.offset + 1, x.c.offset + n)) = n
         /\ \A i \in 1 .. n :
              SubSeq(Copied(x, n), x.c.offset + 1, x.c.offset + n)[i] =
                Copied(x, n)[x.c.offset + i]
<1> DEFINE new == Copied(x, n)
           o == x.c.offset
<1>1. /\ o \in Nat /\ x.cache \in [D -> Block] /\ ClusterSize \in Nat
  BY ClusterSizeType DEF CopyStates, Calls
<1>2. x.cache[x.c.cluster] \in Block
  BY <1>1
<1>3. new \in Block
  BY <1>2 DEF Copied, Block
<1> HIDE DEF new, o
<1>4. \A i \in o + 1 .. o + n : new[i] \in Byte
  BY <1>1, <1>3 DEF Block, o
<1>5. o + 1 \in Int /\ o + n \in Int
  BY <1>1
<1>6. /\ SubSeq(new, o + 1, o + n) \in Seq(Byte)
      /\ Len(SubSeq(new, o + 1, o + n)) = (IF o + 1 <= o + n THEN (o + n) - (o + 1) + 1 ELSE 0)
      /\ \A i \in 1 .. (o + n) - (o + 1) + 1 : SubSeq(new, o + 1, o + n)[i] = new[(o + 1) + i - 1]
  BY <1>4, <1>5, SubSeqProperties
<1>7. Len(SubSeq(new, o + 1, o + n)) = n
  BY <1>1, <1>6
<1>8. \A i \in 1 .. n : SubSeq(new, o + 1, o + n)[i] = new[o + i]
  <2>1. \A i \in 1 .. n : i \in 1 .. (o + n) - (o + 1) + 1 /\ (o + 1) + i - 1 = o + i
    BY <1>1
  <2> QED BY <1>6, <2>1
<1> QED BY <1>3, <1>6, <1>7, <1>8 DEF new, o

(* The state y is x after n bytes have been copied.                        *)
CopiedTo(D, x, n, y) ==
  /\ y \in CopyStates(D)
  /\ y.fat = x.fat /\ y.next = x.next /\ y.ptr = x.ptr + n
  /\ y.cache = [x.cache EXCEPT ![x.c.cluster] = Copied(x, n)]
  /\ y.c = [x.c EXCEPT !.left = x.c.left - n, !.offset = x.c.offset + n,
              !.done = x.c.done \o SubSeq(Copied(x, n), x.c.offset + 1, x.c.offset + n)]

(* CopyBytes moves n bytes between the cached cluster and the call.        *)
LEMMA CopyBytesIs ==
  ASSUME NEW D \in SUBSET Cluster, NEW x \in CopyStates(D), x.c.cluster \in D,
         x.c.op \in {"read", "write"}, x.c.op = "write" => x.c.byte \in Byte,
         NEW n \in 0 .. x.c.left, x.c.offset + n <= ClusterSize
  PROVE  CopiedTo(D, x, n, CopyBytes(x, n))
<1> DEFINE new == Copied(x, n)
           more == SubSeq(new, x.c.offset + 1, x.c.offset + n)
           y == CopyBytes(x, n)
<1>1. /\ x.c \in Calls /\ x.ptr \in Nat /\ x.cache \in [D -> Block]
      /\ x.c.left \in Nat /\ x.c.offset \in Nat /\ x.c.done \in Seq(Byte) /\ n \in Nat
  BY DEF CopyStates, Calls
<1>2. new \in Block /\ more \in Seq(Byte)
  BY <1>1, CopiedIs
<1>3. y = [x EXCEPT !.cache[x.c.cluster] = new, !.ptr = @ + n, !.c.left = @ - n,
                    !.c.offset = @ + n, !.c.done = @ \o more]
  <2>1. new = IF x.c.op = "read" THEN x.cache[x.c.cluster]
              ELSE [i \in 1 .. ClusterSize |->
                      IF x.c.offset < i /\ i <= x.c.offset + n
                      THEN x.c.byte ELSE x.cache[x.c.cluster][i]]
    <3>1. x.cache[x.c.cluster] \in [1 .. ClusterSize -> Byte]
      BY <1>1 DEF Block
    <3> QED BY <3>1 DEF Copied
  <2> QED BY <2>1 DEF CopyBytes
<1> HIDE DEF new, more
<1>4. /\ y.fat = x.fat /\ y.next = x.next /\ y.ptr = x.ptr + n
      /\ y.cache = [x.cache EXCEPT ![x.c.cluster] = new]
      /\ y.c = [x.c EXCEPT !.left = x.c.left - n, !.offset = x.c.offset + n,
                           !.done = x.c.done \o more]
  BY <1>3 DEF CopyStates, Calls
<1>5. y.c \in Calls
  <2>1. x.c.done \o more \in Seq(Byte)
    BY <1>1, <1>2, ConcatProperties
  <2>2. x.c.left - n \in Nat /\ x.c.offset + n \in Nat
    BY <1>1
  <2> QED BY <1>1, <1>4, <2>1, <2>2 DEF Calls
<1>6. y.cache \in [D -> Block]
  BY <1>1, <1>2, <1>4
<1>7. x.ptr + n \in Nat /\ x.fat \in Fats /\ x.next \in {"more", "miss", "wild", "done"}
  BY <1>1 DEF CopyStates
<1>8. y \in CopyStates(D)
  BY <1>3, <1>4, <1>5, <1>6, <1>7 DEF CopyStates
<1> QED BY <1>4, <1>8 DEF CopiedTo, new, more

(* The bytes from position start + 1 to ptr have been written by call c;   *)
(* the others of t are as they were.                                       *)
Written(c, ptr, n) == c.op = "write" /\ ptr - Len(c.done) < n /\ n <= ptr

Mixed(q, b, c, ptr, t) ==
  \A k \in 0 .. Len(q) - 1, i \in 1 .. ClusterSize :
    /\ Written(c, ptr, k * ClusterSize + i) =>
         b[q[k + 1]][i] = c.done[(k * ClusterSize + i) - (ptr - Len(c.done))]
    /\ ~ Written(c, ptr, k * ClusterSize + i) /\ k * ClusterSize + i <= Len(t) =>
         b[q[k + 1]][i] = t[k * ClusterSize + i]

(* The call c is under way on the file with chain q and bytes t.           *)
Under(q, b, c, ptr, t) ==
  /\ c.op \in {"read", "write"} /\ c.size = Len(t) /\ c.offset <= ClusterSize
  /\ c.op = "write" => c.byte \in Byte
  /\ Len(c.done) <= ptr /\ ptr - Len(c.done) <= Len(t)
  /\ ptr <= Len(q) * ClusterSize
  /\ c.op = "read" =>
       /\ ptr <= Len(t)
       /\ \A j \in 1 .. Len(c.done) : c.done[j] = t[ptr - Len(c.done) + j]
  /\ Mixed(q, b, c, ptr, t)

(* Positions of one cluster.                                               *)
LEMMA SameBlock ==
  ASSUME NEW k \in Nat, NEW l \in Nat, NEW o \in Nat, NEW n \in Nat, NEW i \in 1 .. ClusterSize,
         o + n <= ClusterSize,
         k * ClusterSize + o < l * ClusterSize + i,
         l * ClusterSize + i <= k * ClusterSize + o + n
  PROVE  l = k
<1>1. k * ClusterSize \in Nat /\ l * ClusterSize \in Nat /\ ClusterSize \in Nat \ {0}
  BY ClusterSizeType
<1>2. ~ (l < k)
  <2> SUFFICES ASSUME l < k PROVE FALSE
    OBVIOUS
  <2>1. l * ClusterSize + ClusterSize <= k * ClusterSize
    BY ClusterSizeType, NextBlock
  <2> QED BY <1>1, <2>1
<1>3. ~ (k < l)
  <2> SUFFICES ASSUME k < l PROVE FALSE
    OBVIOUS
  <2>1. k * ClusterSize + ClusterSize <= l * ClusterSize
    BY ClusterSizeType, NextBlock
  <2> QED BY <1>1, <2>1
<1> QED BY <1>2, <1>3

(* Copying n bytes within the cluster q[k + 1].                            *)
LEMMA CopyBytesKeeps ==
  ASSUME NEW D \in SUBSET Cluster, NEW x \in CopyStates(D), x.c.cluster \in D,
         NEW n \in 0 .. x.c.left, x.c.offset + n <= ClusterSize,
         NEW data \in Sectored, NEW t \in Seq(Byte),
         NEW q \in Seq(Cluster), \A i, j \in 1 .. Len(q) : q[i] = q[j] => i = j,
         NEW k \in 0 .. Len(q) - 1, x.c.cluster = q[k + 1],
         x.ptr = k * ClusterSize + x.c.offset,
         x.c.op = "read" => x.ptr + n <= Len(t),
         Under(q, Holding(x.cache, data), x.c, x.ptr, t)
  PROVE  /\ Under(q, Holding(CopyBytes(x, n).cache, data), CopyBytes(x, n).c,
                  CopyBytes(x, n).ptr, t)
         /\ \A c \in Cluster : c # q[k + 1] =>
              Holding(CopyBytes(x, n).cache, data)[c] = Holding(x.cache, data)[c]
<1> DEFINE y == CopyBytes(x, n)
           new == Copied(x, n)
           o == x.c.offset
           more == SubSeq(new, o + 1, o + n)
           b == Holding(x.cache, data)
           b1 == Holding(y.cache, data)
           L == Len(x.c.done)
           P == x.ptr
           start == P - L
           base == k * ClusterSize
<1>1. /\ x.c \in Calls /\ x.ptr \in Nat /\ x.cache \in [D -> Block]
      /\ x.c.left \in Nat /\ o \in Nat /\ x.c.done \in Seq(Byte) /\ n \in Nat
      /\ ClusterSize \in Nat \ {0} /\ Len(q) \in Nat /\ Len(t) \in Nat /\ L \in Nat
      /\ k \in Nat /\ k + 1 \in 1 .. Len(q) /\ n <= x.c.left
  BY ClusterSizeType, LenProperties DEF CopyStates, Calls
<1>2. x.c.op \in {"read", "write"} /\ (x.c.op = "write" => x.c.byte \in Byte)
  BY DEF Under
<1>3. /\ y \in CopyStates(D) /\ y.ptr = x.ptr + n
      /\ y.cache = [x.cache EXCEPT ![x.c.cluster] = new]
      /\ y.c = [x.c EXCEPT !.left = x.c.left - n, !.offset = o + n,
                           !.done = x.c.done \o more]
  <2>1. CopiedTo(D, x, n, y)
    BY <1>2, CopyBytesIs
  <2> QED BY <2>1 DEF CopiedTo
<1>4. /\ new \in Block /\ more \in Seq(Byte) /\ Len(more) = n
      /\ \A i \in 1 .. n : more[i] = new[o + i]
  BY <1>1, <1>2, CopiedIs
<1>5. \A i \in 1 .. ClusterSize :
        new[i] = IF x.c.op = "write" /\ o < i /\ i <= o + n THEN x.c.byte ELSE b[q[k + 1]][i]
  <2>1. b[q[k + 1]] = x.cache[x.c.cluster]
    BY <1>1 DEF Holding, Bytes
  <2> QED BY <2>1 DEF Copied
<1>6. \A c \in Cluster : b1[c] = IF c = q[k + 1] THEN new ELSE b[c]
  <2>1. DOMAIN x.cache = D /\ DOMAIN y.cache = D
    BY <1>1, <1>3
  <2>2. \A c \in D : y.cache[c] = IF c = q[k + 1] THEN new ELSE x.cache[c]
    BY <1>1, <1>3
  <2> HIDE DEF y, new
  <2> QED BY <2>1, <2>2 DEF Holding, Bytes
<1>7. /\ y.c.op = x.c.op /\ y.c.byte = x.c.byte /\ y.c.size = x.c.size
      /\ y.c.offset = o + n /\ y.c.done = x.c.done \o more
  BY <1>1, <1>3 DEF Calls
<1>8. /\ Len(y.c.done) = L + n
      /\ \A j \in 1 .. L : y.c.done[j] = x.c.done[j]
      /\ \A j \in 1 .. n : y.c.done[L + j] = new[o + j]
  <2>1. /\ Len(x.c.done \o more) = L + n
        /\ \A j \in 1 .. L + n :
             (x.c.done \o more)[j] = IF j <= L THEN x.c.done[j] ELSE more[j - L]
    <3> HIDE DEF more
    <3>1. x.c.done \in Seq(Byte) /\ more \in Seq(Byte)
      BY <1>1, <1>4
    <3>2. /\ Len(x.c.done \o more) = Len(x.c.done) + Len(more)
          /\ \A j \in 1 .. Len(x.c.done) + Len(more) :
               (x.c.done \o more)[j] = IF j <= Len(x.c.done) THEN x.c.done[j]
                                       ELSE more[j - Len(x.c.done)]
      BY <3>1, ConcatProperties
    <3> QED BY <1>4, <3>2
  <2>2. L \in Nat /\ n \in Nat
    BY <1>1
  <2>3. \A j \in 1 .. n : L + j \in 1 .. L + n /\ ~ (L + j <= L) /\ (L + j) - L = j
    <3> HIDE DEF L
    <3> QED BY <2>2
  <2>4. \A j \in 1 .. L : j \in 1 .. L + n /\ j <= L
    <3> HIDE DEF L
    <3> QED BY <2>2
  <2>5. \A j \in 1 .. n : more[j] = new[o + j]
    BY <1>4
  <2> HIDE DEF more, new, y, L, o
  <2>6. Len(y.c.done) = L + n /\ \A j \in 1 .. L : y.c.done[j] = x.c.done[j]
    BY <1>7, <2>1, <2>4
  <2>7. ASSUME NEW j \in 1 .. n PROVE y.c.done[L + j] = new[o + j]
    <3>1. y.c.done[L + j] = more[(L + j) - L]
      BY <1>7, <2>1, <2>3
    <3> QED BY <2>3, <2>5, <3>1
  <2> QED BY <2>6, <2>7
<1>9. /\ x.c.size = Len(t) /\ o <= ClusterSize /\ L <= x.ptr /\ start <= Len(t)
      /\ x.ptr <= Len(q) * ClusterSize
      /\ x.c.op = "read" => \A j \in 1 .. L : x.c.done[j] = t[start + j]
      /\ Mixed(q, b, x.c, x.ptr, t)
  BY DEF Under
<1>10. base \in Nat
  BY <1>1
<1>11. /\ P \in Nat /\ P = base + o /\ y.ptr = P + n /\ L <= P /\ start = P - L
       /\ L \in Nat /\ o \in Nat /\ n \in Nat /\ o + n <= ClusterSize
  BY <1>1, <1>3, <1>9
<1> HIDE DEF y, new, o, more, b, b1, L, P, start, base
<1>12. y.ptr - Len(y.c.done) = start /\ start \in Nat
  <2>1. Len(y.c.done) = L + n
    BY <1>8
  <2>2. y.ptr = P + n /\ start = P - L
    BY <1>11
  <2>3. (P + n) - (L + n) = P - L /\ P - L \in Nat
    BY <1>11
  <2> QED BY <2>1, <2>2, <2>3
<1>13. y.ptr <= Len(q) * ClusterSize
  <2>1. k \in Int /\ Len(q) \in Int /\ k < Len(q)
    BY <1>1
  <2>2. base + ClusterSize <= Len(q) * ClusterSize
    BY <1>1, <2>1, NextBlock DEF base
  <2>3. Len(q) * ClusterSize \in Nat
    BY <1>1
  <2> QED BY <1>1, <1>10, <1>11, <2>2, <2>3
<1>14. ASSUME y.c.op = "read"
       PROVE  /\ y.ptr <= Len(t)
              /\ \A j \in 1 .. Len(y.c.done) : y.c.done[j] = t[start + j]
  <2>1. y.ptr <= Len(t) /\ x.c.op = "read"
    BY <1>7, <1>14, <1>11 DEF P
  <2>2. ASSUME NEW j \in 1 .. n PROVE y.c.done[L + j] = t[start + (L + j)]
    <3> DEFINE i == o + j
    <3>1. i \in 1 .. ClusterSize
      BY <1>1, <1>11
    <3>2. base + i = start + (L + j) /\ base + i <= Len(t)
      BY <1>1, <1>10, <1>11, <2>1
    <3>3. ~ Written(x.c, P, base + i)
      BY <2>1 DEF Written
    <3>4. b[q[k + 1]][i] = t[base + i]
      BY <1>9, <3>1, <3>2, <3>3 DEF Mixed, base, P
    <3>5. y.c.done[L + j] = b[q[k + 1]][i]
      BY <1>5, <1>8, <2>1, <3>1
    <3> QED BY <3>2, <3>4, <3>5
  <2>3. ASSUME NEW j \in 1 .. Len(y.c.done) PROVE y.c.done[j] = t[start + j]
    <3>1. CASE j <= L
      BY <1>8, <1>9, <1>11, <2>1, <3>1
    <3>2. CASE ~ (j <= L)
      <4>1. j - L \in 1 .. n /\ L + (j - L) = j
        BY <1>8, <1>11, <3>2
      <4> QED BY <2>2, <4>1
    <3> QED BY <3>1, <3>2
  <2> QED BY <2>1, <2>3
<1>15. ASSUME NEW l \in 0 .. Len(q) - 1, NEW i \in 1 .. ClusterSize
       PROVE  /\ Written(y.c, y.ptr, l * ClusterSize + i) =>
                   b1[q[l + 1]][i] = y.c.done[(l * ClusterSize + i) - start]
              /\ ~ Written(y.c, y.ptr, l * ClusterSize + i) /\ l * ClusterSize + i <= Len(t) =>
                   b1[q[l + 1]][i] = t[l * ClusterSize + i]
  <2> DEFINE m == l * ClusterSize + i
  <2>1. l * ClusterSize \in Nat /\ m \in Nat /\ l \in Nat /\ l + 1 \in 1 .. Len(q)
    <3>1. l \in Nat /\ i \in Nat /\ l + 1 \in 1 .. Len(q)
      BY <1>1
    <3>2. l * ClusterSize \in Nat
      BY <1>1, <3>1
    <3> QED BY <3>1, <3>2
  <2>2. q[l + 1] \in Cluster /\ (q[l + 1] = q[k + 1] => l = k)
    BY <1>1, <2>1, ElementOfSeq
  <2>3. b1[q[l + 1]] = IF l = k THEN new ELSE b[q[l + 1]]
    BY <1>6, <2>2
  <2>4. /\ Written(x.c, P, m) => b[q[l + 1]][i] = x.c.done[m - start]
        /\ ~ Written(x.c, P, m) /\ m <= Len(t) => b[q[l + 1]][i] = t[m]
    <3>1. Mixed(q, b, x.c, P, t)
      BY <1>9 DEF P
    <3>2. /\ Written(x.c, P, l * ClusterSize + i) =>
               b[q[l + 1]][i] = x.c.done[(l * ClusterSize + i) - (P - Len(x.c.done))]
          /\ ~ Written(x.c, P, l * ClusterSize + i) /\ l * ClusterSize + i <= Len(t) =>
               b[q[l + 1]][i] = t[l * ClusterSize + i]
      BY <3>1 DEF Mixed
    <3> QED BY <3>2 DEF start, L
  <2>5. Written(y.c, y.ptr, m) <=> x.c.op = "write" /\ start < m /\ m <= P + n
    BY <1>7, <1>12, <1>11 DEF Written
  <2>6. Written(x.c, P, m) <=> x.c.op = "write" /\ start < m /\ m <= P
    BY DEF Written, L, start
  <2>7. P < m /\ m <= P + n => l = k
    <3> SUFFICES ASSUME P < m, m <= P + n PROVE l = k
      OBVIOUS
    <3>1. /\ k * ClusterSize + o < l * ClusterSize + i
          /\ l * ClusterSize + i <= k * ClusterSize + o + n
      BY <1>11 DEF base
    <3> QED BY <1>1, <1>11, <2>1, <3>1, SameBlock
  <2>8. l = k => m = base + i
    BY DEF base
  <2> HIDE DEF m
  <2>9. l = k => (P < m <=> o < i) /\ (m <= P + n <=> i <= o + n)
    BY <1>1, <1>10, <1>11, <2>8
  <2>10. m \in Nat
    BY <2>1 DEF m
  <2>11. CASE x.c.op = "write" /\ P < m /\ m <= P + n
    <3>1. l = k /\ o < i /\ i <= o + n
      BY <2>7, <2>9, <2>11
    <3>2. b1[q[l + 1]][i] = x.c.byte
      BY <1>5, <2>3, <2>11, <3>1
    <3>3. i - o \in 1 .. n /\ o + (i - o) = i /\ L + (i - o) = m - start
      BY <1>1, <1>9, <1>10, <1>11, <2>8, <3>1
    <3>4. y.c.done[m - start] = new[i]
      BY <1>8, <3>3
    <3>5. new[i] = x.c.byte
      BY <1>5, <2>11, <3>1
    <3>6. Written(y.c, y.ptr, m)
      BY <1>12, <1>11, <2>5, <2>11, <2>10
    <3>7. b1[q[l + 1]][i] = y.c.done[m - start]
      BY <3>2, <3>4, <3>5
    <3> QED BY <3>6, <3>7 DEF m
  <2>12. CASE ~ (x.c.op = "write" /\ P < m /\ m <= P + n)
    <3>1. b1[q[l + 1]][i] = b[q[l + 1]][i]
      <4>1. CASE l = k
        <5>1. ~ (x.c.op = "write" /\ o < i /\ i <= o + n)
          BY <2>9, <2>12, <4>1
        <5> QED BY <1>5, <2>3, <4>1, <5>1
      <4>2. CASE l # k
        BY <2>3, <4>2
      <4> QED BY <4>1, <4>2
    <3>2. Written(y.c, y.ptr, m) <=> Written(x.c, P, m)
      BY <1>11, <2>5, <2>6, <2>12, <2>10
    <3>3. Written(x.c, P, m) => y.c.done[m - start] = x.c.done[m - start]
      <4> SUFFICES ASSUME start < m, m <= P PROVE m - start \in 1 .. L
        BY <1>8, <2>6
      <4>1. start \in Nat /\ L \in Nat /\ P \in Nat /\ start = P - L
        BY <1>12, <1>11
      <4> QED BY <2>10, <4>1
    <3>4. /\ Written(y.c, y.ptr, m) => b1[q[l + 1]][i] = y.c.done[m - start]
          /\ ~ Written(y.c, y.ptr, m) /\ m <= Len(t) => b1[q[l + 1]][i] = t[m]
      BY <2>4, <3>1, <3>2, <3>3
    <3> QED BY <3>4 DEF m
  <2> QED BY <2>11, <2>12
<1>16. Mixed(q, b1, y.c, y.ptr, t)
  BY <1>12, <1>15 DEF Mixed
<1>17. Under(q, b1, y.c, y.ptr, t)
  <2>1. /\ y.c.op \in {"read", "write"} /\ y.c.size = Len(t) /\ y.c.offset <= ClusterSize
        /\ y.c.op = "write" => y.c.byte \in Byte
    BY <1>2, <1>7, <1>9, <1>11
  <2>2. Len(y.c.done) <= y.ptr /\ y.ptr - Len(y.c.done) <= Len(t)
    BY <1>8, <1>9, <1>12, <1>11
  <2> QED BY <1>12, <1>13, <1>14, <1>16, <2>1, <2>2 DEF Under
<1> QED BY <1>6, <1>17 DEF y, b, b1

(* The call c still has something to copy, and where it goes on.           *)
ToDo(c, ptr) == c.left > 0 /\ (c.op = "read" => ptr # c.size)

At(q, c, ptr) ==
  \E k \in 0 .. Len(q) - 1 :
    c.cluster = q[k + 1] /\ ptr = k * ClusterSize + c.offset /\ c.offset < ClusterSize

(* What copying leaves alone in a call.                                    *)
SameCall(c, d) ==
  /\ d.at = c.at /\ d.op = c.op /\ d.fd = c.fd /\ d.size = c.size
  /\ d.byte = c.byte /\ d.buffer = c.buffer

(* Clusters with contents b that the file of entry e does not use keep it. *)
Elsewhere(ps, e, len, b, b1) ==
  \A d \in 1 .. len : d # e => \A i \in 1 .. Len(ps[d]) : b1[ps[d][i]] = b[ps[d][i]]

(* The loop copies to or from the file of entry e, whose bytes were t when *)
(* the call began: j holds what is fixed meanwhile.                        *)
Jobs ==
  { j \in [ cached : SUBSET Cluster, call : Calls, clusters : Contents,
            chains : Seq(Seq(Cluster)), entry : Nat, root : Seq(Entry),
            data : Sectored, text : Seq(Byte) ] :
      /\ j.entry \in 1 .. Len(j.root) /\ Len(j.chains) = Len(j.root)
      /\ j.root[j.entry].size = Len(j.text) }

(* q is the chain of the file by now.                                      *)
Fits(j, x, q) ==
  /\ LaidOut([j.chains EXCEPT ![j.entry] = q], x.fat, j.root)
  /\ Elsewhere(j.chains, j.entry, Len(j.root), j.clusters, Holding(x.cache, j.data))
  /\ Under(q, Holding(x.cache, j.data), x.c, x.ptr, j.text)

(* While something is left to copy, the place of the call in the chain is  *)
(* that of its file pointer.                                               *)
Along(j, x, q) ==
  /\ Fits(j, x, q)
  /\ x.next \in {"more", "miss"} /\ ToDo(x.c, x.ptr) => At(q, x.c, x.ptr)

(* What every round of the loop keeps.                                     *)
Going(j, x) ==
  /\ x \in CopyStates(j.cached)
  /\ SameCall(j.call, x.c)
  /\ x.next # "wild"
  /\ x.next = "miss" => ToDo(x.c, x.ptr) /\ x.c.cluster \notin j.cached
  /\ x.next = "done" /\ x.c.op = "read" => ~ ToDo(x.c, x.ptr)
  /\ \E q \in Seq(Cluster) : Along(j, x, q)

(* The chain q shares no cluster with those of the entries other than e.   *)
Apart(ps, e, len, q) ==
  \A d \in 1 .. len : d # e =>
    \A i \in 1 .. Len(ps[d]) :
      ps[d][i] \in Cluster /\ \A k \in 1 .. Len(q) : q[k] # ps[d][i]

(* A chain of length at least 1 that passes no cluster twice.              *)
Straight(q) ==
  /\ Len(q) \in Nat \ {0}
  /\ \A i \in 1 .. Len(q) : q[i] \in Cluster
  /\ \A i, k \in 1 .. Len(q) : q[i] = q[k] => i = k

(* What Fits says of the chain, fact by fact.                              *)
LEMMA FitsFacts ==
  ASSUME NEW j \in Jobs, NEW x \in CopyStates(j.cached), NEW q \in Seq(Cluster), Fits(j, x, q)
  PROVE  /\ x.fat \in Fats /\ j.root \in Seq(Entry) /\ j.entry \in 1 .. Len(j.root)
         /\ Straight(q)
         /\ \A i \in 1 .. Len(q) - 1 : x.fat[q[i]] = q[i + 1]
         /\ x.fat[q[Len(q)]] > EndMark /\ x.fat[q[Len(q)]] \in Nat
         /\ Len(j.text) \in Nat /\ Len(j.text) <= Len(q) * ClusterSize
         /\ Apart(j.chains, j.entry, Len(j.root), q)
<1> DEFINE qs == [j.chains EXCEPT ![j.entry] = q]
           e == j.entry
           r == j.root
<1>1. /\ x.fat \in Fats /\ r \in Seq(Entry) /\ e \in 1 .. Len(r) /\ j.text \in Seq(Byte)
      /\ j.chains \in Seq(Seq(Cluster)) /\ Len(j.chains) = Len(r) /\ r[e].size = Len(j.text)
  BY DEF Jobs, CopyStates
<1>2. LaidOut(qs, x.fat, r)
  BY DEF Fits
<1>3. \A d \in 1 .. Len(r) : qs[d] = IF d = e THEN q ELSE j.chains[d]
  BY <1>1, ExceptSeq
<1> HIDE DEF qs, e, r
<1>4. qs[e] = q
  BY <1>1, <1>3
<1>5. /\ Len(q) \in Nat \ {0} /\ \A i \in 1 .. Len(q) : q[i] \in Cluster
      /\ x.fat[q[Len(q)]] > EndMark
  BY <1>1, <1>2, <1>4, ChainFacts
<1>6. Chained(q, x.fat, r[e])
  BY <1>1, <1>2, <1>4 DEF LaidOut
<1>7. \A d1, d2 \in 1 .. Len(r) :
        \A i \in 1 .. Len(qs[d1]), k \in 1 .. Len(qs[d2]) :
          qs[d1][i] = qs[d2][k] => d1 = d2 /\ i = k
  BY <1>2 DEF LaidOut
<1>8. \A i, k \in 1 .. Len(q) : q[i] = q[k] => i = k
  BY <1>1, <1>4, <1>7
<1>9. Apart(j.chains, e, Len(r), q)
  <2> SUFFICES ASSUME NEW d \in 1 .. Len(r), d # e,
                      NEW i \in 1 .. Len(j.chains[d])
               PROVE  /\ j.chains[d][i] \in Cluster
                      /\ \A k \in 1 .. Len(q) : q[k] # j.chains[d][i]
    BY DEF Apart
  <2>1. qs[d] = j.chains[d]
    BY <1>3
  <2>2. j.chains[d][i] \in Cluster
    BY <1>1, <1>2, <2>1, ChainFacts
  <2>3. \A k \in 1 .. Len(q) : q[k] # j.chains[d][i]
    BY <1>1, <1>4, <1>7, <2>1, SMTT(30)
  <2> QED BY <2>2, <2>3
<1>10. x.fat[q[Len(q)]] \in Nat
  <2>1. q[Len(q)] \in 0 .. FatSize - 1
    <3>1. Len(q) \in 1 .. Len(q)
      BY <1>5
    <3>2. q[Len(q)] \in Cluster
      BY <1>5, <3>1
    <3> QED BY <3>2, ClusterType
  <2>2. x.fat \in [0 .. FatSize - 1 -> 0 .. EndOfChain]
    BY <1>1 DEF Fats
  <2>3. x.fat[q[Len(q)]] \in 0 .. EndOfChain
    BY <2>1, <2>2
  <2> QED BY <2>3
<1>11. Len(j.text) \in Nat /\ Len(j.text) <= Len(q) * ClusterSize
  BY <1>1, <1>6, LenProperties DEF Chained
<1>12. \A i \in 1 .. Len(q) - 1 : x.fat[q[i]] = q[i + 1]
  BY <1>6 DEF Chained
<1>13. Straight(q)
  BY <1>5, <1>8 DEF Straight
<1>14. Apart(j.chains, j.entry, Len(j.root), q)
  BY <1>9 DEF e, r
<1>15. x.fat \in Fats /\ j.root \in Seq(Entry) /\ j.entry \in 1 .. Len(j.root)
  BY <1>1 DEF e, r
<1>16. x.fat[q[Len(q)]] > EndMark
  BY <1>5
<1> QED BY <1>10, <1>11, <1>12, <1>13, <1>14, <1>15, <1>16

(* How much is copied in a round.                                          *)
LEMMA AmountLeftIs ==
  ASSUME NEW D \in SUBSET Cluster, NEW x \in CopyStates(D), NEW k \in Nat,
         x.ptr = k * ClusterSize + x.c.offset, x.c.offset < ClusterSize,
         ToDo(x.c, x.ptr), x.c.op = "read" => x.ptr <= x.c.size
  PROVE  /\ AmountLeft(x) \in Nat \ {0}
         /\ x.c.offset + AmountLeft(x) <= ClusterSize
         /\ x.c.op = "read" => x.ptr + AmountLeft(x) <= x.c.size
         /\ \/ x.ptr + AmountLeft(x) = (k + 1) * ClusterSize
            \/ x.c.op = "read" /\ x.ptr + AmountLeft(x) = x.c.size
<1>1. x.ptr \in Nat /\ x.c.offset \in Nat /\ x.c.size \in Nat /\ ClusterSize \in Nat
  BY ClusterSizeType DEF CopyStates, Calls
<1>2. (k + 1) * ClusterSize = k * ClusterSize + ClusterSize /\ k * ClusterSize \in Nat
  BY <1>1
<1> DEFINE room == ClusterSize - x.c.offset
           rest == x.c.size - x.ptr
<1>3. AmountLeft(x) = IF x.c.op = "read" /\ 0 <= rest /\ rest < room THEN rest ELSE room
  BY DEF AmountLeft
<1>4. x.c.op = "read" => rest > 0
  BY <1>1 DEF ToDo
<1>5. CASE x.c.op = "read" /\ rest < room
  BY <1>1, <1>3, <1>4, <1>5
<1>6. CASE ~ (x.c.op = "read" /\ rest < room)
  <2>1. AmountLeft(x) = room
    BY <1>3, <1>6
  <2>2. x.ptr + room = (k + 1) * ClusterSize
    BY <1>1, <1>2
  <2> QED BY <1>1, <1>6, <2>1, <2>2
<1> QED BY <1>5, <1>6

(* What Under says does not depend on where the call is.                   *)
LEMMA UnderMoved ==
  ASSUME NEW q, NEW b, NEW c, NEW d, NEW ptr, NEW t, Under(q, b, c, ptr, t),
         d.op = c.op, d.size = c.size, d.byte = c.byte, d.done = c.done,
         d.offset <= ClusterSize
  PROVE  Under(q, b, d, ptr, t)
<1>1. Mixed(q, b, d, ptr, t)
  BY DEF Under, Mixed, Written
<1> QED BY <1>1 DEF Under

(* Nor does it look beyond the end of the chain.                           *)
LEMMA UnderLonger ==
  ASSUME NEW q \in Seq(Cluster), NEW n \in Cluster, NEW b, NEW c, NEW ptr \in Nat,
         NEW t \in Seq(Byte), Len(t) <= Len(q) * ClusterSize, Under(q, b, c, ptr, t)
  PROVE  Under(Append(q, n), b, c, ptr, t)
<1> DEFINE z == Append(q, n)
           L == Len(q)
<1>1. L \in Nat /\ Len(t) \in Nat /\ ClusterSize \in Nat \ {0}
  BY LenProperties, ClusterSizeType
<1>2. Len(z) = L + 1 /\ \A i \in 1 .. L : z[i] = q[i]
  BY LongerChain
<1>3. Mixed(q, b, c, ptr, t) /\ ptr <= L * ClusterSize
  BY DEF Under
<1> HIDE DEF z, L
<1>4. L * ClusterSize \in Nat
  BY <1>1
<1>5. ASSUME NEW k \in 0 .. Len(z) - 1, NEW i \in 1 .. ClusterSize
      PROVE  /\ Written(c, ptr, k * ClusterSize + i) =>
                  b[z[k + 1]][i] = c.done[(k * ClusterSize + i) - (ptr - Len(c.done))]
             /\ ~ Written(c, ptr, k * ClusterSize + i) /\ k * ClusterSize + i <= Len(t) =>
                  b[z[k + 1]][i] = t[k * ClusterSize + i]
  <2>1. CASE k < L
    <3>1. k \in 0 .. L - 1 /\ k + 1 \in 1 .. L
      BY <1>1, <1>2, <2>1
    <3>2. z[k + 1] = q[k + 1]
      BY <1>2, <3>1
    <3> QED BY <1>3, <3>1, <3>2 DEF Mixed, L
  <2>2. CASE k = L
    <3>1. L * ClusterSize + i > ptr /\ L * ClusterSize + i > Len(t)
      BY <1>1, <1>3, <1>4 DEF L
    <3>2. ~ (L * ClusterSize + i <= ptr) /\ ~ (L * ClusterSize + i <= Len(t))
      BY <1>1, <1>4, <3>1
    <3> QED BY <2>2, <3>2 DEF Written
  <2> QED BY <1>1, <1>2, <2>1, <2>2
<1>6. Mixed(z, b, c, ptr, t)
  BY <1>5 DEF Mixed
<1>7. ptr <= Len(z) * ClusterSize
  <2>1. (L + 1) * ClusterSize = L * ClusterSize + ClusterSize
    BY <1>1
  <2> QED BY <1>1, <1>2, <1>3, <1>4, <2>1
<1>8. Under(z, b, c, ptr, t)
  BY <1>6, <1>7 DEF Under
<1> QED BY <1>8 DEF z

(* The loop moves on after a round that used up the cluster or the file.   *)
LEMMA NextClusterKeeps ==
  ASSUME NEW j \in Jobs, NEW y \in CopyStates(j.cached), SameCall(j.call, y.c),
         NEW q \in Seq(Cluster), Fits(j, y, q), y.next = "more", y.c.left > 0,
         NEW k \in 0 .. Len(q) - 1, y.c.cluster = q[k + 1],
         \/ y.ptr = (k + 1) * ClusterSize
         \/ y.c.op = "read" /\ y.ptr = y.c.size
  PROVE  Going(j, NextCluster(y)) /\ NextCluster(y).c.left = y.c.left
<1> DEFINE last == y.fat[y.c.cluster] >= EndMark
           f == IF last /\ y.c.op = "write" THEN Link(y.fat, y.c.cluster) ELSE y.fat
           c == f[y.c.cluster]
           stop == last /\ (y.c.op = "read" \/ c >= ShortMark)
           z == NextCluster(y)
           b == Holding(y.cache, j.data)
           t == j.text
           Laid(g, p) == /\ LaidOut([j.chains EXCEPT ![j.entry] = p], g, j.root)
                         /\ Under(p, b, y.c, y.ptr, t)
<1>1. z = IF stop THEN [y EXCEPT !.fat = f, !.next = "done"]
          ELSE [y EXCEPT !.fat = f, !.c.cluster = c, !.c.offset = 0]
  BY DEF NextCluster
<1>2. /\ y.fat \in Fats /\ Len(q) \in Nat \ {0}
      /\ \A i \in 1 .. Len(q) : q[i] \in Cluster
      /\ \A i \in 1 .. Len(q) - 1 : y.fat[q[i]] = q[i + 1]
      /\ y.fat[q[Len(q)]] > EndMark /\ y.fat[q[Len(q)]] \in Nat
      /\ Len(t) \in Nat /\ Len(t) <= Len(q) * ClusterSize
      /\ j.root \in Seq(Entry) /\ j.entry \in 1 .. Len(j.root)
  BY FitsFacts DEF Straight
<1>3. /\ y.c \in Calls /\ y.ptr \in Nat /\ y.cache \in [j.cached -> Block]
  BY DEF CopyStates
<1>4. /\ LaidOut([j.chains EXCEPT ![j.entry] = q], y.fat, j.root)
      /\ Elsewhere(j.chains, j.entry, Len(j.root), j.clusters, b)
      /\ Under(q, b, y.c, y.ptr, t)
  BY DEF Fits
<1>5. EndMark \in Nat /\ ShortMark \in Nat /\ ShortMark <= EndMark /\ ClusterSize \in Nat \ {0}
  BY FileAssumption, ClusterSizeType
<1>6. t \in Seq(Byte) /\ j.chains \in Seq(Seq(Cluster)) /\ Len(j.chains) = Len(j.root)
  BY DEF Jobs
<1>7. y.c.op \in {"read", "write"} /\ y.c.size = Len(t)
  BY <1>4 DEF Under
<1> SUFFICES Going(j, z) /\ z.c.left = y.c.left
  OBVIOUS
<1> HIDE DEF z, last, f, c, stop, b, t
(* The loop is left with the FAT g, the chain being p by now.              *)
<1>8. ASSUME NEW g \in Fats, NEW p \in Seq(Cluster),
             Laid(g, p), y.c.op = "read" => ~ ToDo(y.c, y.ptr),
             stop, f = g
      PROVE  Going(j, z) /\ z.c.left = y.c.left
  <2>1. z = [y EXCEPT !.fat = g, !.next = "done"]
    BY <1>1, <1>8
  <2>2. /\ z \in CopyStates(j.cached) /\ z.c = y.c /\ z.ptr = y.ptr /\ z.cache = y.cache
        /\ z.fat = g /\ z.next = "done"
    BY <2>1 DEF CopyStates
  <2>3. Along(j, z, p)
    BY <1>4, <1>8, <2>2 DEF Along, Fits, Laid, b, t
  <2> QED BY <1>8, <2>2, <2>3 DEF Going
(* It goes on with the first byte of p[k + 2].                             *)
<1>9. ASSUME NEW g \in Fats, NEW p \in Seq(Cluster),
             Laid(g, p), Len(p) \in Nat, k + 2 <= Len(p),
             ~ stop, f = g, c = p[k + 2]
      PROVE  Going(j, z) /\ z.c.left = y.c.left
  <2> DEFINE d == [y.c EXCEPT !.cluster = p[k + 2], !.offset = 0]
  <2>1. z = [y EXCEPT !.fat = g, !.c.cluster = p[k + 2], !.c.offset = 0]
    BY <1>1, <1>9
  <2>2. p[k + 2] \in Nat
    <3>1. k + 2 \in 1 .. Len(p)
      BY <1>2, <1>9
    <3>2. p[k + 2] \in Cluster
      BY <3>1, ElementOfSeq
    <3> QED BY <3>2, ClusterType
  <2>3. /\ d \in Calls /\ d.cluster = p[k + 2] /\ d.offset = 0 /\ d.left = y.c.left
        /\ d.done = y.c.done /\ SameCall(y.c, d)
    BY <1>3, <2>2 DEF Calls, SameCall
  <2>4. /\ z \in CopyStates(j.cached) /\ z.c = d /\ z.ptr = y.ptr /\ z.cache = y.cache
        /\ z.fat = g /\ z.next = "more"
    BY <1>3, <2>1, <2>3 DEF CopyStates
  <2> HIDE DEF d
  <2>5. Under(p, b, d, y.ptr, t)
    <3>1. Under(p, b, y.c, y.ptr, t)
      BY <1>9 DEF Laid
    <3>2. /\ d.op = y.c.op /\ d.size = y.c.size /\ d.byte = y.c.byte /\ d.done = y.c.done
          /\ d.offset <= ClusterSize
      BY <1>5, <2>3 DEF SameCall
    <3> QED BY <3>1, <3>2, UnderMoved
  <2>6. ToDo(d, y.ptr) => At(p, d, y.ptr)
    <3> SUFFICES ASSUME ToDo(d, y.ptr) PROVE At(p, d, y.ptr)
      OBVIOUS
    <3>1. y.ptr = (k + 1) * ClusterSize
      BY <2>3 DEF ToDo, SameCall
    <3>2. k + 1 \in 0 .. Len(p) - 1 /\ (k + 1) + 1 = k + 2
      BY <1>2, <1>9
    <3>3. y.ptr = (k + 1) * ClusterSize + d.offset /\ d.offset < ClusterSize
      BY <1>5, <2>3, <3>1, <3>2
    <3> QED BY <2>3, <3>2, <3>3 DEF At
  <2>7. Along(j, z, p)
    BY <1>4, <1>9, <2>4, <2>5, <2>6 DEF Along, Fits, Laid, b, t
  <2>8. SameCall(j.call, d)
    BY <2>3 DEF SameCall
  <2> QED BY <2>3, <2>4, <2>7, <2>8 DEF Going
<1>10. Laid(y.fat, q)
  BY <1>4 DEF Laid
<1> HIDE DEF Laid
<1>11. CASE k + 1 < Len(q)
  <2>1. k + 1 \in 1 .. Len(q) - 1 /\ k + 2 \in 1 .. Len(q) /\ (k + 1) + 1 = k + 2
    BY <1>2, <1>11
  <2>2. y.fat[y.c.cluster] = q[k + 2] /\ q[k + 2] \in Cluster
    BY <1>2, <2>1
  <2>3. ~ last
    BY <2>2, ClusterType DEF last
  <2>4. f = y.fat /\ c = q[k + 2] /\ ~ stop
    BY <2>2, <2>3 DEF f, c, stop
  <2> QED BY <1>2, <1>9, <1>10, <2>1, <2>4
<1>12. CASE k + 1 = Len(q)
  <2>1. y.c.cluster = q[Len(q)] /\ y.c.cluster \in Cluster
    BY <1>2, <1>12
  <2>2. last
    BY <1>2, <1>5, <2>1 DEF last
  <2>3. CASE y.c.op = "read"
    <3>1. f = y.fat /\ stop
      BY <2>2, <2>3 DEF f, stop
    <3>2. ~ ToDo(y.c, y.ptr)
      <4>1. y.ptr <= Len(t)
        BY <1>4, <2>3 DEF Under
      <4>2. y.ptr = y.c.size
        BY <1>2, <1>3, <1>7, <1>12, <4>1
      <4> QED BY <2>3, <4>2 DEF ToDo
    <3> QED BY <1>2, <1>8, <1>10, <3>1, <3>2
  <2>4. CASE y.c.op = "write" /\ Free(y.fat) = {}
    <3>1. f = y.fat
      BY <2>4 DEF f, Link
    <3>2. c >= ShortMark
      BY <1>2, <1>5, <2>1, <3>1 DEF c
    <3>3. stop
      BY <2>2, <3>2 DEF stop
    <3> QED BY <1>2, <1>8, <1>10, <2>4, <3>1, <3>3
  <2>5. CASE y.c.op = "write" /\ Free(y.fat) # {}
    <3> DEFINE n == FirstFree(y.fat)
               p == Append(q, n)
               g == Link(y.fat, y.c.cluster)
    <3>1. n \in Cluster
      BY <1>2, <2>5, FirstFreeIs
    <3>2. f = g /\ g \in Fats /\ c = n
      <4>1. y.fat[y.c.cluster] # 0
        BY <1>2, <1>5, <2>1
      <4>2. g \in Fats /\ g[y.c.cluster] = n
        BY <1>2, <2>1, <2>5, <4>1, LinkIs
      <4>3. f = g
        BY <2>2, <2>5 DEF f
      <4> QED BY <4>2, <4>3 DEF c
    <3>3. p \in Seq(Cluster) /\ Len(p) = Len(q) + 1 /\ p[Len(q) + 1] = n
      BY <3>1, LongerChain
    <3>4. LaidOut([j.chains EXCEPT ![j.entry] = p], g, j.root)
      <4> DEFINE qs == [j.chains EXCEPT ![j.entry] = q]
      <4>1. qs[j.entry] = q
        BY <1>2, <1>6
      <4>2. [qs EXCEPT ![j.entry] = p] = [j.chains EXCEPT ![j.entry] = p]
        OBVIOUS
      <4>3. LaidOut(qs, y.fat, j.root)
        BY <1>4
      <4> HIDE DEF qs
      <4>4. LaidOut([qs EXCEPT ![j.entry] = Append(qs[j.entry], FirstFree(y.fat))],
                    Link(y.fat, qs[j.entry][Len(qs[j.entry])]), j.root)
        BY <1>2, <2>5, <4>3, LinkLaysOut
      <4>5. LaidOut([qs EXCEPT ![j.entry] = p], g, j.root)
        BY <2>1, <4>1, <4>4
      <4> QED BY <4>2, <4>5
    <3>5. Under(p, b, y.c, y.ptr, t)
      BY <1>2, <1>3, <1>4, <1>6, <3>1, UnderLonger
    <3>6. Laid(g, p)
      BY <3>4, <3>5 DEF Laid
    <3> HIDE DEF p, g, n
    <3>7. CASE stop
      BY <1>8, <2>5, <3>2, <3>3, <3>7, <3>6
    <3>8. CASE ~ stop
      <4>1. Len(p) \in Nat /\ k + 2 <= Len(p) /\ c = p[k + 2]
        <5>1. k + 2 = Len(q) + 1
          BY <1>2, <1>12
        <5> QED BY <1>2, <3>2, <3>3, <5>1
      <4> QED BY <1>9, <3>2, <3>3, <3>8, <3>6, <4>1
    <3> QED BY <3>7, <3>8
  <2> QED BY <1>7, <2>3, <2>4, <2>5
<1>13. k + 1 < Len(q) \/ k + 1 = Len(q)
  BY <1>2
<1> QED BY <1>11, <1>12, <1>13

(* A change to cluster i of the chain q is no change to other files.       *)
LEMMA StillElsewhere ==
  ASSUME NEW ps, NEW e, NEW len, NEW q, NEW i \in 1 .. Len(q), NEW b, NEW b1, NEW b2,
         Apart(ps, e, len, q), Elsewhere(ps, e, len, b, b1),
         \A c \in Cluster : c # q[i] => b2[c] = b1[c]
  PROVE  Elsewhere(ps, e, len, b, b2)
<1> SUFFICES ASSUME NEW d \in 1 .. len, d # e, NEW m \in 1 .. Len(ps[d])
             PROVE  b2[ps[d][m]] = b[ps[d][m]]
  BY DEF Elsewhere
<1>1. ps[d][m] \in Cluster /\ q[i] # ps[d][m]
  BY DEF Apart
<1>2. b1[ps[d][m]] = b[ps[d][m]]
  BY DEF Elsewhere
<1> QED BY <1>1, <1>2

(* A round of the loop; it copies something or is the last.                *)
LEMMA CopyNextKeeps ==
  ASSUME NEW j \in Jobs, NEW x, Going(j, x)
  PROVE  /\ Going(j, CopyNext(x))
         /\ CopyNext(x).next = "more" => x.next = "more" /\ CopyNext(x).c.left < x.c.left
<1> DEFINE z == CopyNext(x)
           n == AmountLeft(x)
           over == x.c.left = 0 \/ (x.c.op = "read" /\ x.ptr = x.c.size)
<1>1. z = IF x.next # "more" THEN x
          ELSE IF over THEN [x EXCEPT !.next = "done"]
          ELSE IF x.c.cluster \notin DOMAIN x.cache
          THEN [x EXCEPT !.next = IF x.c.cluster \in Cluster THEN "miss" ELSE "wild"]
          ELSE IF x.c.left < n THEN [CopyBytes(x, x.c.left) EXCEPT !.next = "done"]
          ELSE IF x.c.left = n THEN CopyBytes(x, n)
          ELSE NextCluster(CopyBytes(x, n))
  BY DEF CopyNext
<1>2. /\ x \in CopyStates(j.cached) /\ SameCall(j.call, x.c)
      /\ \E q \in Seq(Cluster) : Along(j, x, q)
  BY DEF Going
<1>3. PICK q \in Seq(Cluster) : Along(j, x, q)
  BY <1>2
<1>4. /\ Len(q) \in Nat \ {0} /\ \A i \in 1 .. Len(q) : q[i] \in Cluster
      /\ \A i, k \in 1 .. Len(q) : q[i] = q[k] => i = k
      /\ Apart(j.chains, j.entry, Len(j.root), q)
  <2>1. Fits(j, x, q) /\ x \in CopyStates(j.cached)
    BY <1>2, <1>3 DEF Along
  <2>2. /\ Len(q) \in Nat \ {0} /\ \A i \in 1 .. Len(q) : q[i] \in Cluster
        /\ \A i, k \in 1 .. Len(q) : q[i] = q[k] => i = k
    <3>1. Straight(q)
      BY <2>1, FitsFacts
    <3> QED BY <3>1 DEF Straight
  <2>3. Apart(j.chains, j.entry, Len(j.root), q)
    BY <2>1, FitsFacts
  <2> QED BY <2>2, <2>3
<1>5. /\ x.c \in Calls /\ x.ptr \in Nat /\ x.cache \in [j.cached -> Block] /\ x.c.left \in Nat
      /\ x.c.offset \in Nat /\ x.c.size \in Nat
  BY <1>2 DEF CopyStates, Calls
<1>6. j.cached \in SUBSET Cluster /\ j.data \in Sectored /\ j.text \in Seq(Byte)
  BY DEF Jobs
<1>7. /\ LaidOut([j.chains EXCEPT ![j.entry] = q], x.fat, j.root)
      /\ Elsewhere(j.chains, j.entry, Len(j.root), j.clusters, Holding(x.cache, j.data))
      /\ Under(q, Holding(x.cache, j.data), x.c, x.ptr, j.text)
  BY <1>3 DEF Along, Fits
<1>8. /\ x.c.op \in {"read", "write"} /\ x.c.size = Len(j.text)
      /\ (x.c.op = "read" => x.ptr <= x.c.size)
      /\ (x.c.op = "write" => x.c.byte \in Byte)
  BY <1>7 DEF Under
<1>9. over <=> ~ ToDo(x.c, x.ptr)
  BY <1>5 DEF ToDo
<1> SUFFICES Going(j, z) /\ (z.next = "more" => x.next = "more" /\ z.c.left < x.c.left)
  OBVIOUS
<1> HIDE DEF z, n, over
<1>10. CASE x.next # "more"
  BY <1>1, <1>10
<1>11. CASE x.next = "more" /\ over
  <2>1. z = [x EXCEPT !.next = "done"]
    BY <1>1, <1>11
  <2>2. /\ z \in CopyStates(j.cached) /\ z.c = x.c /\ z.ptr = x.ptr /\ z.cache = x.cache
        /\ z.fat = x.fat /\ z.next = "done"
    BY <1>2, <2>1 DEF CopyStates
  <2>3. Along(j, z, q)
    BY <1>7, <2>2 DEF Along, Fits
  <2> QED BY <1>2, <1>9, <1>11, <2>2, <2>3 DEF Going
<1>12. CASE x.next = "more" /\ ~ over
  <2>1. ToDo(x.c, x.ptr)
    BY <1>9, <1>12
  <2>2. At(q, x.c, x.ptr)
    BY <1>3, <1>12, <2>1 DEF Along
  <2>3. PICK k \in 0 .. Len(q) - 1 :
          /\ x.c.cluster = q[k + 1] /\ x.ptr = k * ClusterSize + x.c.offset
          /\ x.c.offset < ClusterSize
    BY <2>2 DEF At
  <2>4. k \in Nat /\ k + 1 \in 1 .. Len(q) /\ x.c.cluster \in Cluster /\ DOMAIN x.cache = j.cached
    BY <1>4, <1>5, <2>3
  <2>5. CASE x.c.cluster \notin j.cached
    <3>1. z = [x EXCEPT !.next = "miss"]
      BY <1>1, <1>12, <2>4, <2>5
    <3>2. /\ z \in CopyStates(j.cached) /\ z.c = x.c /\ z.ptr = x.ptr /\ z.cache = x.cache
          /\ z.fat = x.fat /\ z.next = "miss"
      BY <1>2, <3>1 DEF CopyStates
    <3>3. Along(j, z, q)
      BY <1>7, <2>2, <3>2 DEF Along, Fits
    <3> QED BY <1>2, <2>1, <2>5, <3>2, <3>3 DEF Going
  <2>6. CASE x.c.cluster \in j.cached
    <3>1. /\ n \in Nat \ {0} /\ x.c.offset + n <= ClusterSize
          /\ x.c.op = "read" => x.ptr + n <= x.c.size
          /\ \/ x.ptr + n = (k + 1) * ClusterSize
             \/ x.c.op = "read" /\ x.ptr + n = x.c.size
      BY <1>2, <1>6, <1>8, <2>1, <2>3, <2>4, AmountLeftIs DEF n
    (* Any number of bytes up to n may be copied.                          *)
    <3>2. ASSUME NEW m \in 0 .. x.c.left, m <= n
          PROVE  /\ CopiedTo(j.cached, x, m, CopyBytes(x, m))
                 /\ Under(q, Holding(CopyBytes(x, m).cache, j.data), CopyBytes(x, m).c,
                          CopyBytes(x, m).ptr, j.text)
                 /\ Elsewhere(j.chains, j.entry, Len(j.root), j.clusters,
                              Holding(CopyBytes(x, m).cache, j.data))
      <4>1. m \in Nat /\ x.c.offset + m <= ClusterSize
            /\ (x.c.op = "read" => x.ptr + m <= Len(j.text))
        BY <1>5, <1>8, <3>1, <3>2, ClusterSizeType, SMTT(30)
      <4>2. CopiedTo(j.cached, x, m, CopyBytes(x, m))
        BY <1>2, <1>6, <1>8, <2>6, <4>1, CopyBytesIs
      <4>3. /\ Under(q, Holding(CopyBytes(x, m).cache, j.data), CopyBytes(x, m).c,
                     CopyBytes(x, m).ptr, j.text)
            /\ \A c \in Cluster : c # q[k + 1] =>
                 Holding(CopyBytes(x, m).cache, j.data)[c] = Holding(x.cache, j.data)[c]
        BY <1>2, <1>4, <1>6, <1>7, <2>3, <2>6, <4>1, CopyBytesKeeps
      <4> DEFINE b1 == Holding(CopyBytes(x, m).cache, j.data)
      <4>4. \A c \in Cluster : c # q[k + 1] => b1[c] = Holding(x.cache, j.data)[c]
        BY <4>3
      <4> HIDE DEF b1
      <4>5. Elsewhere(j.chains, j.entry, Len(j.root), j.clusters, b1)
        BY <1>4, <1>7, <2>4, <4>4, StillElsewhere
      <4>6. Elsewhere(j.chains, j.entry, Len(j.root), j.clusters,
                      Holding(CopyBytes(x, m).cache, j.data))
        BY <4>5 DEF b1
      <4> QED BY <4>2, <4>3, <4>6
    <3>3. CASE x.c.left < n
      <4> DEFINE y == CopyBytes(x, x.c.left)
      <4>1. x.c.left \in 0 .. x.c.left /\ x.c.left <= n
        BY <1>5, <3>1, <3>3
      <4>2. /\ CopiedTo(j.cached, x, x.c.left, y)
            /\ Under(q, Holding(y.cache, j.data), y.c, y.ptr, j.text)
            /\ Elsewhere(j.chains, j.entry, Len(j.root), j.clusters, Holding(y.cache, j.data))
        BY <3>2, <4>1
      <4>3. z = [y EXCEPT !.next = "done"]
        BY <1>1, <1>12, <2>4, <2>6, <3>3
      <4> HIDE DEF y
      <4>4. y \in CopyStates(j.cached) /\ y.fat = x.fat /\ y.c.left = 0 /\ SameCall(x.c, y.c)
        <5>1. y.c.left = x.c.left - x.c.left /\ SameCall(x.c, y.c)
          BY <1>5, <4>2 DEF CopiedTo, Calls, SameCall
        <5> QED BY <1>5, <4>2, <5>1 DEF CopiedTo
      <4>5. /\ z \in CopyStates(j.cached) /\ z.c = y.c /\ z.ptr = y.ptr /\ z.cache = y.cache
            /\ z.fat = x.fat /\ z.next = "done"
        BY <4>3, <4>4 DEF CopyStates
      <4>6. Along(j, z, q)
        BY <1>7, <4>2, <4>5 DEF Along, Fits
      <4>7. SameCall(j.call, z.c) /\ ~ ToDo(z.c, z.ptr)
        BY <1>2, <4>4, <4>5 DEF SameCall, ToDo
      <4> QED BY <4>5, <4>6, <4>7 DEF Going
    <3>4. CASE ~ (x.c.left < n)
      <4> DEFINE y == CopyBytes(x, n)
      <4>1. n \in 0 .. x.c.left /\ n <= n
        BY <1>5, <3>1, <3>4
      <4>2. /\ CopiedTo(j.cached, x, n, y)
            /\ Under(q, Holding(y.cache, j.data), y.c, y.ptr, j.text)
            /\ Elsewhere(j.chains, j.entry, Len(j.root), j.clusters, Holding(y.cache, j.data))
        BY <3>2, <4>1
      <4>3. z = IF x.c.left = n THEN y ELSE NextCluster(y)
        BY <1>1, <1>12, <2>4, <2>6, <3>4
      <4> HIDE DEF y
      <4>4. /\ y \in CopyStates(j.cached) /\ y.fat = x.fat /\ y.next = "more"
            /\ y.ptr = x.ptr + n /\ y.c.left = x.c.left - n /\ y.c.cluster = x.c.cluster
            /\ SameCall(x.c, y.c)
        <5>1. y.c.left = x.c.left - n /\ y.c.cluster = x.c.cluster /\ SameCall(x.c, y.c)
          BY <1>5, <4>2 DEF CopiedTo, Calls, SameCall
        <5> QED BY <1>12, <4>2, <5>1 DEF CopiedTo
      <4>5. y.c.left < x.c.left /\ SameCall(j.call, y.c)
        BY <1>2, <1>5, <3>1, <4>4 DEF SameCall
      <4>6. CASE x.c.left = n
        <5>1. z = y /\ ~ ToDo(y.c, y.ptr)
          BY <1>5, <4>3, <4>4, <4>6 DEF ToDo
        <5>2. Along(j, y, q)
          BY <1>7, <4>2, <4>4, <5>1 DEF Along, Fits
        <5> QED BY <1>12, <4>4, <4>5, <5>1, <5>2 DEF Going
      <4>7. CASE x.c.left # n
        <5>1. y.c.left > 0
          BY <1>5, <3>1, <3>4, <4>4, <4>7
        <5>2. \/ y.ptr = (k + 1) * ClusterSize
              \/ y.c.op = "read" /\ y.ptr = y.c.size
          BY <3>1, <4>4 DEF SameCall
        <5>3. Going(j, NextCluster(y)) /\ NextCluster(y).c.left = y.c.left
          <6>1. Fits(j, y, q)
            BY <1>7, <4>2, <4>4 DEF Fits
          <6>2. y.c.cluster = q[k + 1]
            BY <2>3, <4>4
          <6> QED BY <2>4, <4>4, <4>5, <5>1, <5>2, <6>1, <6>2, NextClusterKeeps
        <5> QED BY <1>12, <4>3, <4>5, <4>7, <5>3
      <4> QED BY <4>6, <4>7
    <3> QED BY <1>5, <3>3, <3>4
  <2> QED BY <2>5, <2>6
<1> QED BY <1>10, <1>11, <1>12

(* The loop ends, for a cluster to be read or for good.                    *)
LEMMA CopyKeeps ==
  ASSUME NEW j \in Jobs, NEW x, Going(j, x)
  PROVE  Going(j, Copy(x)) /\ Copy(x).next \in {"miss", "done"}
<1> DEFINE n == x.c.left + 1
           X == {y \in CopyStates(j.cached) : Going(j, y)}
           step == [m \in 1 .. n |-> [y \in X |-> CopyNext(y)]]
           Is(g) == g = [m \in 0 .. n |-> IF m = 0 THEN x ELSE CopyNext(g[m - 1])]
           loop == CHOOSE g : Is(g)
           (* After m rounds so much is left to copy, if the loop goes on. *)
           S == [m \in 0 .. n |-> {y \in X : y.next = "more" => y.c.left <= x.c.left - m}]
<1>1. x \in CopyStates(j.cached) /\ x.c.left \in Nat
  BY DEF Going, CopyStates, Calls
<1>2. n \in Nat \ {0}
  BY <1>1
<1>3. \A y \in X : CopyNext(y) \in X
  BY CopyNextKeeps DEF Going
<1>4. /\ \A m \in 1 .. n, y \in X : step[m][y] = CopyNext(y)
      /\ step \in [1 .. n -> [X -> X]]
  <2> HIDE DEF X, n
  <2> QED BY <1>3
<1>5. x \in X
  BY <1>1
<1> HIDE DEF step, n
<1>6. PICK g \in [0 .. n -> X] : IsLoop(g, x, step, n)
  <2> HIDE DEF X
  <2> QED BY <1>2, <1>4, <1>5, IterationExists
<1>7. Is(g)
  <2> HIDE DEF X
  <2>1. \A m \in 0 .. n : m # 0 => m \in 1 .. n /\ m - 1 \in 0 .. n
    BY <1>2
  <2>2. \A m \in 0 .. n : g[m] = IF m = 0 THEN x ELSE CopyNext(g[m - 1])
    BY <1>4, <1>6, <2>1 DEF IsLoop
  <2> QED BY <1>6, <2>2
<1>8. Is(loop)
  BY <1>7
<1>9. Copy(x) = loop[n]
  BY DEF Copy, n
<1> HIDE DEF loop
<1>10. loop[0] = x /\ \A m \in 1 .. n : loop[m] = CopyNext(loop[m - 1])
  BY <1>2, <1>8
<1>11. loop[0] \in S[0]
  BY <1>1, <1>2, <1>5, <1>10
<1>12. ASSUME NEW m \in 1 .. n, loop[m - 1] \in S[m - 1] PROVE loop[m] \in S[m]
  <2> DEFINE y == loop[m - 1]
  <2>1. m - 1 \in 0 .. n /\ m \in 0 .. n
    BY <1>2
  <2>2. y \in X /\ (y.next = "more" => y.c.left <= x.c.left - (m - 1))
    BY <1>12, <2>1
  <2>3. loop[m] = CopyNext(y)
    BY <1>10
  <2> HIDE DEF y
  <2>4. CopyNext(y) \in X /\ y.c.left \in Nat /\ CopyNext(y).c.left \in Nat
    BY <1>3, <2>2 DEF CopyStates, Calls
  <2>5. CopyNext(y).next = "more" => y.next = "more" /\ CopyNext(y).c.left < y.c.left
    BY <2>2, CopyNextKeeps
  <2>6. CopyNext(y).next = "more" => CopyNext(y).c.left <= x.c.left - m
    BY <1>1, <2>1, <2>2, <2>4, <2>5
  <2> HIDE DEF X
  <2> QED BY <2>1, <2>3, <2>4, <2>6
<1>13. loop[n] \in S[n]
  <2>1. \A m \in 1 .. n : loop[m - 1] \in S[m - 1] => loop[m] \in S[m]
    BY <1>12
  <2>2. n \in 0 .. n /\ n \in Nat
    BY <1>2
  <2>3. loop[0] \in S[0]
    BY <1>11
  <2> HIDE DEF S
  <2> QED BY <2>1, <2>2, <2>3, IterationStays
<1>14. loop[n] \in X /\ (loop[n].next = "more" => loop[n].c.left <= x.c.left - n)
  BY <1>2, <1>13
<1>15. Going(j, loop[n]) /\ loop[n].c.left \in Nat
       /\ loop[n].next \in {"more", "miss", "wild", "done"}
  BY <1>14 DEF CopyStates, Calls
<1>16. loop[n].next # "more"
  BY <1>1, <1>14, <1>15 DEF n
<1>17. loop[n].next # "wild"
  BY <1>15 DEF Going
<1> QED BY <1>9, <1>15, <1>16, <1>17

-----------------------------------------------------------------------------
(* The states                                                              *)

(* What is in the clusters, on the disk or cached.                         *)
Held == Holding(cache, disk.data)

(* Open files.                                                             *)
Descriptors == [user : Users, flags : OpenFlags, entry : Nat, filePtr : Nat]

(* The types, as far as the invariant needs them.                          *)
Typed ==
  /\ fat \in Fats /\ root \in Seq(Entry) /\ Len(root) <= RootEntryCount
  /\ nextFD \in Nat /\ nextFD >= 3 /\ DOMAIN openFiles \subseteq 3 .. nextFD - 1
  /\ openFiles \in [DOMAIN openFiles -> Descriptors]
  /\ \A d \in DOMAIN openFiles : openFiles[d].entry \in 1 .. Len(root)
  /\ Cached(cache)
  /\ owner \in Users \union {Nobody}
  /\ call \in [Users -> Calls]
  /\ disk \in [fat : Fats, root : Seq(Entry), data : Sectored]
  /\ position \in Nat
  /\ text \in Seq(Seq(Byte)) /\ Len(text) = Len(root)

(* The call c is at work on a file, with the file pointer at ptr.          *)
InCall(q, b, t, ptr, c) ==
  /\ c.at \in {"lock", "seek", "read", "unlocked"}
  /\ Under(q, b, c, ptr, t)
  /\ c.at # "unlocked" /\ ToDo(c, ptr) => At(q, c, ptr)
  /\ c.at \in {"seek", "read"} => ToDo(c, ptr)
  /\ c.at = "unlocked" /\ c.op = "read" => ~ ToDo(c, ptr)

(* The call of u is at work on the file it names, which u has opened.      *)
CallSound(ps, u) ==
  /\ call[u].fd \in DOMAIN openFiles /\ openFiles[call[u].fd].user = u
  /\ InCall(ps[openFiles[call[u].fd].entry], Held, text[openFiles[call[u].fd].entry],
            openFiles[call[u].fd].filePtr, call[u])

(* No call is at work on descriptor d.                                     *)
Idle(d) == \A u \in Users : call[u] # User => call[u].fd # d

(* The files, whose chains are ps, hold their bytes.                       *)
Sound(ps) ==
  /\ LaidOut(ps, fat, root)
  /\ \A e \in 1 .. Len(root) : root[e].size = Len(text[e])
  /\ \A d1, d2 \in DOMAIN openFiles : openFiles[d1].entry = openFiles[d2].entry => d1 = d2
  /\ \A u \in Users : call[u] # User => CallSound(ps, u)
  /\ \A d \in DOMAIN openFiles :
       Idle(d) => openFiles[d].filePtr <= Len(text[openFiles[d].entry])
  /\ \A e \in 1 .. Len(root) : ~ Writing(e) => Filed(ps[e], Held, text[e])

(* The cluster that u waits for.                                           *)
Reading(u) ==
  /\ call[u].at \in {"seek", "read"} => owner = u /\ call[u].cluster \notin DOMAIN cache
  /\ call[u].at # "read" => call[u].buffer = << >>
  /\ call[u].at = "read" =>
       \E k \in 0 .. SectorsPerCluster - 1 :
         /\ position = call[u].cluster * SectorsPerCluster + k
         /\ Len(call[u].buffer) = k * SectorSize
         /\ \A i \in 1 .. Len(call[u].buffer) :
              call[u].buffer[i] = OnDisk(disk.data, call[u].cluster)[i]

(* What holds once VMMain has returned: no call is under way, and after    *)
(* the tables have been written the disk has all.                          *)
Ending ==
  /\ phase \in {"up", "flush", "down"}
  /\ phase # "up" => \A u \in Users : call[u] = User
  /\ phase = "down" => DOMAIN cache = {} /\ disk.fat = fat /\ disk.root = root

(* The inductive invariant.                                                *)
FilesInv ==
  /\ Typed
  /\ \E ps : Sound(ps)
  /\ \A u \in Users : Reading(u)
  /\ Ending
  /\ misread = FALSE

(* A thread in its own code is in no call.                                 *)
LEMMA UserType == User \in Calls /\ User.op = "none" /\ User.at = "user"
<1>1. << >> \in Seq(Byte)
  OBVIOUS
<1> QED BY <1>1 DEF User, Calls

(* A file does not depend on the clusters it does not use.                 *)
LEMMA FiledSame ==
  ASSUME NEW p, NEW b, NEW b1, NEW t, Len(p) \in Nat,
         \A i \in 1 .. Len(p) : b1[p[i]] = b[p[i]], Filed(p, b, t)
  PROVE  Filed(p, b1, t)
<1>1. \A k \in 0 .. Len(p) - 1 : k + 1 \in 1 .. Len(p)
  OBVIOUS
<1> QED BY <1>1 DEF Filed

(* A call does not depend on the clusters its file does not use.           *)
LEMMA InCallSame ==
  ASSUME NEW p, NEW b, NEW b1, NEW t, NEW ptr, NEW c, Len(p) \in Nat,
         \A i \in 1 .. Len(p) : b1[p[i]] = b[p[i]], InCall(p, b, t, ptr, c)
  PROVE  InCall(p, b1, t, ptr, c)
<1>1. \A k \in 0 .. Len(p) - 1 : b1[p[k + 1]] = b[p[k + 1]]
  <2>1. \A k \in 0 .. Len(p) - 1 : k + 1 \in 1 .. Len(p)
    OBVIOUS
  <2> QED BY <2>1
<1>2. Mixed(p, b, c, ptr, t)
  BY DEF InCall, Under
<1>3. Mixed(p, b1, c, ptr, t)
  BY <1>1, <1>2 DEF Mixed
<1>4. Under(p, b1, c, ptr, t)
  BY <1>3 DEF InCall, Under
<1> QED BY <1>4 DEF InCall

(* A thread does something with a file it has opened, whose chain is q and *)
(* whose pointer is at p afterwards.                                       *)
OneFile(ps, u, d, e, q, p, c) ==
  /\ LaidOut([ps EXCEPT ![e] = q], fat', root')
  /\ Len(root') = Len(root)
  /\ \A x \in 1 .. Len(root) : x # e => root'[x] = root[x] /\ text'[x] = text[x]
  /\ root'[e].size = Len(text'[e])
  /\ Elsewhere(ps, e, Len(root), Held, Held')
  /\ openFiles' = [openFiles EXCEPT ![d].filePtr = p]
  /\ call' = [call EXCEPT ![u] = c]
  /\ c # User => c.fd = d /\ InCall(q, Held', text'[e], p, c)
  /\ c = User => p <= Len(text'[e])
  /\ c.op # "write" => Filed(q, Held', text'[e])

(* A step that changes one file, on behalf of the thread that has opened   *)
(* it, keeps all sound: the others share no cluster with it.               *)
LEMMA OneFileKeeps ==
  ASSUME Typed, NEW ps, Sound(ps), NEW u \in Users, NEW d \in DOMAIN openFiles,
         openFiles[d].user = u, NEW e, openFiles[d].entry = e,
         call[u] # User => call[u].fd = d,
         NEW q \in Seq(Cluster), NEW p \in Nat, NEW c \in Calls, OneFile(ps, u, d, e, q, p, c)
  PROVE  Sound([ps EXCEPT ![e] = q])'
<1> DEFINE qs == [ps EXCEPT ![e] = q]
<1>1. /\ LaidOut(qs, fat', root')
      /\ Len(root') = Len(root)
      /\ \A x \in 1 .. Len(root) : x # e => root'[x] = root[x] /\ text'[x] = text[x]
      /\ root'[e].size = Len(text'[e])
      /\ Elsewhere(ps, e, Len(root), Held, Held')
      /\ openFiles' = [openFiles EXCEPT ![d].filePtr = p]
      /\ call' = [call EXCEPT ![u] = c]
      /\ c # User => c.fd = d /\ InCall(q, Held', text'[e], p, c)
      /\ c = User => p <= Len(text'[e])
      /\ c.op # "write" => Filed(q, Held', text'[e])
  BY DEF OneFile
<1>2. /\ LaidOut(ps, fat, root)
      /\ \A x \in 1 .. Len(root) : root[x].size = Len(text[x])
      /\ \A d1, d2 \in DOMAIN openFiles : openFiles[d1].entry = openFiles[d2].entry => d1 = d2
      /\ \A v \in Users : call[v] # User => CallSound(ps, v)
      /\ \A d1 \in DOMAIN openFiles :
           Idle(d1) => openFiles[d1].filePtr <= Len(text[openFiles[d1].entry])
      /\ \A x \in 1 .. Len(root) : ~ Writing(x) => Filed(ps[x], Held, text[x])
  BY DEF Sound
<1>3. /\ fat \in Fats /\ root \in Seq(Entry) /\ e \in 1 .. Len(root)
      /\ openFiles \in [DOMAIN openFiles -> Descriptors]
      /\ \A d1 \in DOMAIN openFiles : openFiles[d1].entry \in 1 .. Len(root)
      /\ call \in [Users -> Calls]
  BY DEF Typed
<1>4. /\ DOMAIN openFiles' = DOMAIN openFiles
      /\ openFiles'[d].filePtr = p
      /\ \A d1 \in DOMAIN openFiles :
           /\ openFiles'[d1].user = openFiles[d1].user
           /\ openFiles'[d1].entry = openFiles[d1].entry
           /\ d1 # d => openFiles'[d1].filePtr = openFiles[d1].filePtr
  BY <1>1, <1>3 DEF Descriptors
<1>5. call'[u] = c /\ \A v \in Users : v # u => call'[v] = call[v]
  BY <1>1, <1>3
<1>6. ps \in Seq(Seq(Cluster)) /\ Len(ps) = Len(root)
  BY <1>2 DEF LaidOut
<1>7. qs[e] = q /\ \A x \in 1 .. Len(root) : x # e => qs[x] = ps[x]
  BY <1>3, <1>6, ExceptSeq
<1>8. \A x \in 1 .. Len(root) : Len(ps[x]) \in Nat
  BY <1>2, <1>3, ChainFacts
<1>9. \A x \in 1 .. Len(root) : x # e => \A i \in 1 .. Len(ps[x]) : Held'[ps[x][i]] = Held[ps[x][i]]
  BY <1>1 DEF Elsewhere
<1>10. User.op = "none"
  BY UserType
<1> HIDE DEF qs
<1>11. \A x \in 1 .. Len(root) : root'[x].size = Len(text'[x])
  BY <1>1, <1>2
<1>12. \A d1, d2 \in DOMAIN openFiles : openFiles'[d1].entry = openFiles'[d2].entry => d1 = d2
  BY <1>2, <1>4
<1>13. \A d1 \in DOMAIN openFiles : d1 # d => openFiles[d1].entry # e
  BY <1>2
(* The others' calls.                                                      *)
<1>14. ASSUME NEW v \in Users, v # u, call[v] # User
       PROVE  CallSound(qs, v)'
  <2> DEFINE dv == call[v].fd
             x == openFiles[dv].entry
  <2>1. /\ dv \in DOMAIN openFiles /\ openFiles[dv].user = v
        /\ InCall(ps[x], Held, text[x], openFiles[dv].filePtr, call[v])
    BY <1>2, <1>14 DEF CallSound
  <2>2. dv # d /\ x # e /\ x \in 1 .. Len(root)
    <3>1. dv # d
      BY <1>14, <2>1
    <3> QED BY <1>3, <1>13, <2>1, <3>1
  <2>3. call'[v] = call[v]
    BY <1>5, <1>14
  <2>4. openFiles'[dv].user = v /\ openFiles'[dv].entry = x
        /\ openFiles'[dv].filePtr = openFiles[dv].filePtr /\ dv \in DOMAIN openFiles'
    BY <1>4, <2>1, <2>2
  <2>5. qs[x] = ps[x] /\ text'[x] = text[x]
    BY <1>1, <1>7, <2>2
  <2> HIDE DEF x
  <2>6. InCall(ps[x], Held', text[x], openFiles[dv].filePtr, call[v])
    BY <1>8, <1>9, <2>1, <2>2, InCallSame
  <2> HIDE DEF dv
  <2> QED BY <2>3, <2>4, <2>5, <2>6 DEF CallSound, dv
(* The call itself.                                                        *)
<1>15. ASSUME c # User PROVE CallSound(qs, u)'
  <2>1. call'[u].fd = d /\ InCall(q, Held', text'[e], p, call'[u])
    BY <1>1, <1>5, <1>15
  <2>2. openFiles'[d].user = u /\ openFiles'[d].entry = e /\ d \in DOMAIN openFiles'
    BY <1>4
  <2> QED BY <1>4, <1>7, <2>1, <2>2 DEF CallSound
<1>16. \A v \in Users : call'[v] # User => CallSound(qs, v)'
  BY <1>5, <1>14, <1>15
<1>17. ASSUME NEW d1 \in DOMAIN openFiles, Idle(d1)'
       PROVE  openFiles'[d1].filePtr <= Len(text'[openFiles'[d1].entry])
  <2>1. \A v \in Users : call'[v] # User => call'[v].fd # d1
    BY <1>17 DEF Idle
  <2>2. CASE d1 = d
    <3>1. c = User
      BY <1>1, <1>5, <2>1, <2>2
    <3> QED BY <1>1, <1>4, <2>2, <3>1
  <2>3. CASE d1 # d
    <3>1. Idle(d1)
      BY <1>5, <2>1, <2>3 DEF Idle
    <3>2. openFiles[d1].entry \in 1 .. Len(root) /\ openFiles[d1].entry # e
      BY <1>3, <1>13, <2>3
    <3> QED BY <1>1, <1>2, <1>4, <2>3, <3>1, <3>2
  <2> QED BY <2>2, <2>3
<1>18. ASSUME NEW x \in 1 .. Len(root), ~ Writing(x)' PROVE Filed(qs[x], Held', text'[x])
  <2>1. \A v \in Users : ~ (call'[v].op = "write" /\ openFiles'[call'[v].fd].entry = x)
    BY <1>18 DEF Writing
  <2>2. CASE x = e
    <3>1. c.op # "write"
      <4> SUFFICES ASSUME c.op = "write" PROVE FALSE
        OBVIOUS
      <4>1. c # User
        BY <1>10
      <4>2. c.fd = d
        BY <1>1, <4>1
      <4>3. openFiles'[call'[u].fd].entry = e
        BY <1>4, <1>5, <4>2
      <4> QED BY <1>5, <2>1, <2>2, <4>3
    <3> QED BY <1>1, <1>7, <2>2, <3>1
  <2>3. CASE x # e
    <3>1. ~ Writing(x)
      <4> SUFFICES ASSUME NEW v \in Users, call[v].op = "write",
                          openFiles[call[v].fd].entry = x
                   PROVE  FALSE
        BY DEF Writing
      <4>1. call[v] # User
        BY <1>10
      <4>2. call[v].fd \in DOMAIN openFiles
        BY <1>2, <4>1 DEF CallSound
      <4>3. v # u
        BY <2>3, <4>1
      <4>4. call'[v] = call[v] /\ openFiles'[call[v].fd].entry = x
        BY <1>4, <1>5, <4>2, <4>3
      <4> QED BY <2>1, <4>4
    <3>2. Filed(ps[x], Held, text[x])
      BY <1>2, <3>1
    <3>3. Filed(ps[x], Held', text[x])
      BY <1>8, <1>9, <2>3, <3>2, FiledSame
    <3> QED BY <1>1, <1>7, <2>3, <3>3
  <2> QED BY <2>2, <2>3
<1>19. Sound(qs)'
  BY <1>1, <1>4, <1>11, <1>12, <1>16, <1>17, <1>18 DEF Sound
<1> QED BY <1>19 DEF qs

(* The larger and the smaller of two numbers.                              *)
LEMMA MaxMin ==
  ASSUME NEW i \in Int, NEW k \in Int
  PROVE  /\ Max({i, k}) = IF i <= k THEN k ELSE i
         /\ Min({i, k}) = IF i <= k THEN i ELSE k
<1>1. ASSUME NEW m \in {i, k}, \A y \in {i, k} : m >= y
      PROVE  m = IF i <= k THEN k ELSE i
  BY <1>1
<1>2. ASSUME NEW m \in {i, k}, \A y \in {i, k} : m <= y
      PROVE  m = IF i <= k THEN i ELSE k
  BY <1>2
<1>3. \E m \in {i, k} : \A y \in {i, k} : m >= y
  OBVIOUS
<1>4. \E m \in {i, k} : \A y \in {i, k} : m <= y
  OBVIOUS
<1>5. Max({i, k}) \in {i, k} /\ \A y \in {i, k} : Max({i, k}) >= y
  BY <1>3 DEF Max
<1>6. Min({i, k}) \in {i, k} /\ \A y \in {i, k} : Min({i, k}) <= y
  BY <1>4 DEF Min
<1> QED BY <1>1, <1>2, <1>5, <1>6

(* Bytes laid over others, no further than their end.                      *)
LEMMA OverlayIs ==
  ASSUME NEW t \in Seq(Byte), NEW w \in Seq(Byte), NEW s \in 0 .. Len(t)
  PROVE  /\ Overlay(t, s, w) \in Seq(Byte)
         /\ Len(Overlay(t, s, w)) = IF s + Len(w) <= Len(t) THEN Len(t) ELSE s + Len(w)
         /\ \A i \in 1 .. Len(Overlay(t, s, w)) :
              Overlay(t, s, w)[i] = IF s < i /\ i <= s + Len(w) THEN w[i - s] ELSE t[i]
<1> DEFINE n == IF s + Len(w) <= Len(t) THEN Len(t) ELSE s + Len(w)
           o == Overlay(t, s, w)
<1>1. /\ Len(t) \in Nat /\ Len(w) \in Nat /\ s \in Nat /\ s <= Len(t)
      /\ t \in [1 .. Len(t) -> Byte] /\ w \in [1 .. Len(w) -> Byte]
  BY LenProperties
<1>2. Max({Len(t), s + Len(w)}) = n
  BY <1>1, MaxMin
<1>3. o = [i \in 1 .. n |-> IF s < i /\ i <= s + Len(w) THEN w[i - s] ELSE t[i]]
  <2>1. \A i \in 1 .. n : ~ (s < i /\ i <= s + Len(w)) => i <= Len(t)
    BY <1>1
  <2> HIDE DEF n
  <2> QED BY <1>2, <2>1 DEF Overlay
<1>4. n \in Nat
  BY <1>1
<1>5. ASSUME NEW i \in 1 .. n
      PROVE  (IF s < i /\ i <= s + Len(w) THEN w[i - s] ELSE t[i]) \in Byte
  <2>1. CASE s < i /\ i <= s + Len(w)
    <3>1. i - s \in 1 .. Len(w)
      BY <1>1, <2>1
    <3> QED BY <1>1, <2>1, <3>1
  <2>2. CASE ~ (s < i /\ i <= s + Len(w))
    <3>1. i \in 1 .. Len(t)
      BY <1>1, <2>2
    <3> QED BY <1>1, <2>2, <3>1
  <2> QED BY <2>1, <2>2
<1> HIDE DEF n, o
<1>6. o \in [1 .. n -> Byte]
  BY <1>3, <1>5
<1>7. o \in Seq(Byte) /\ Len(o) = n
  BY <1>4, <1>6
<1>8. \A i \in 1 .. n : o[i] = IF s < i /\ i <= s + Len(w) THEN w[i - s] ELSE t[i]
  BY <1>3
<1> QED BY <1>7, <1>8 DEF o, n

(* What has been written is filed.                                         *)
LEMMA WrittenFiled ==
  ASSUME NEW q, NEW b, NEW c \in Calls, NEW ptr \in Nat, NEW t \in Seq(Byte),
         Under(q, b, c, ptr, t)
  PROVE  /\ c.op = "read" => Filed(q, b, t)
         /\ c.op = "write" =>
              /\ ptr - Len(c.done) \in 0 .. Len(t)
              /\ Filed(q, b, Overlay(t, ptr - Len(c.done), c.done))
              /\ Len(Overlay(t, ptr - Len(c.done), c.done)) =
                   IF ptr <= Len(t) THEN Len(t) ELSE ptr
<1> DEFINE s == ptr - Len(c.done)
           o == Overlay(t, s, c.done)
<1>1. /\ Len(c.done) \in Nat /\ c.done \in Seq(Byte) /\ Len(t) \in Nat
      /\ ClusterSize \in Nat \ {0}
  BY ClusterSizeType, LenProperties DEF Calls
<1>2. /\ Len(c.done) <= ptr /\ s <= Len(t) /\ Mixed(q, b, c, ptr, t)
  BY DEF Under
<1>3. s \in 0 .. Len(t) /\ s + Len(c.done) = ptr
  BY <1>1, <1>2
<1> HIDE DEF s, o
<1>4. ASSUME c.op = "read" PROVE Filed(q, b, t)
  BY <1>2, <1>4 DEF Mixed, Filed, Written
<1>5. ASSUME c.op = "write"
      PROVE  Filed(q, b, o) /\ Len(o) = IF ptr <= Len(t) THEN Len(t) ELSE ptr
  <2>1. /\ Len(o) = IF ptr <= Len(t) THEN Len(t) ELSE ptr
        /\ \A i \in 1 .. Len(o) :
             o[i] = IF s < i /\ i <= ptr THEN c.done[i - s] ELSE t[i]
    BY <1>1, <1>3, OverlayIs DEF o
  <2>2. ASSUME NEW k \in 0 .. Len(q) - 1, NEW i \in 1 .. ClusterSize, k * ClusterSize + i <= Len(o)
        PROVE  b[q[k + 1]][i] = o[k * ClusterSize + i]
    <3> DEFINE n == k * ClusterSize + i
    <3>1. k \in Nat /\ i \in Nat \ {0}
      BY <1>1
    <3>2. n \in Nat \ {0}
      BY <1>1, <3>1
    <3>3. /\ s < n /\ n <= ptr => b[q[k + 1]][i] = c.done[n - s]
          /\ ~ (s < n /\ n <= ptr) /\ n <= Len(t) => b[q[k + 1]][i] = t[n]
      BY <1>2, <1>5 DEF Mixed, Written, s
    <3>4. n <= Len(o)
      BY <2>2
    <3> HIDE DEF n
    <3>5. n \in 1 .. Len(o)
      BY <1>1, <2>1, <3>2, <3>4
    <3>6. o[n] = IF s < n /\ n <= ptr THEN c.done[n - s] ELSE t[n]
      BY <2>1, <3>5
    <3>7. ~ (s < n /\ n <= ptr) => n <= Len(t)
      BY <1>1, <1>3, <2>1, <3>2, <3>4
    <3>8. b[q[k + 1]][i] = o[n]
      BY <3>3, <3>6, <3>7
    <3> QED BY <3>8 DEF n
  <2> QED BY <2>1, <2>2 DEF Filed
<1> QED BY <1>3, <1>4, <1>5 DEF s, o

(* What has been read is what was to be read.                              *)
ReadRight(c, ptr, t) ==
  c.done = SubSeq(t, ptr - Len(c.done) + 1,
                  Min({Len(t), ptr - Len(c.done) + (Len(c.done) + c.left)}))

(* A read that has nothing left to do has the bytes from where it began up *)
(* to the end of the request or of the file.                               *)
LEMMA ReadIs ==
  ASSUME NEW q, NEW b, NEW c \in Calls, NEW ptr \in Nat, NEW t \in Seq(Byte),
         Under(q, b, c, ptr, t), c.op = "read", ~ ToDo(c, ptr)
  PROVE  ReadRight(c, ptr, t)
<1> DEFINE s == ptr - Len(c.done)
           n == Len(c.done)
           w == SubSeq(t, s + 1, ptr)
<1>1. /\ n \in Nat /\ c.done \in Seq(Byte) /\ Len(t) \in Nat /\ c.left \in Nat
      /\ c.done \in [1 .. n -> Byte] /\ t \in [1 .. Len(t) -> Byte]
  BY LenProperties DEF Calls
<1>2. /\ n <= ptr /\ ptr <= Len(t) /\ c.size = Len(t)
      /\ \A j \in 1 .. n : c.done[j] = t[s + j]
  BY DEF Under
<1>3. s \in Nat /\ s + n = ptr
  BY <1>1, <1>2
<1>4. ~ ToDo(c, ptr) /\ c.op = "read"
  OBVIOUS
<1> HIDE DEF s, n, w
<1>5. c.left = 0 \/ ptr = Len(t)
  <2>1. c.left = 0 \/ ptr = c.size
    BY <1>1, <1>4 DEF ToDo
  <2> QED BY <1>2, <2>1
<1>6. Min({Len(t), s + (n + c.left)}) = ptr
  <2>1. s + (n + c.left) = ptr + c.left
    BY <1>1, <1>3
  <2>2. Min({Len(t), ptr + c.left}) = IF Len(t) <= ptr + c.left THEN Len(t) ELSE ptr + c.left
    <3>1. Len(t) \in Int /\ ptr + c.left \in Int
      BY <1>1
    <3> QED BY <3>1, MaxMin
  <2>3. (IF Len(t) <= ptr + c.left THEN Len(t) ELSE ptr + c.left) = ptr
    <3> DEFINE m == c.left
               l == Len(t)
    <3>1. m \in Nat /\ l \in Nat /\ ptr \in Nat /\ ptr <= l /\ (m = 0 \/ ptr = l)
      BY <1>1, <1>2, <1>5
    <3> HIDE DEF m, l
    <3>2. (IF l <= ptr + m THEN l ELSE ptr + m) = ptr
      BY <3>1
    <3> QED BY <3>2 DEF m, l
  <2> QED BY <2>1, <2>2, <2>3
<1>7. Len(w) = n /\ \A j \in 1 .. n : w[j] = t[s + j]
  <2>1. \A i \in s + 1 .. ptr : t[i] \in Byte
    <3>1. \A i \in s + 1 .. ptr : i \in 1 .. Len(t)
      BY <1>1, <1>2, <1>3
    <3> QED BY <1>1, <3>1
  <2>2. /\ w \in Seq(Byte)
        /\ Len(w) = (IF s + 1 <= ptr THEN ptr - (s + 1) + 1 ELSE 0)
        /\ \A i \in 1 .. ptr - (s + 1) + 1 : w[i] = t[(s + 1) + i - 1]
    BY <1>3, <2>1, SubSeqProperties DEF w
  <2>3. Len(w) = n
    BY <1>1, <1>3, <2>2
  <2>4. ASSUME NEW j \in 1 .. n PROVE w[j] = t[s + j]
    <3>1. j \in 1 .. ptr - (s + 1) + 1 /\ (s + 1) + j - 1 = s + j
      BY <1>1, <1>3
    <3> QED BY <2>2, <3>1
  <2> QED BY <2>3, <2>4
<1>8. w \in Seq(Byte)
  <2>1. \A i \in s + 1 .. ptr : t[i] \in Byte
    <3>1. \A i \in s + 1 .. ptr : i \in 1 .. Len(t)
      BY <1>1, <1>2, <1>3
    <3> QED BY <1>1, <3>1
  <2> QED BY <1>3, <2>1, SubSeqProperties DEF w
<1>9. c.done = w
  <2>1. \A j \in 1 .. n : c.done[j] = w[j]
    BY <1>2, <1>7
  <2>2. Len(c.done) = Len(w)
    BY <1>7 DEF n
  <2> QED BY <1>1, <1>8, <2>1, <2>2, SeqEqual DEF n
<1> QED BY <1>6, <1>9 DEF s, n, w, ReadRight

(* The call on the file of entry e has ended with its pointer at ptr.      *)
Ended(f, ps, e, b, ptr) ==
  /\ root' \in Seq(Entry) /\ Len(root') = Len(root)
  /\ text' \in Seq(Seq(Byte)) /\ Len(text') = Len(text)
  /\ LaidOut(ps, f, root')
  /\ \A x \in 1 .. Len(root) : x # e => root'[x] = root[x] /\ text'[x] = text[x]
  /\ root'[e].size = Len(text'[e])
  /\ ptr <= Len(text'[e])
  /\ Filed(ps[e], b, text'[e])
  /\ misread' = FALSE

(* The directory z is r but for the size of entry e.                       *)
Resized(r, e, s, z) ==
  /\ z \in Seq(Entry) /\ Len(z) = Len(r)
  /\ z[e].size = s
  /\ \A x \in 1 .. Len(r) : x # e => z[x] = r[x]

(* A file that gets another size.                                          *)
LEMMA ResizedIs ==
  ASSUME NEW r \in Seq(Entry), NEW e \in 1 .. Len(r), NEW s \in Nat
  PROVE  Resized(r, e, s, [r EXCEPT ![e].size = s])
BY ResizeIs DEF Resized

(* What a call does last: a read compares, a write sets the size that it   *)
(* knows.                                                                  *)
LEMMA CompleteKeeps ==
  ASSUME root \in Seq(Entry), text \in Seq(Seq(Byte)), Len(text) = Len(root), misread = FALSE,
         NEW f \in Fats, NEW ps, LaidOut(ps, f, root),
         NEW e \in 1 .. Len(root), root[e].size = Len(text[e]),
         NEW c \in Calls, NEW ptr \in Nat, NEW b, openFiles[c.fd].entry = e,
         Under(ps[e], b, c, ptr, text[e]), c.op = "read" => ~ ToDo(c, ptr),
         NEW u, Complete(u, c, ptr)
  PROVE  Ended(f, ps, e, b, ptr)
<1> DEFINE t == text[e]
           s == ptr - Len(c.done)
           asked == Len(c.done) + c.left
<1>1. /\ root' = IF c.op = "write" /\ ptr > c.size
                 THEN [root EXCEPT ![e].size = ptr]
                 ELSE root
      /\ \/ /\ c.op = "write"
            /\ text' = [text EXCEPT ![e] = Overlay(text[e], s, c.done)]
            /\ misread' = misread
         \/ /\ c.op = "read"
            /\ misread' = (misread \/ s < 0 \/ c.done # SubSeq(t, s + 1, Min({Len(t), s + asked})))
            /\ text' = text
  BY DEF Complete
<1>2. /\ t \in Seq(Byte) /\ Len(t) \in Nat /\ c.done \in Seq(Byte) /\ Len(c.done) \in Nat
      /\ c.left \in Nat
  BY ElementOfSeq, LenProperties DEF Calls
<1>3. c.size = Len(t) /\ ptr <= Len(ps[e]) * ClusterSize
      /\ (c.op = "read" => ptr <= Len(t)) /\ Len(c.done) <= ptr
  BY DEF Under
<1>4. CASE c.op = "read"
  <2>1. c.done = SubSeq(t, s + 1, Min({Len(t), s + asked}))
    <3>1. Under(ps[e], b, c, ptr, t) /\ ~ ToDo(c, ptr)
      BY <1>4
    <3>2. ReadRight(c, ptr, t)
      BY <1>2, <1>4, <3>1, ReadIs
    <3> QED BY <3>2 DEF ReadRight
  <2>2. Filed(ps[e], b, t)
    BY <1>2, <1>4, WrittenFiled
  <2>3. ~ (s < 0)
    BY <1>2, <1>3
  <2> HIDE DEF s, asked
  <2>4. root' = root /\ text' = text /\ misread' = FALSE
    BY <1>1, <1>4, <2>1, <2>3
  <2> QED BY <1>3, <1>4, <2>2, <2>4 DEF Ended
<1>5. CASE c.op = "write"
  <2> DEFINE o == Overlay(t, s, c.done)
  <2>1. /\ s \in 0 .. Len(t) /\ Filed(ps[e], b, o)
        /\ Len(o) = IF ptr <= Len(t) THEN Len(t) ELSE ptr
    BY <1>2, <1>5, WrittenFiled
  <2>2. o \in Seq(Byte)
    BY <1>2, <2>1, OverlayIs
  <2>3. text' = [text EXCEPT ![e] = o] /\ misread' = FALSE
    BY <1>1, <1>5
  <2> HIDE DEF o, s, asked
  <2>4. /\ text' \in Seq(Seq(Byte)) /\ Len(text') = Len(text) /\ text'[e] = o
        /\ \A x \in 1 .. Len(root) : x # e => text'[x] = text[x]
    BY <2>2, <2>3, ExceptSeq
  <2>5. CASE ptr > Len(t)
    <3>1. root' = [root EXCEPT ![e].size = ptr]
      BY <1>1, <1>3, <1>5, <2>5
    <3>2. /\ root' \in Seq(Entry) /\ Len(root') = Len(root) /\ root'[e].size = ptr
          /\ \A x \in 1 .. Len(root) : x # e => root'[x] = root[x]
      <4>1. Resized(root, e, ptr, [root EXCEPT ![e].size = ptr])
        BY ResizedIs
      <4> QED BY <3>1, <4>1 DEF Resized
    <3>3. LaidOut(ps, f, root')
      BY <1>3, <3>1, ResizeLaysOut
    <3>4. Len(o) = ptr
      BY <1>2, <2>1, <2>5
    <3> QED BY <2>1, <2>3, <2>4, <3>2, <3>3, <3>4 DEF Ended
  <2>6. CASE ~ (ptr > Len(t))
    <3>1. root' = root
      BY <1>1, <1>3, <1>5, <2>6
    <3>2. Len(o) = Len(t) /\ ptr <= Len(t)
      BY <1>2, <2>1, <2>6
    <3> QED BY <2>1, <2>3, <2>4, <3>1, <3>2 DEF Ended
  <2> QED BY <2>5, <2>6
<1> QED BY <1>1, <1>4, <1>5

(* What a step keeps of the invariant while the system is up.              *)
Kept == Typed /\ (\E ps : Sound(ps)) /\ (\A u \in Users : Reading(u)) /\ misread = FALSE

(* The call c of u may go on with the clusters ca.                         *)
MayGoOn(ps, u, c, ca) ==
  LET e == openFiles[c.fd].entry
      ptr == openFiles[c.fd].filePtr
  IN  /\ c.fd \in DOMAIN openFiles /\ openFiles[c.fd].user = u
      /\ call[u] # User => call[u].fd = c.fd
      /\ owner \in {Nobody, u}
      /\ Cached(ca) /\ Holding(ca, disk.data) = Held
      /\ Under(ps[e], Held, c, ptr, text[e])
      /\ ToDo(c, ptr) => At(ps[e], c, ptr)
      /\ c.buffer = << >>

(* The loop starts well.                                                   *)
LEMMA GoingStarts ==
  ASSUME Typed, NEW ps, Sound(ps), NEW u \in Users, NEW c \in Calls, NEW ca,
         MayGoOn(ps, u, c, ca)
  PROVE  \E j \in Jobs :
           /\ j.cached = DOMAIN ca /\ j.call = c /\ j.clusters = Held /\ j.chains = ps
           /\ j.entry = openFiles[c.fd].entry /\ j.root = root /\ j.data = disk.data
           /\ j.text = text[openFiles[c.fd].entry]
           /\ Going(j, [c |-> c, ptr |-> openFiles[c.fd].filePtr, fat |-> fat,
                        cache |-> ca, next |-> "more"])
<1> DEFINE e == openFiles[c.fd].entry
           ptr == openFiles[c.fd].filePtr
           t == text[e]
           x == [c |-> c, ptr |-> ptr, fat |-> fat, cache |-> ca, next |-> "more"]
           j == [cached |-> DOMAIN ca, call |-> c, clusters |-> Held, chains |-> ps,
                 entry |-> e, root |-> root, data |-> disk.data, text |-> t]
<1>1. /\ fat \in Fats /\ root \in Seq(Entry) /\ disk.data \in Sectored
      /\ text \in Seq(Seq(Byte)) /\ Len(text) = Len(root)
      /\ openFiles \in [DOMAIN openFiles -> Descriptors]
      /\ \A d \in DOMAIN openFiles : openFiles[d].entry \in 1 .. Len(root)
  BY DEF Typed
<1>2. /\ c.fd \in DOMAIN openFiles /\ Cached(ca) /\ Holding(ca, disk.data) = Held
      /\ Under(ps[e], Held, c, ptr, t)
      /\ ToDo(c, ptr) => At(ps[e], c, ptr)
  BY DEF MayGoOn
<1>3. ptr \in Nat /\ e \in Nat /\ e \in 1 .. Len(root)
  BY <1>1, <1>2 DEF Descriptors
<1>4. t \in Seq(Byte)
  BY <1>1, <1>3, ElementOfSeq
<1>5. /\ LaidOut(ps, fat, root) /\ ps \in Seq(Seq(Cluster)) /\ Len(ps) = Len(root)
      /\ root[e].size = Len(t)
  BY <1>3 DEF Sound, LaidOut
<1>6. Held \in Contents
  BY <1>1, <1>2, HoldingType
<1> HIDE DEF ptr, e, t
<1>7. j \in Jobs
  <2>1. DOMAIN ca \in SUBSET Cluster
    BY <1>2 DEF Cached
  <2>2. j \in [ cached : SUBSET Cluster, call : Calls, clusters : Contents,
                chains : Seq(Seq(Cluster)), entry : Nat, root : Seq(Entry),
                data : Sectored, text : Seq(Byte) ]
    BY <1>1, <1>3, <1>4, <1>5, <1>6, <2>1
  <2> QED BY <1>3, <1>5, <2>2 DEF Jobs
<1>8. ps[e] \in Seq(Cluster)
  BY <1>3, <1>5, ElementOfSeq
<1>9. [ps EXCEPT ![e] = ps[e]] = ps
  BY <1>3, <1>5
<1>10. x \in CopyStates(DOMAIN ca)
  BY <1>1, <1>2, <1>3 DEF CopyStates, Cached
<1>11. /\ j.cached = DOMAIN ca /\ j.call = c /\ j.clusters = Held /\ j.chains = ps
       /\ j.entry = e /\ j.root = root /\ j.data = disk.data /\ j.text = t
  OBVIOUS
<1>12. /\ x.c = c /\ x.ptr = ptr /\ x.fat = fat /\ x.cache = ca /\ x.next = "more"
  OBVIOUS
<1> HIDE DEF j, x
<1>13. Along(j, x, ps[e])
  <2>1. Elsewhere(ps, e, Len(root), Held, Held)
    BY DEF Elsewhere
  <2>2. Fits(j, x, ps[e])
    BY <1>2, <1>5, <1>9, <1>11, <1>12, <2>1 DEF Fits
  <2> QED BY <1>2, <1>12, <2>2 DEF Along
<1>14. Going(j, x)
  BY <1>8, <1>10, <1>11, <1>12, <1>13 DEF Going, SameCall
<1> QED BY <1>7, <1>11, <1>14 DEF x, ptr, e, t

(* The file pointer of a descriptor is moved.                              *)
LEMMA PointerMoved ==
  ASSUME Typed, NEW d \in DOMAIN openFiles, NEW p \in Nat,
         openFiles' = [openFiles EXCEPT ![d].filePtr = p], Len(root') = Len(root)
  PROVE  /\ DOMAIN openFiles' = DOMAIN openFiles
         /\ openFiles' \in [DOMAIN openFiles' -> Descriptors]
         /\ \A d1 \in DOMAIN openFiles' : openFiles'[d1].entry \in 1 .. Len(root')
<1>1. /\ openFiles \in [DOMAIN openFiles -> Descriptors]
      /\ \A d1 \in DOMAIN openFiles : openFiles[d1].entry \in 1 .. Len(root)
  BY DEF Typed
<1>2. DOMAIN openFiles' = DOMAIN openFiles
  OBVIOUS
<1>3. \A d1 \in DOMAIN openFiles :
        openFiles'[d1] \in Descriptors /\ openFiles'[d1].entry = openFiles[d1].entry
  BY <1>1 DEF Descriptors
<1>4. openFiles' \in [DOMAIN openFiles -> Descriptors]
  BY <1>3
<1> QED BY <1>1, <1>2, <1>3, <1>4

(* A call that holds the mutex, or takes it, copies until it waits for a   *)
(* cluster, waits for the release, or ends.                                *)
LEMMA GoOnKeeps ==
  ASSUME Kept, NEW ps, Sound(ps), NEW u \in Users, NEW c \in Calls, NEW ca,
         MayGoOn(ps, u, c, ca), GoOn(u, c, ca), UNCHANGED <<nextFD, disk>>, position' \in Nat
  PROVE  Kept'
<1> DEFINE d == c.fd
           others == Waiters \ {u}
           y == Copy([c |-> c, ptr |-> openFiles[c.fd].filePtr, fat |-> fat,
                      cache |-> ca, next |-> "more"])
<1>1. PICK e : e = openFiles[d].entry
  OBVIOUS
<1> DEFINE t == text[e]
<1>2. Typed /\ misread = FALSE /\ \A v \in Users : Reading(v)
  BY DEF Kept
<1>3. /\ d \in DOMAIN openFiles /\ openFiles[d].user = u
      /\ call[u] # User => call[u].fd = d
      /\ owner \in {Nobody, u} /\ Cached(ca) /\ c.buffer = << >>
  BY DEF MayGoOn
<1>4. PICK j \in Jobs :
        /\ j.cached = DOMAIN ca /\ j.call = c /\ j.clusters = Held /\ j.chains = ps
        /\ j.entry = e /\ j.root = root /\ j.data = disk.data /\ j.text = t
        /\ Going(j, y) /\ y.next \in {"miss", "done"}
  <2>1. \E j \in Jobs :
          /\ j.cached = DOMAIN ca /\ j.call = c /\ j.clusters = Held /\ j.chains = ps
          /\ j.entry = openFiles[c.fd].entry /\ j.root = root /\ j.data = disk.data
          /\ j.text = text[openFiles[c.fd].entry]
          /\ Going(j, [c |-> c, ptr |-> openFiles[c.fd].filePtr, fat |-> fat,
                       cache |-> ca, next |-> "more"])
    BY <1>2, GoingStarts
  <2> QED BY <1>1, <2>1, CopyKeeps
<1>5. /\ fat' = y.fat /\ cache' = y.cache
      /\ openFiles' = [openFiles EXCEPT ![d].filePtr = y.ptr]
      /\ \/ /\ y.next = "miss" /\ call' = [call EXCEPT ![u] = [y.c EXCEPT !.at = "seek"]]
            /\ owner' = u /\ UNCHANGED <<root, text, misread>>
         \/ y.next = "wild"
         \/ /\ y.next = "done"
            /\ owner' \in (IF others = {} THEN {Nobody} ELSE others)
            /\ \/ Complete(u, y.c, y.ptr)
               \/ /\ call' = [call EXCEPT ![u] = [y.c EXCEPT !.at = "unlocked"]]
                  /\ UNCHANGED <<root, text, misread>>
  BY DEF GoOn, history
<1> HIDE DEF y
<1>6. /\ y \in CopyStates(DOMAIN ca) /\ SameCall(c, y.c)
      /\ y.next = "miss" => ToDo(y.c, y.ptr) /\ y.c.cluster \notin DOMAIN ca
      /\ y.next = "done" /\ y.c.op = "read" => ~ ToDo(y.c, y.ptr)
      /\ \E q \in Seq(Cluster) : Along(j, y, q)
  BY <1>4 DEF Going
<1>7. PICK q \in Seq(Cluster) : Along(j, y, q)
  BY <1>6
<1>8. /\ LaidOut([ps EXCEPT ![e] = q], y.fat, root)
      /\ Elsewhere(ps, e, Len(root), Held, Holding(y.cache, disk.data))
      /\ Under(q, Holding(y.cache, disk.data), y.c, y.ptr, t)
      /\ y.next = "miss" => At(q, y.c, y.ptr)
  BY <1>4, <1>6, <1>7 DEF Along, Fits
<1>9. Held' = Holding(y.cache, disk.data)
  BY <1>5 DEF Held
<1>10. /\ y.c \in Calls /\ y.ptr \in Nat /\ y.fat \in Fats /\ y.cache \in [DOMAIN ca -> Block]
      /\ y.c.fd = d /\ y.c.buffer = << >> /\ y.c.op \in {"read", "write"}
  BY <1>3, <1>6, <1>8 DEF CopyStates, SameCall, Under
<1>11. Cached(cache') /\ DOMAIN cache' = DOMAIN ca /\ fat' \in Fats
  BY <1>3, <1>5, <1>10 DEF Cached
<1>12. /\ root \in Seq(Entry) /\ e \in 1 .. Len(root) /\ text \in Seq(Seq(Byte))
       /\ Len(text) = Len(root) /\ t \in Seq(Byte) /\ root[e].size = Len(t)
  <2>1. /\ root \in Seq(Entry) /\ e \in 1 .. Len(root) /\ text \in Seq(Seq(Byte))
        /\ Len(text) = Len(root)
    BY <1>1, <1>2, <1>3 DEF Typed
  <2>2. root[e].size = Len(t)
    BY <2>1 DEF Sound
  <2> QED BY <2>1, <2>2, ElementOfSeq
<1> HIDE DEF t
<1>13. [ps EXCEPT ![e] = q][e] = q
  BY <1>12 DEF Sound, LaidOut
<1>14. call \in [Users -> Calls] /\ Users \subseteq Nat \ {0}
  BY <1>2, FileAssumption DEF Typed
(* The call has been brought to a stop as k, with the file as it was.      *)
<1>15. ASSUME NEW k \in Calls, k # User, k.fd = d, k.op = y.c.op,
              InCall(q, Held', t, y.ptr, k), call' = [call EXCEPT ![u] = k],
              UNCHANGED <<root, text, misread>>
       PROVE  \E qs : Sound(qs)'
  <2>1. k.op # "write" => Filed(q, Held', t)
    BY <1>8, <1>9, <1>10, <1>12, <1>15, WrittenFiled
  <2>2. OneFile(ps, u, d, e, q, y.ptr, k)
    <3>1. root' = root /\ text' = text
      BY <1>15
    <3>2. Elsewhere(ps, e, Len(root), Held, Held')
      BY <1>8, <1>9
    <3>3. LaidOut([ps EXCEPT ![e] = q], fat', root)
      BY <1>5, <1>8
    <3> QED BY <1>5, <1>12, <1>15, <2>1, <3>1, <3>2, <3>3 DEF OneFile, t
  <2>3. Sound([ps EXCEPT ![e] = q])'
    BY <1>1, <1>2, <1>3, <1>10, <2>2, OneFileKeeps
  <2> QED BY <2>3
(* Those who wait neither read nor have read anything.                     *)
<1>16. ASSUME NEW v \in Users, v # u, NEW k \in Calls, call' = [call EXCEPT ![u] = k]
       PROVE  Reading(v)'
  <2>1. Reading(v) /\ owner # v
    BY <1>2, <1>3, <1>14, <1>16 DEF Nobody
  <2>2. call[v].at \notin {"seek", "read"} /\ call[v].buffer = << >>
    BY <2>1 DEF Reading
  <2>3. call'[v] = call[v]
    BY <1>14, <1>16
  <2> QED BY <2>2, <2>3 DEF Reading
<1>17. ASSUME NEW k \in Calls, call' = [call EXCEPT ![u] = k],
              root' \in Seq(Entry), Len(root') = Len(root),
              text' \in Seq(Seq(Byte)), Len(text') = Len(text),
              owner' \in Users \union {Nobody}
       PROVE  Typed'
  <2>1. /\ DOMAIN openFiles' = DOMAIN openFiles
        /\ openFiles' \in [DOMAIN openFiles' -> Descriptors]
        /\ \A d1 \in DOMAIN openFiles' : openFiles'[d1].entry \in 1 .. Len(root')
    BY <1>2, <1>3, <1>5, <1>10, <1>17, PointerMoved
  <2>2. call' \in [Users -> Calls]
    BY <1>14, <1>17
  <2>3. /\ Len(root) <= RootEntryCount
        /\ nextFD \in Nat /\ nextFD >= 3 /\ DOMAIN openFiles \subseteq 3 .. nextFD - 1
        /\ disk \in [fat : Fats, root : Seq(Entry), data : Sectored]
        /\ Len(text) = Len(root)
    BY <1>2 DEF Typed
  <2> QED BY <1>11, <1>17, <2>1, <2>2, <2>3 DEF Typed
<1>18. CASE /\ y.next = "miss" /\ call' = [call EXCEPT ![u] = [y.c EXCEPT !.at = "seek"]]
            /\ owner' = u /\ UNCHANGED <<root, text, misread>>
  <2> DEFINE k == [y.c EXCEPT !.at = "seek"]
  <2>1. /\ k \in Calls /\ k.at = "seek" /\ k.op = y.c.op /\ k.fd = d /\ k.buffer = << >>
        /\ k.size = y.c.size /\ k.byte = y.c.byte /\ k.done = y.c.done
        /\ k.offset = y.c.offset /\ k.left = y.c.left /\ k.cluster = y.c.cluster
    BY <1>10 DEF Calls
  <2>2. call' = [call EXCEPT ![u] = k]
    BY <1>18
  <2> HIDE DEF k
  <2>3. k # User
    BY <2>1, UserType
  <2>4. InCall(q, Held', t, y.ptr, k)
    <3>1. Under(q, Held', k, y.ptr, t)
      <4>1. Under(q, Held', y.c, y.ptr, t)
        BY <1>8, <1>9
      <4>2. k.offset <= ClusterSize
        BY <2>1, <4>1 DEF Under
      <4> QED BY <2>1, <4>1, <4>2, UnderMoved
    <3>2. ToDo(k, y.ptr) /\ At(q, k, y.ptr)
      BY <1>6, <1>8, <1>18, <2>1 DEF ToDo, At
    <3> QED BY <2>1, <3>1, <3>2 DEF InCall
  <2>5. \E qs : Sound(qs)'
    BY <1>15, <1>18, <2>1, <2>2, <2>3, <2>4
  <2>6. Typed'
    BY <1>12, <1>17, <1>18, <2>1, <2>2
  <2>7. Reading(u)'
    <3>1. call'[u] = k
      BY <1>14, <2>2
    <3> QED BY <1>6, <1>11, <1>18, <2>1, <3>1 DEF Reading
  <2> QED BY <1>2, <1>16, <1>18, <2>1, <2>2, <2>5, <2>6, <2>7 DEF Kept
<1>19. ASSUME y.next = "done", owner' \in (IF others = {} THEN {Nobody} ELSE others)
       PROVE  owner' \in Users \union {Nobody}
  BY <1>19 DEF Waiters
<1>20. CASE /\ y.next = "done"
            /\ owner' \in (IF others = {} THEN {Nobody} ELSE others)
            /\ call' = [call EXCEPT ![u] = [y.c EXCEPT !.at = "unlocked"]]
            /\ UNCHANGED <<root, text, misread>>
  <2> DEFINE k == [y.c EXCEPT !.at = "unlocked"]
  <2>1. /\ k \in Calls /\ k.at = "unlocked" /\ k.op = y.c.op /\ k.fd = d /\ k.buffer = << >>
        /\ k.size = y.c.size /\ k.byte = y.c.byte /\ k.done = y.c.done
        /\ k.offset = y.c.offset /\ k.left = y.c.left /\ k.cluster = y.c.cluster
    BY <1>10 DEF Calls
  <2>2. call' = [call EXCEPT ![u] = k]
    BY <1>20
  <2> HIDE DEF k
  <2>3. k # User
    BY <2>1, UserType
  <2>4. InCall(q, Held', t, y.ptr, k)
    <3>1. Under(q, Held', k, y.ptr, t)
      <4>1. Under(q, Held', y.c, y.ptr, t)
        BY <1>8, <1>9
      <4>2. k.offset <= ClusterSize
        BY <2>1, <4>1 DEF Under
      <4> QED BY <2>1, <4>1, <4>2, UnderMoved
    <3>2. k.op = "read" => ~ ToDo(k, y.ptr)
      BY <1>6, <1>20, <2>1 DEF ToDo
    <3> QED BY <2>1, <3>1, <3>2 DEF InCall
  <2>5. \E qs : Sound(qs)'
    BY <1>15, <1>20, <2>1, <2>2, <2>3, <2>4
  <2>6. Typed'
    BY <1>12, <1>17, <1>19, <1>20, <2>1, <2>2
  <2>7. Reading(u)'
    <3>1. call'[u] = k
      BY <1>14, <2>2
    <3> QED BY <2>1, <3>1 DEF Reading
  <2> QED BY <1>2, <1>16, <1>20, <2>1, <2>2, <2>5, <2>6, <2>7 DEF Kept
<1>21. CASE /\ y.next = "done"
            /\ owner' \in (IF others = {} THEN {Nobody} ELSE others)
            /\ Complete(u, y.c, y.ptr)
  <2> DEFINE qs == [ps EXCEPT ![e] = q]
  <2>1. LaidOut(qs, y.fat, root) /\ qs[e] = q
    BY <1>8, <1>13
  <2>2. Under(qs[e], Held', y.c, y.ptr, t)
    BY <1>8, <1>9, <2>1
  <2>3. openFiles[y.c.fd].entry = e
    BY <1>1, <1>10
  <2> HIDE DEF qs
  <2>4. Ended(y.fat, qs, e, Held', y.ptr)
    BY <1>2, <1>6, <1>10, <1>12, <1>21, <2>1, <2>2, <2>3, CompleteKeeps DEF t
  <2>5. call' = [call EXCEPT ![u] = User]
    BY <1>21 DEF Complete
  <2>6. OneFile(ps, u, d, e, q, y.ptr, User)
    <3>1. Elsewhere(ps, e, Len(root), Held, Held')
      BY <1>8, <1>9
    <3> QED BY <1>5, <2>1, <2>4, <2>5, <3>1 DEF OneFile, Ended, qs
  <2>7. Sound(qs)'
    BY <1>1, <1>2, <1>3, <1>10, <2>6, UserType, OneFileKeeps DEF qs
  <2>8. Typed'
    BY <1>17, <1>19, <1>21, <2>4, <2>5, UserType DEF Ended
  <2>9. Reading(u)'
    <3>1. call'[u] = User
      BY <1>14, <2>5
    <3> QED BY <3>1 DEF Reading, User
  <2> QED BY <1>16, <2>4, <2>5, <2>7, <2>8, <2>9, UserType DEF Kept, Ended
<1> QED BY <1>4, <1>5, <1>18, <1>20, <1>21

(* A thread that runs its own code is in no call, and none is at work on a *)
(* file that it has opened.                                                *)
LEMMA NotInCall ==
  ASSUME Typed, NEW ps, Sound(ps), NEW u \in Users, call[u].at = "user"
  PROVE  /\ call[u] = User
         /\ \A d \in DOMAIN openFiles : openFiles[d].user = u =>
              /\ Idle(d) /\ ~ Writing(openFiles[d].entry)
              /\ openFiles[d].filePtr <= Len(text[openFiles[d].entry])
<1>1. /\ \A v \in Users : call[v] # User => CallSound(ps, v)
      /\ \A d1, d2 \in DOMAIN openFiles : openFiles[d1].entry = openFiles[d2].entry => d1 = d2
      /\ \A d \in DOMAIN openFiles :
           Idle(d) => openFiles[d].filePtr <= Len(text[openFiles[d].entry])
  BY DEF Sound
<1>2. call[u] = User
  BY <1>1 DEF CallSound, InCall
<1>3. ASSUME NEW d \in DOMAIN openFiles, openFiles[d].user = u
      PROVE  Idle(d) /\ ~ Writing(openFiles[d].entry)
  <2>1. \A v \in Users : call[v] # User =>
          /\ call[v].fd \in DOMAIN openFiles /\ openFiles[call[v].fd].user = v
    BY <1>1 DEF CallSound
  <2>2. Idle(d)
    BY <1>2, <1>3, <2>1 DEF Idle
  <2>3. ~ Writing(openFiles[d].entry)
    <3> SUFFICES ASSUME NEW v \in Users, call[v].op = "write",
                        openFiles[call[v].fd].entry = openFiles[d].entry
                 PROVE  FALSE
      BY DEF Writing
    <3>1. call[v] # User
      BY UserType
    <3>2. call[v].fd = d
      BY <1>1, <2>1, <3>1
    <3> QED BY <2>2, <3>1, <3>2 DEF Idle
  <2> QED BY <2>2, <2>3
<1> QED BY <1>1, <1>2, <1>3

(* A step that leaves the files alone and moves call u to c.               *)
LEMMA CallMoves ==
  ASSUME Kept, NEW ps, Sound(ps), NEW u \in Users, NEW c \in Calls, c # User,
         c.fd \in DOMAIN openFiles, openFiles[c.fd].user = u,
         call[u] # User => call[u].fd = c.fd,
         InCall(ps[openFiles[c.fd].entry], Held, text[openFiles[c.fd].entry],
                openFiles[c.fd].filePtr, c),
         call' = [call EXCEPT ![u] = c],
         UNCHANGED <<fat, root, openFiles, nextFD, cache, owner, disk, text, misread>>,
         position' \in Nat
  PROVE  Typed' /\ Sound(ps)' /\ misread' = FALSE
<1>1. PICK e : e = openFiles[c.fd].entry
  OBVIOUS
<1> DEFINE d == c.fd
           p == openFiles[d].filePtr
<1>2. Typed /\ misread = FALSE
  BY DEF Kept
<1>3. /\ root \in Seq(Entry) /\ e \in 1 .. Len(root) /\ text \in Seq(Seq(Byte))
      /\ Len(text) = Len(root) /\ openFiles \in [DOMAIN openFiles -> Descriptors]
      /\ call \in [Users -> Calls]
  BY <1>1, <1>2 DEF Typed
<1>4. /\ LaidOut(ps, fat, root) /\ ps \in Seq(Seq(Cluster)) /\ Len(ps) = Len(root)
      /\ root[e].size = Len(text[e])
  BY <1>3 DEF Sound, LaidOut
<1>5. ps[e] \in Seq(Cluster) /\ [ps EXCEPT ![e] = ps[e]] = ps /\ text[e] \in Seq(Byte)
  BY <1>3, <1>4, ElementOfSeq
<1>6. p \in Nat
  BY <1>3 DEF Descriptors
<1>7. Held' = Held
  BY DEF Held
<1>8. InCall(ps[e], Held, text[e], p, c)
  BY <1>1
<1>9. c.op # "write" => Filed(ps[e], Held, text[e])
  <2>1. Under(ps[e], Held, c, p, text[e]) /\ c.op \in {"read", "write"}
    BY <1>8 DEF InCall, Under
  <2> HIDE DEF p
  <2> QED BY <1>5, <1>6, <2>1, WrittenFiled
<1>10. openFiles' = [openFiles EXCEPT ![d].filePtr = p]
  BY <1>3 DEF Descriptors
<1>11. OneFile(ps, u, d, e, ps[e], p, c)
  <2>1. Elsewhere(ps, e, Len(root), Held, Held')
    BY <1>7 DEF Elsewhere
  <2> HIDE DEF p, d
  <2> QED BY <1>4, <1>5, <1>7, <1>8, <1>9, <1>10, <2>1 DEF OneFile, d
<1>12. Sound([ps EXCEPT ![e] = ps[e]])'
  <2> HIDE DEF p
  <2> QED BY <1>1, <1>2, <1>5, <1>6, <1>11, OneFileKeeps
<1>13. Sound(ps)'
  BY <1>5, <1>12
<1>14. Typed'
  <2>1. call' \in [Users -> Calls]
    BY <1>3
  <2> QED BY <1>2, <2>1 DEF Typed
<1> QED BY <1>2, <1>13, <1>14

(* Where a call on an idle file starts.                                    *)
LEMMA StartsAt ==
  ASSUME Typed, NEW ps, Sound(ps), NEW d \in DOMAIN openFiles,
         openFiles[d].filePtr <= Len(text[openFiles[d].entry]),
         NEW q, q = ps[openFiles[d].entry], NEW p, p = openFiles[d].filePtr
  PROVE  /\ StartCluster(d) \in Nat
         /\ p \div ClusterSize \in Nat /\ p % ClusterSize \in 0 .. ClusterSize - 1
         /\ p = (p \div ClusterSize) * ClusterSize + (p % ClusterSize)
         /\ p <= Len(q) * ClusterSize /\ Len(q) \in Nat
         /\ StartCluster(d) \in Cluster \/ p < Len(text[openFiles[d].entry]) =>
              /\ p \div ClusterSize \in 0 .. Len(q) - 1
              /\ StartCluster(d) = q[p \div ClusterSize + 1]
<1>1. PICK e : e = openFiles[d].entry
  OBVIOUS
<1> DEFINE h == p \div ClusterSize
           o == p % ClusterSize
           L == Len(q)
<1>2. /\ fat \in Fats /\ root \in Seq(Entry) /\ e \in 1 .. Len(root) /\ p \in Nat
      /\ text \in Seq(Seq(Byte)) /\ Len(text) = Len(root)
  BY <1>1 DEF Typed, Descriptors
<1>3. LaidOut(ps, fat, root) /\ root[e].size = Len(text[e])
  BY <1>2 DEF Sound
<1>4. ClusterSize \in Nat \ {0}
  BY ClusterSizeType
<1>5. /\ L \in Nat \ {0} /\ \A i \in 1 .. L : q[i] \in Cluster
      /\ fat[q[L]] > EndMark
      /\ q = ps[e]
  BY <1>1, <1>2, <1>3, ChainFacts
<1>6. Len(text[e]) <= L * ClusterSize /\ Len(text[e]) \in Nat
  <2>1. Len(text[e]) \in Nat
    BY <1>2, ElementOfSeq, LenProperties
  <2> QED BY <1>2, <1>3, <1>5, <2>1 DEF LaidOut, Chained
<1>7. h \in Nat /\ o \in 0 .. ClusterSize - 1 /\ p = h * ClusterSize + o
  BY <1>2, <1>4, DivMod
<1>8. p <= Len(text[e])
  BY <1>1
<1> HIDE DEF h, o, L
<1>9. p <= L * ClusterSize /\ L * ClusterSize \in Nat /\ h * ClusterSize \in Nat
  BY <1>2, <1>4, <1>5, <1>6, <1>7, <1>8
<1>10. h <= L
  <2> SUFFICES ASSUME L < h PROVE FALSE
    BY <1>5, <1>7
  <2>1. L * ClusterSize + ClusterSize <= h * ClusterSize
    BY <1>4, <1>5, <1>7, NextBlock
  <2> QED BY <1>4, <1>7, <1>9, <2>1
<1>11. StartCluster(d) = IF h < L THEN q[h + 1] ELSE fat[q[L]]
  <2>1. h \in 0 .. Len(ps[e])
    BY <1>5, <1>7, <1>10 DEF L
  <2>2. FatSearch(fat, root[e].first, h) =
          IF h < Len(ps[e]) THEN ps[e][h + 1] ELSE fat[ps[e][Len(ps[e])]]
    BY <1>2, <1>3, <2>1, FatSearchIs
  <2>3. StartCluster(d) = FatSearch(fat, root[e].first, h)
    BY <1>1 DEF StartCluster, h
  <2> QED BY <1>5, <2>2, <2>3 DEF L
<1>12. fat[q[L]] \in Nat /\ fat[q[L]] \notin Cluster
  <2>1. L \in 1 .. L
    BY <1>5
  <2>2. q[L] \in 0 .. FatSize - 1
    BY <1>5, <2>1, ClusterType
  <2>3. fat[q[L]] \in 0 .. EndOfChain
    BY <1>2, <2>2 DEF Fats
  <2>4. fat[q[L]] \in Nat
    BY <2>3
  <2>5. \A c \in Cluster : c \in Nat /\ c < EndMark /\ EndMark \in Nat
    BY ClusterType
  <2> QED BY <1>5, <2>4, <2>5
<1>13. h < L => h + 1 \in 1 .. L /\ q[h + 1] \in Cluster /\ q[h + 1] \in Nat
  <2> SUFFICES ASSUME h < L PROVE h + 1 \in 1 .. L /\ q[h + 1] \in Cluster /\ q[h + 1] \in Nat
    OBVIOUS
  <2>1. h + 1 \in 1 .. L
    BY <1>5, <1>7
  <2>2. q[h + 1] \in Cluster
    BY <1>5, <2>1
  <2> QED BY <2>1, <2>2, ClusterType
<1>14. p < Len(text[e]) => h < L
  <2> SUFFICES ASSUME p < Len(text[e]), h = L PROVE FALSE
    BY <1>5, <1>7, <1>10
  <2> QED BY <1>2, <1>6, <1>7, <1>9
<1>15. StartCluster(d) \in Cluster \/ p < Len(text[e]) => h < L
  BY <1>11, <1>12, <1>14
<1>16. h < L => h \in 0 .. L - 1
  BY <1>5, <1>7
<1>17. StartCluster(d) \in Nat
  BY <1>11, <1>12, <1>13
<1>18. StartCluster(d) \in Cluster \/ p < Len(text[openFiles[d].entry]) =>
         h \in 0 .. L - 1 /\ StartCluster(d) = q[h + 1]
  BY <1>1, <1>11, <1>15, <1>16
<1> QED BY <1>5, <1>7, <1>9, <1>17, <1>18 DEF h, o, L

(* A call begins: it gets the mutex and goes on, or waits for it.          *)
LEMMA GrabKeeps ==
  ASSUME Kept, Risks = {}, NEW u \in Users, call[u].at = "user", NEW op \in {"read", "write"},
         NEW fd, Opened(u, fd), NEW n \in Nat, NEW b \in Byte \union {0},
         op = "write" => b \in Byte /\ StartCluster(fd) \in Cluster,
         GrabMutex(u, CallOf(op, fd, n, b)), UNCHANGED <<nextFD, disk, position>>
  PROVE  Kept'
<1> DEFINE c == CallOf(op, fd, n, b)
<1>1. Typed /\ misread = FALSE /\ (\A v \in Users : Reading(v)) /\ \E ps : Sound(ps)
  BY DEF Kept
<1>2. PICK ps : Sound(ps)
  BY <1>1
<1>3. fd \in DOMAIN openFiles /\ openFiles[fd].user = u
  BY DEF Opened
<1>4. PICK e : e = openFiles[fd].entry
  OBVIOUS
<1>5. PICK p : p = openFiles[fd].filePtr
  OBVIOUS
<1>6. PICK q : q = ps[e]
  OBVIOUS
<1>7. /\ call[u] = User /\ Idle(fd) /\ ~ Writing(e) /\ p <= Len(text[e])
  BY <1>1, <1>2, <1>3, <1>4, <1>5, NotInCall
<1>8. /\ root \in Seq(Entry) /\ e \in 1 .. Len(root) /\ p \in Nat
      /\ text \in Seq(Seq(Byte)) /\ Len(text) = Len(root) /\ fd \in Nat
      /\ nextFD \in Nat
  BY <1>1, <1>3, <1>4, <1>5 DEF Typed, Descriptors
<1>9. /\ StartCluster(fd) \in Nat
      /\ p \div ClusterSize \in Nat /\ p % ClusterSize \in 0 .. ClusterSize - 1
      /\ p = (p \div ClusterSize) * ClusterSize + (p % ClusterSize)
      /\ p <= Len(q) * ClusterSize /\ Len(q) \in Nat
      /\ StartCluster(fd) \in Cluster \/ p < Len(text[e]) =>
           /\ p \div ClusterSize \in 0 .. Len(q) - 1
           /\ StartCluster(fd) = q[p \div ClusterSize + 1]
  BY <1>1, <1>2, <1>3, <1>4, <1>5, <1>6, <1>7, StartsAt
<1>10. text[e] \in Seq(Byte) /\ Len(text[e]) \in Nat /\ root[e].size = Len(text[e])
       /\ Filed(q, Held, text[e])
  BY <1>2, <1>6, <1>7, <1>8, ElementOfSeq, LenProperties DEF Sound
<1>11. ClusterSize \in Nat \ {0}
  BY ClusterSizeType
<1>12. /\ c.at = "lock" /\ c.op = op /\ c.fd = fd /\ c.byte = b /\ c.left = n
       /\ c.size = Len(text[e]) /\ c.cluster = StartCluster(fd) /\ c.offset = p % ClusterSize
       /\ c.done = << >> /\ c.buffer = << >> /\ c \in Calls
  <2>1. c = [ at |-> "lock", op |-> op, fd |-> fd, size |-> Len(text[e]),
              cluster |-> StartCluster(fd), offset |-> p % ClusterSize, left |-> n,
              done |-> << >>, byte |-> b, buffer |-> << >> ]
    <3>1. c = [ User EXCEPT !.at = "lock", !.op = op, !.fd = fd, !.byte = b, !.left = n,
                            !.size = Len(text[e]), !.cluster = StartCluster(fd),
                            !.offset = p % ClusterSize ]
      BY <1>4, <1>5, <1>10 DEF CallOf
    <3> HIDE DEF c
    <3> QED BY <3>1 DEF User
  <2>2. p % ClusterSize \in Nat /\ << >> \in Seq(Byte)
    BY <1>9, <1>11
  <2> HIDE DEF c
  <2> QED BY <1>8, <1>9, <1>10, <2>1, <2>2 DEF Calls
<1>13. GrabMutex(u, c)
  OBVIOUS
<1> HIDE DEF c
<1>14. Len(c.done) = 0
  BY <1>12
<1>15. Under(q, Held, c, p, text[e])
  <2>1. ASSUME NEW k \in 0 .. Len(q) - 1, NEW i \in 1 .. ClusterSize
        PROVE  ~ Written(c, p, k * ClusterSize + i)
    <3>1. k * ClusterSize + i \in Nat
      <4>1. k \in Nat /\ i \in Nat
        BY <1>9, <1>11
      <4>2. k * ClusterSize \in Nat
        BY <1>11, <4>1
      <4> QED BY <4>1, <4>2
    <3> HIDE DEF c
    <3>2. ~ (p - 0 < k * ClusterSize + i /\ k * ClusterSize + i <= p)
      BY <1>8, <3>1
    <3> QED BY <1>14, <3>2 DEF Written
  <2>2. Mixed(q, Held, c, p, text[e])
    BY <1>10, <2>1 DEF Mixed, Filed
  <2>3. c.offset <= ClusterSize
    BY <1>9, <1>11, <1>12
  <2>4. Len(c.done) <= p /\ p - Len(c.done) <= Len(text[e])
    BY <1>7, <1>8, <1>14
  <2>5. \A j \in 1 .. Len(c.done) : c.done[j] = text[e][p - Len(c.done) + j]
    BY <1>14
  <2> QED BY <1>7, <1>9, <1>12, <2>2, <2>3, <2>4, <2>5 DEF Under
<1>16. ASSUME ToDo(c, p) PROVE At(q, c, p)
  <2>1. StartCluster(fd) \in Cluster \/ p < Len(text[e])
    <3>1. CASE op = "write"
      BY <3>1
    <3>2. CASE op = "read"
      <4>1. p # Len(text[e])
        BY <1>12, <1>16, <3>2 DEF ToDo
      <4> QED BY <1>7, <1>8, <1>10, <4>1
    <3> QED BY <3>1, <3>2
  <2>2. PICK k : k = p \div ClusterSize
    OBVIOUS
  <2>3. k \in 0 .. Len(q) - 1 /\ c.cluster = q[k + 1]
    BY <1>9, <1>12, <2>1, <2>2
  <2>4. p = k * ClusterSize + c.offset /\ c.offset < ClusterSize
    BY <1>9, <1>11, <1>12, <2>2
  <2> QED BY <2>3, <2>4 DEF At
<1>17. CASE owner = Nobody /\ GoOn(u, c, cache)
  <2>1. MayGoOn(ps, u, c, cache)
    <3>1. Cached(cache) /\ Holding(cache, disk.data) = Held
      BY <1>1 DEF Typed, Held
    <3> QED BY <1>3, <1>4, <1>5, <1>6, <1>7, <1>12, <1>15, <1>16, <1>17, <3>1 DEF MayGoOn
  <2> QED BY <1>1, <1>2, <1>12, <1>17, <2>1, GoOnKeeps DEF Typed
<1>18. CASE /\ owner # Nobody /\ call' = [call EXCEPT ![u] = c]
            /\ UNCHANGED <<fat, cache, openFiles, owner, root, history>>
  <2>1. UNCHANGED <<fat, root, openFiles, nextFD, cache, owner, disk, text, misread>>
        /\ position' \in Nat
    BY <1>1, <1>18 DEF history, Typed
  <2>2. InCall(q, Held, text[e], p, c)
    BY <1>12, <1>15, <1>16 DEF InCall
  <2>3. c # User
    BY <1>12, UserType
  <2>4. Typed' /\ Sound(ps)' /\ misread' = FALSE
    BY <1>2, <1>3, <1>4, <1>5, <1>6, <1>7, <1>12, <1>18, <2>1, <2>2, <2>3, CallMoves
  <2>5. call \in [Users -> Calls]
    BY <1>1 DEF Typed
  <2>6. ASSUME NEW v \in Users PROVE Reading(v)'
    <3>1. call'[v] = IF v = u THEN c ELSE call[v]
      BY <1>18, <2>5
    <3>2. CASE v = u
      BY <1>12, <3>1, <3>2 DEF Reading
    <3>3. CASE v # u
      BY <1>1, <1>18, <2>1, <3>1, <3>3 DEF Reading
    <3> QED BY <3>2, <3>3
  <2> QED BY <2>4, <2>6 DEF Kept
<1> QED BY <1>13, <1>17, <1>18 DEF GrabMutex

(* A call that has waited for the mutex goes on.                           *)
LEMMA GrantedKeeps ==
  ASSUME Kept, NEW u \in Users, Granted(u)
  PROVE  Kept'
<1>1. Typed /\ (\A v \in Users : Reading(v)) /\ \E ps : Sound(ps)
  BY DEF Kept
<1>2. PICK ps : Sound(ps)
  BY <1>1
<1>3. /\ call[u].at = "lock" /\ owner = u /\ GoOn(u, call[u], cache)
      /\ UNCHANGED <<nextFD, disk, position>>
  BY DEF Granted
<1>4. PICK c : c = call[u]
  OBVIOUS
<1>5. c \in Calls /\ c # User
  BY <1>1, <1>3, <1>4, UserType DEF Typed
<1>6. MayGoOn(ps, u, c, cache)
  <2>1. CallSound(ps, u)
    BY <1>2, <1>4, <1>5 DEF Sound
  <2>2. Cached(cache) /\ Holding(cache, disk.data) = Held
    BY <1>1 DEF Typed, Held
  <2>3. c.buffer = << >>
    BY <1>1, <1>3, <1>4 DEF Reading
  <2> QED BY <1>3, <1>4, <2>1, <2>2, <2>3 DEF MayGoOn, CallSound, InCall
<1>7. GoOn(u, c, cache)
  BY <1>3, <1>4
<1> QED BY <1>1, <1>2, <1>3, <1>5, <1>6, <1>7, GoOnKeeps DEF Typed

(* A call that has lost the processor when it released the mutex ends.     *)
LEMMA UnlockedKeeps ==
  ASSUME Kept, NEW u \in Users, Unlocked(u)
  PROVE  Kept'
<1>1. Typed /\ misread = FALSE /\ (\A v \in Users : Reading(v)) /\ \E ps : Sound(ps)
  BY DEF Kept
<1>2. PICK ps : Sound(ps)
  BY <1>1
<1>3. PICK c : c = call[u]
  OBVIOUS
<1>4. PICK d : d = c.fd
  OBVIOUS
<1>5. PICK e : e = openFiles[d].entry
  OBVIOUS
<1>6. PICK p : p = openFiles[d].filePtr
  OBVIOUS
<1>7. /\ c.at = "unlocked" /\ Complete(u, c, p)
      /\ UNCHANGED <<fat, openFiles, nextFD, cache, owner, disk, position>>
  BY <1>3, <1>4, <1>6 DEF Unlocked
<1>8. c \in Calls /\ c # User /\ call \in [Users -> Calls]
  BY <1>1, <1>3, <1>7, UserType DEF Typed
<1>9. /\ d \in DOMAIN openFiles /\ openFiles[d].user = u
      /\ InCall(ps[e], Held, text[e], p, c)
  BY <1>2, <1>3, <1>4, <1>5, <1>6, <1>8 DEF Sound, CallSound
<1>10. /\ root \in Seq(Entry) /\ text \in Seq(Seq(Byte)) /\ Len(text) = Len(root)
       /\ fat \in Fats /\ e \in 1 .. Len(root) /\ p \in Nat
       /\ openFiles \in [DOMAIN openFiles -> Descriptors]
  BY <1>1, <1>5, <1>6, <1>9 DEF Typed, Descriptors
<1>11. /\ LaidOut(ps, fat, root) /\ root[e].size = Len(text[e])
       /\ ps \in Seq(Seq(Cluster)) /\ Len(ps) = Len(root)
  BY <1>2, <1>10 DEF Sound, LaidOut
<1>12. ps[e] \in Seq(Cluster) /\ [ps EXCEPT ![e] = ps[e]] = ps
  BY <1>10, <1>11, ElementOfSeq
<1>13. Ended(fat, ps, e, Held, p)
  <2>1. Under(ps[e], Held, c, p, text[e]) /\ (c.op = "read" => ~ ToDo(c, p))
    BY <1>7, <1>9 DEF InCall
  <2>2. openFiles[c.fd].entry = e
    BY <1>4, <1>5
  <2> QED BY <1>1, <1>7, <1>8, <1>10, <1>11, <2>1, <2>2, CompleteKeeps
<1>14. call' = [call EXCEPT ![u] = User]
  BY <1>7 DEF Complete
<1>15. Held' = Held
  BY <1>7 DEF Held
<1>16. openFiles' = [openFiles EXCEPT ![d].filePtr = p]
  BY <1>6, <1>7, <1>9, <1>10 DEF Descriptors
<1>17. OneFile(ps, u, d, e, ps[e], p, User)
  <2>1. Elsewhere(ps, e, Len(root), Held, Held')
    BY <1>15 DEF Elsewhere
  <2> QED BY <1>7, <1>12, <1>13, <1>14, <1>15, <1>16, <2>1 DEF OneFile, Ended
<1>18. Sound(ps)'
  <2>1. Sound([ps EXCEPT ![e] = ps[e]])'
    BY <1>1, <1>2, <1>3, <1>4, <1>5, <1>9, <1>10, <1>12, <1>17, UserType, OneFileKeeps
  <2> QED BY <1>12, <2>1
<1>19. Typed'
  <2>1. call' \in [Users -> Calls]
    BY <1>8, <1>14, UserType
  <2> QED BY <1>1, <1>7, <1>13, <2>1 DEF Typed, Ended
<1>20. ASSUME NEW v \in Users PROVE Reading(v)'
  <2>1. call'[v] = IF v = u THEN User ELSE call[v]
    BY <1>8, <1>14
  <2>2. CASE v = u
    BY <2>1, <2>2 DEF Reading, User
  <2>3. CASE v # u
    BY <1>1, <1>7, <2>1, <2>3 DEF Reading
  <2> QED BY <2>2, <2>3
<1> QED BY <1>13, <1>18, <1>19, <1>20 DEF Kept, Ended

(* s holds the first k sectors of cluster c.                               *)
SoFar(data, c, k, s) ==
  /\ s \in Seq(Byte) /\ Len(s) = k * SectorSize
  /\ \A i \in 1 .. Len(s) : s[i] = OnDisk(data, c)[i]

(* One sector more.                                                        *)
LEMMA SectorRead ==
  ASSUME NEW data \in Sectored, NEW c \in Cluster, NEW k \in 0 .. SectorsPerCluster - 1,
         NEW s, SoFar(data, c, k, s), NEW z, z = s \o data[c * SectorsPerCluster + k]
  PROVE  /\ SoFar(data, c, k + 1, z)
         /\ Len(z) < ClusterSize => k + 1 \in 0 .. SectorsPerCluster - 1
         /\ Len(z) = ClusterSize => z = OnDisk(data, c)
<1>1. /\ s \in Seq(Byte) /\ Len(s) = k * SectorSize
       /\ \A i \in 1 .. Len(s) : s[i] = OnDisk(data, c)[i]
  BY DEF SoFar
<1> DEFINE w == data[c * SectorsPerCluster + k]
           base == k * SectorSize
<1>2. /\ SectorSize \in Nat \ {0} /\ SectorsPerCluster \in Nat \ {0}
      /\ k \in Nat /\ k < SectorsPerCluster /\ ClusterSize = SectorSize * SectorsPerCluster
      /\ ClusterSize \in Nat
  BY FileAssumption, ClusterSizeType DEF ClusterSize
<1>3. base \in Nat /\ (k + 1) * SectorSize = base + SectorSize
  BY <1>2
<1>4. base + SectorSize <= ClusterSize
  <2>1. base + SectorSize <= SectorsPerCluster * SectorSize
    BY <1>2, NextBlock
  <2>2. SectorsPerCluster * SectorSize = SectorSize * SectorsPerCluster
    BY <1>2
  <2> QED BY <1>2, <2>1, <2>2
<1> HIDE DEF base
<1>5. ASSUME NEW m \in 1 .. SectorSize
      PROVE  /\ base + m \in 1 .. ClusterSize
             /\ (base + m - 1) \div SectorSize = k
             /\ ((base + m - 1) % SectorSize) + 1 = m
  <2>1. base + m \in 1 .. ClusterSize
    BY <1>2, <1>3, <1>4
  <2>2. /\ (k * SectorSize + m - 1) \div SectorSize = k
        /\ ((k * SectorSize + m - 1) % SectorSize) + 1 = m
    BY <1>2, WhichBlock
  <2> QED BY <2>1, <2>2 DEF base
<1>6. c * SectorsPerCluster + k \in Sectors
  <2>1. 1 \in 1 .. SectorSize
    BY <1>2
  <2>2. base + 1 \in 1 .. ClusterSize /\ (base + 1 - 1) \div SectorSize = k
    BY <1>5, <2>1
  <2>3. c * SectorsPerCluster + ((base + 1) - 1) \div SectorSize \in Sectors
    <3>1. PICK i \in 1 .. ClusterSize : i = base + 1
      BY <2>2
    <3>2. c * SectorsPerCluster + (i - 1) \div SectorSize \in Sectors
      BY SectorsOf
    <3> QED BY <3>1, <3>2
  <2>4. (base + 1) - 1 = base + 1 - 1
    BY <1>3
  <2> QED BY <2>2, <2>3, <2>4
<1>7. w \in [1 .. SectorSize -> Byte]
  BY <1>6 DEF Sectored
<1>8. ASSUME NEW m \in 1 .. SectorSize PROVE w[m] = OnDisk(data, c)[base + m]
  <2>1. OnDisk(data, c)[base + m] =
          data[c * SectorsPerCluster + ((base + m) - 1) \div SectorSize]
              [(((base + m) - 1) % SectorSize) + 1]
    BY <1>5 DEF OnDisk
  <2>2. (base + m) - 1 = base + m - 1
    BY <1>3, <1>2
  <2> QED BY <1>5, <2>1, <2>2
<1> HIDE DEF w
<1>9. w \in Seq(Byte) /\ Len(w) = SectorSize
  BY <1>2, <1>7
<1>10. z = s \o w
  BY DEF w
<1>11. /\ z \in Seq(Byte) /\ Len(z) = base + SectorSize
       /\ \A i \in 1 .. base + SectorSize : z[i] = IF i <= base THEN s[i] ELSE w[i - base]
  <2>1. Len(s) = base
    BY <1>1 DEF base
  <2>2. /\ s \o w \in Seq(Byte) /\ Len(s \o w) = Len(s) + Len(w)
        /\ \A i \in 1 .. Len(s) + Len(w) :
             (s \o w)[i] = IF i <= Len(s) THEN s[i] ELSE w[i - Len(s)]
    BY <1>9, <1>1, ConcatProperties
  <2> QED BY <1>9, <1>10, <2>1, <2>2
<1>12. ASSUME NEW i \in 1 .. base + SectorSize PROVE z[i] = OnDisk(data, c)[i]
  <2>1. CASE i <= base
    <3>1. i \in 1 .. Len(s)
      BY <1>3, <1>1, <2>1 DEF base
    <3> QED BY <1>11, <1>1, <2>1, <3>1
  <2>2. CASE ~ (i <= base)
    <3>1. i - base \in 1 .. SectorSize /\ base + (i - base) = i
      BY <1>2, <1>3, <2>2
    <3>2. w[i - base] = OnDisk(data, c)[base + (i - base)]
      BY <1>8, <3>1
    <3> QED BY <1>11, <2>2, <3>1, <3>2
  <2> QED BY <2>1, <2>2
<1>13. ASSUME base + SectorSize < ClusterSize PROVE k + 1 \in 0 .. SectorsPerCluster - 1
  <2>1. k + 1 # SectorsPerCluster
    <3> SUFFICES ASSUME k + 1 = SectorsPerCluster PROVE FALSE
      OBVIOUS
    <3>1. SectorsPerCluster * SectorSize = base + SectorSize
      BY <1>3
    <3>2. SectorsPerCluster * SectorSize = SectorSize * SectorsPerCluster
      BY <1>2
    <3> QED BY <1>2, <1>3, <1>13, <3>1, <3>2
  <2> QED BY <1>2, <2>1
<1>14. ASSUME base + SectorSize = ClusterSize PROVE z = OnDisk(data, c)
  <2> DEFINE v == OnDisk(data, c)
  <2>1. Len(z) = ClusterSize /\ z \in [1 .. Len(z) -> Byte]
    BY <1>11, <1>14, LenProperties
  <2>2. v \in [1 .. ClusterSize -> Byte]
    BY OnDiskType DEF Block
  <2>3. \A i \in 1 .. ClusterSize : z[i] = v[i]
    BY <1>12, <1>14
  <2> HIDE DEF v
  <2>4. z = v
    BY <2>1, <2>2, <2>3
  <2> QED BY <2>4 DEF v
<1> QED BY <1>3, <1>11, <1>12, <1>13, <1>14 DEF SoFar

(* What a call knows that waits for a cluster.                             *)
LEMMA Waits ==
  ASSUME Kept, NEW ps, Sound(ps), NEW u \in Users, NEW c, c = call[u],
         c.at \in {"seek", "read"}
  PROVE  /\ c \in Calls /\ c # User /\ c.cluster \in Cluster /\ owner = u
         /\ c.cluster \notin DOMAIN cache /\ CallSound(ps, u)
         /\ call \in [Users -> Calls]
         /\ \A v \in Users : v # u => call[v].at \notin {"seek", "read"} /\ call[v].buffer = << >>
<1>1. Typed /\ \A v \in Users : Reading(v)
  BY DEF Kept
<1>2. c \in Calls /\ c # User /\ call \in [Users -> Calls]
  BY <1>1, UserType DEF Typed
<1>3. CallSound(ps, u)
  BY <1>2 DEF Sound
<1>4. PICK e : e = openFiles[c.fd].entry
  OBVIOUS
<1>5. At(ps[e], c, openFiles[c.fd].filePtr) /\ e \in 1 .. Len(root)
  BY <1>1, <1>3, <1>4 DEF CallSound, InCall, Typed
<1>6. c.cluster \in Cluster
  <2>1. LaidOut(ps, fat, root) /\ fat \in Fats /\ root \in Seq(Entry)
    BY <1>1 DEF Typed, Sound
  <2>2. Len(ps[e]) \in Nat /\ \A i \in 1 .. Len(ps[e]) : ps[e][i] \in Cluster
    BY <1>5, <2>1, ChainFacts
  <2>3. \E k \in 0 .. Len(ps[e]) - 1 : c.cluster = ps[e][k + 1]
    BY <1>5 DEF At
  <2>4. \A k \in 0 .. Len(ps[e]) - 1 : k + 1 \in 1 .. Len(ps[e])
    BY <2>2
  <2> QED BY <2>2, <2>3, <2>4
<1>7. owner = u /\ c.cluster \notin DOMAIN cache
  BY <1>1 DEF Reading
<1>8. \A v \in Users : v # u => call[v].at \notin {"seek", "read"} /\ call[v].buffer = << >>
  BY <1>1, <1>7 DEF Reading
<1> QED BY <1>2, <1>3, <1>6, <1>7, <1>8

(* A call at work, described as one that is elsewhere or has a buffer.     *)
LEMMA StillInCall ==
  ASSUME NEW q, NEW b, NEW t, NEW ptr, NEW c, NEW d, InCall(q, b, t, ptr, c),
         c.at \in {"seek", "read"}, d.at = "read",
         d.cluster = c.cluster, d.offset = c.offset, d.left = c.left, d.done = c.done,
         d.op = c.op, d.size = c.size, d.byte = c.byte
  PROVE  InCall(q, b, t, ptr, d)
<1>1. Under(q, b, c, ptr, t) /\ c.offset <= ClusterSize
  BY DEF InCall, Under
<1>2. Under(q, b, d, ptr, t)
  BY <1>1, UnderMoved
<1>3. ToDo(d, ptr) /\ At(q, d, ptr)
  BY DEF InCall, ToDo, At
<1> QED BY <1>2, <1>3 DEF InCall

(* The machine has found the cluster's place.                              *)
LEMMA SeekReturnsKeeps ==
  ASSUME Kept, NEW u \in Users, SeekReturns(u)
  PROVE  Kept'
<1>1. Typed /\ misread = FALSE /\ (\A v \in Users : Reading(v)) /\ \E ps : Sound(ps)
  BY DEF Kept
<1>2. PICK ps : Sound(ps)
  BY <1>1
<1>3. PICK c : c = call[u]
  OBVIOUS
<1>4. /\ c.at = "seek" /\ position' = c.cluster * SectorsPerCluster
      /\ call' = [call EXCEPT ![u].at = "read"]
      /\ UNCHANGED <<fat, root, openFiles, nextFD, cache, owner, disk, text, misread>>
  BY <1>3 DEF SeekReturns, mounted, history
<1>5. /\ c \in Calls /\ c # User /\ c.cluster \in Cluster /\ owner = u
      /\ c.cluster \notin DOMAIN cache /\ CallSound(ps, u)
      /\ call \in [Users -> Calls]
      /\ \A v \in Users : v # u => call[v].at \notin {"seek", "read"} /\ call[v].buffer = << >>
  BY <1>2, <1>3, <1>4, Waits
<1>6. SectorSize \in Nat \ {0} /\ SectorsPerCluster \in Nat \ {0} /\ c.cluster \in Nat
  BY <1>5, FileAssumption, ClusterType
<1> DEFINE k == [c EXCEPT !.at = "read"]
<1>7. /\ k \in Calls /\ k.at = "read" /\ k.op = c.op /\ k.fd = c.fd /\ k.buffer = c.buffer
      /\ k.size = c.size /\ k.byte = c.byte /\ k.done = c.done
      /\ k.offset = c.offset /\ k.left = c.left /\ k.cluster = c.cluster
  BY <1>5 DEF Calls
<1>8. call' = [call EXCEPT ![u] = k]
  BY <1>3, <1>4, <1>5
<1> HIDE DEF k
<1>9. k # User
  BY <1>7, UserType
<1>10. InCall(ps[openFiles[k.fd].entry], Held, text[openFiles[k.fd].entry],
              openFiles[k.fd].filePtr, k)
  <2>1. InCall(ps[openFiles[c.fd].entry], Held, text[openFiles[c.fd].entry],
               openFiles[c.fd].filePtr, c)
    BY <1>3, <1>5 DEF CallSound
  <2>2. PICK e, p : e = openFiles[c.fd].entry /\ p = openFiles[c.fd].filePtr
    OBVIOUS
  <2>3. InCall(ps[e], Held, text[e], p, k)
    BY <1>4, <1>7, <2>1, <2>2, StillInCall
  <2> QED BY <1>7, <2>2, <2>3
<1>11. Typed' /\ Sound(ps)' /\ misread' = FALSE
  <2>1. k.fd \in DOMAIN openFiles /\ openFiles[k.fd].user = u /\ call[u].fd = k.fd
    BY <1>3, <1>5, <1>7 DEF CallSound
  <2>2. position' \in Nat
    BY <1>4, <1>6
  <2> QED BY <1>2, <1>4, <1>7, <1>8, <1>9, <1>10, <2>1, <2>2, CallMoves
<1>12. ASSUME NEW v \in Users PROVE Reading(v)'
  <2>1. call'[v] = IF v = u THEN k ELSE call[v]
    BY <1>5, <1>8
  <2>2. CASE v = u
    <3>1. k.buffer = << >>
      BY <1>1, <1>3, <1>4, <1>7 DEF Reading
    <3>2. 0 \in 0 .. SectorsPerCluster - 1 /\ position' = k.cluster * SectorsPerCluster + 0
          /\ Len(k.buffer) = 0 * SectorSize
      BY <1>4, <1>6, <1>7, <3>1
    <3>3. \A i \in 1 .. Len(k.buffer) : k.buffer[i] = OnDisk(disk'.data, k.cluster)[i]
      BY <3>1
    <3>4. call'[v] = k /\ k.at = "read" /\ owner' = v /\ k.cluster \notin DOMAIN cache'
      BY <1>4, <1>5, <1>7, <2>1, <2>2
    <3>5. \E m \in 0 .. SectorsPerCluster - 1 :
             /\ position' = k.cluster * SectorsPerCluster + m
             /\ Len(k.buffer) = m * SectorSize
             /\ \A i \in 1 .. Len(k.buffer) : k.buffer[i] = OnDisk(disk'.data, k.cluster)[i]
      BY <3>2, <3>3
    <3> QED BY <3>4, <3>5 DEF Reading
  <2>3. CASE v # u
    BY <1>5, <2>1, <2>3 DEF Reading
  <2> QED BY <2>2, <2>3
<1> QED BY <1>11, <1>12 DEF Kept

(* A cluster that has been read is cached.                                 *)
LEMMA CacheFilled ==
  ASSUME NEW ca, Cached(ca), NEW data \in Sectored, NEW c \in Cluster, c \notin DOMAIN ca,
         NEW z, z = OnDisk(data, c)
  PROVE  /\ Cached(Added(ca, c, z))
         /\ Holding(Added(ca, c, z), data) = Holding(ca, data)
<1> DEFINE ca1 == Added(ca, c, z)
<1>1. z \in Block
  BY OnDiskType
<1>2. DOMAIN ca1 = DOMAIN ca \union {c}
      /\ \A d \in DOMAIN ca1 : ca1[d] = IF d = c THEN z ELSE ca[d]
  BY DEF Added
<1>3. ca1 = [d \in DOMAIN ca1 |-> ca1[d]]
  BY DEF Added
<1> HIDE DEF ca1
<1>4. \A d \in DOMAIN ca1 : ca1[d] \in Block
  BY <1>1, <1>2 DEF Cached
<1>5. Cached(ca1)
  BY <1>2, <1>3, <1>4 DEF Cached
<1>6. \A d \in Cluster : Bytes(ca1, data, d) = Bytes(ca, data, d)
  BY <1>2 DEF Bytes
<1>7. Holding(ca1, data) = Holding(ca, data)
  BY <1>6 DEF Holding
<1> QED BY <1>5, <1>7 DEF ca1

(* The machine has read a sector; after the last one the cluster is cached *)
(* and the copying goes on.                                                *)
LEMMA SectorReturnsKeeps ==
  ASSUME Kept, NEW u \in Users, SectorReturns(u)
  PROVE  Kept'
<1>1. Typed /\ misread = FALSE /\ (\A v \in Users : Reading(v)) /\ \E ps : Sound(ps)
  BY DEF Kept
<1>2. PICK ps : Sound(ps)
  BY <1>1
<1>3. PICK c : c = call[u]
  OBVIOUS
<1>4. PICK z : z = c.buffer \o disk.data[position]
  OBVIOUS
<1>5. /\ c.at = "read" /\ position' = position + 1
      /\ \/ /\ Len(z) < ClusterSize
            /\ call' = [call EXCEPT ![u].buffer = z]
            /\ UNCHANGED <<fat, cache, openFiles, owner, root, text, misread>>
         \/ /\ Len(z) = ClusterSize
            /\ GoOn(u, [c EXCEPT !.buffer = << >>], Added(cache, c.cluster, z))
      /\ UNCHANGED <<nextFD, disk>>
  BY <1>3, <1>4 DEF SectorReturns, history
<1>6. /\ c \in Calls /\ c # User /\ c.cluster \in Cluster /\ owner = u
      /\ c.cluster \notin DOMAIN cache /\ CallSound(ps, u)
      /\ call \in [Users -> Calls]
      /\ \A v \in Users : v # u => call[v].at \notin {"seek", "read"} /\ call[v].buffer = << >>
  BY <1>2, <1>3, <1>5, Waits
<1>7. /\ disk.data \in Sectored /\ Cached(cache) /\ position \in Nat
      /\ c.buffer \in Seq(Byte)
  BY <1>1, <1>6 DEF Typed, Calls
<1>8. PICK k \in 0 .. SectorsPerCluster - 1 :
        /\ position = c.cluster * SectorsPerCluster + k
        /\ Len(c.buffer) = k * SectorSize
        /\ \A i \in 1 .. Len(c.buffer) : c.buffer[i] = OnDisk(disk.data, c.cluster)[i]
  BY <1>1, <1>3, <1>5 DEF Reading
<1>9. /\ z \in Seq(Byte) /\ Len(z) = (k + 1) * SectorSize
      /\ \A i \in 1 .. Len(z) : z[i] = OnDisk(disk.data, c.cluster)[i]
      /\ Len(z) < ClusterSize => k + 1 \in 0 .. SectorsPerCluster - 1
      /\ Len(z) = ClusterSize => z = OnDisk(disk.data, c.cluster)
  <2>1. z = c.buffer \o disk.data[c.cluster * SectorsPerCluster + k]
    BY <1>4, <1>8
  <2>2. PICK data \in Sectored : data = disk.data
    BY <1>7
  <2>3. PICK cl \in Cluster, s \in Seq(Byte) : cl = c.cluster /\ s = c.buffer
    BY <1>6, <1>7
  <2>4. z = s \o data[cl * SectorsPerCluster + k] /\ SoFar(data, cl, k, s)
    BY <1>8, <2>1, <2>2, <2>3 DEF SoFar
  <2>5. /\ SoFar(data, cl, k + 1, z)
        /\ Len(z) < ClusterSize => k + 1 \in 0 .. SectorsPerCluster - 1
        /\ Len(z) = ClusterSize => z = OnDisk(data, cl)
    BY <2>4, SectorRead
  <2> QED BY <2>2, <2>3, <2>5 DEF SoFar
<1>10. PICK e, p : e = openFiles[c.fd].entry /\ p = openFiles[c.fd].filePtr
  OBVIOUS
<1>11. /\ InCall(ps[e], Held, text[e], p, c)
       /\ c.fd \in DOMAIN openFiles /\ openFiles[c.fd].user = u
  BY <1>3, <1>6, <1>10 DEF CallSound
<1>12. position' \in Nat /\ position' = c.cluster * SectorsPerCluster + (k + 1)
  <2>1. c.cluster \in Nat /\ SectorsPerCluster \in Nat
    BY <1>6, FileAssumption, ClusterType
  <2>2. c.cluster * SectorsPerCluster \in Nat
    BY <2>1
  <2> QED BY <1>5, <1>7, <1>8, <2>1, <2>2
<1>13. CASE /\ Len(z) < ClusterSize
            /\ call' = [call EXCEPT ![u].buffer = z]
            /\ UNCHANGED <<fat, cache, openFiles, owner, root, text, misread>>
  <2> DEFINE d == [c EXCEPT !.buffer = z]
  <2>1. /\ d \in Calls /\ d.at = "read" /\ d.op = c.op /\ d.fd = c.fd /\ d.buffer = z
        /\ d.size = c.size /\ d.byte = c.byte /\ d.done = c.done
        /\ d.offset = c.offset /\ d.left = c.left /\ d.cluster = c.cluster
    BY <1>5, <1>6, <1>9 DEF Calls
  <2>2. call' = [call EXCEPT ![u] = d]
    BY <1>3, <1>13, <1>6
  <2> HIDE DEF d
  <2>3. d # User
    BY <2>1, UserType
  <2>4. InCall(ps[e], Held, text[e], p, d)
    BY <1>5, <1>11, <2>1, StillInCall
  <2>5. Typed' /\ Sound(ps)' /\ misread' = FALSE
    <3>1. d.fd \in DOMAIN openFiles /\ openFiles[d.fd].user = u /\ call[u].fd = d.fd
      BY <1>3, <1>11, <2>1
    <3>2. InCall(ps[openFiles[d.fd].entry], Held, text[openFiles[d.fd].entry],
                 openFiles[d.fd].filePtr, d)
      BY <1>10, <2>1, <2>4
    <3>3. UNCHANGED <<fat, root, openFiles, nextFD, cache, owner, disk, text, misread>>
      BY <1>5, <1>13
    <3> QED BY <1>2, <1>12, <2>1, <2>2, <2>3, <3>1, <3>2, <3>3, CallMoves
  <2>6. ASSUME NEW v \in Users PROVE Reading(v)'
    <3>1. call'[v] = IF v = u THEN d ELSE call[v]
      BY <1>6, <2>2
    <3>2. CASE v = u
      <4>1. /\ k + 1 \in 0 .. SectorsPerCluster - 1
            /\ position' = d.cluster * SectorsPerCluster + (k + 1)
            /\ Len(d.buffer) = (k + 1) * SectorSize
            /\ \A i \in 1 .. Len(d.buffer) : d.buffer[i] = OnDisk(disk'.data, d.cluster)[i]
        BY <1>5, <1>9, <1>12, <1>13, <2>1
      <4>2. owner' = u /\ d.cluster \notin DOMAIN cache'
        BY <1>6, <1>13, <2>1
      <4> QED BY <2>1, <3>1, <3>2, <4>1, <4>2 DEF Reading
    <3>3. CASE v # u
      BY <1>6, <3>1, <3>3 DEF Reading
    <3> QED BY <3>2, <3>3
  <2> QED BY <2>5, <2>6 DEF Kept
<1>14. CASE /\ Len(z) = ClusterSize
            /\ GoOn(u, [c EXCEPT !.buffer = << >>], Added(cache, c.cluster, z))
  <2> DEFINE d == [c EXCEPT !.buffer = << >>]
             ca == Added(cache, c.cluster, z)
  <2>1. /\ d \in Calls /\ d.op = c.op /\ d.fd = c.fd /\ d.buffer = << >>
        /\ d.size = c.size /\ d.byte = c.byte /\ d.done = c.done /\ d.at = "read"
        /\ d.offset = c.offset /\ d.left = c.left /\ d.cluster = c.cluster
    <3>1. << >> \in Seq(Byte)
      OBVIOUS
    <3> QED BY <1>5, <1>6, <3>1 DEF Calls
  <2>2. GoOn(u, d, ca)
    BY <1>14
  <2> HIDE DEF d, ca
  <2>3. Cached(ca) /\ Holding(ca, disk.data) = Held
    BY <1>6, <1>7, <1>9, <1>14, CacheFilled DEF ca, Held
  <2>4. InCall(ps[e], Held, text[e], p, d)
    BY <1>5, <1>11, <2>1, StillInCall
  <2>5. MayGoOn(ps, u, d, ca)
    <3>1. Under(ps[e], Held, d, p, text[e]) /\ (ToDo(d, p) => At(ps[e], d, p))
      BY <2>1, <2>4 DEF InCall
    <3>2. call[u].fd = d.fd /\ owner = u
      BY <1>3, <1>6, <2>1
    <3> QED BY <1>10, <1>11, <2>1, <2>3, <3>1, <3>2 DEF MayGoOn
  <2> QED BY <1>1, <1>2, <1>5, <1>12, <2>1, <2>2, <2>5, GoOnKeeps
<1> QED BY <1>5, <1>13, <1>14

(* Entry e has been opened, with the pointer at p; the chains are qs.      *)
OpensEntry(ps, qs, u, flags, e, p) ==
  /\ LaidOut(qs, fat', root') /\ e \in 1 .. Len(root')
  /\ fat' \in Fats /\ root' \in Seq(Entry) /\ Len(root') <= RootEntryCount
  /\ text' \in Seq(Seq(Byte)) /\ Len(text') = Len(root')
  /\ 1 .. Len(root) \subseteq 1 .. Len(root')
  /\ \A x \in 1 .. Len(root') : x # e =>
       x \in 1 .. Len(root) /\ root'[x] = root[x] /\ text'[x] = text[x] /\ qs[x] = ps[x]
  /\ root'[e].size = Len(text'[e]) /\ p <= Len(text'[e])
  /\ Filed(qs[e], Held, text'[e])
  /\ ~ InUse(e)
  /\ openFiles' = Added(openFiles, nextFD,
                        [user |-> u, flags |-> flags, entry |-> e, filePtr |-> p])
  /\ nextFD' = nextFD + 1

(* A file that nobody has open is opened.                                  *)
LEMMA OpensEntryKeeps ==
  ASSUME Kept, NEW ps, Sound(ps), NEW qs, NEW u \in Users, NEW flags \in OpenFlags,
         NEW e, NEW p \in Nat, OpensEntry(ps, qs, u, flags, e, p),
         UNCHANGED <<cache, owner, call, disk, position, misread>>
  PROVE  Kept'
<1> DEFINE new == [user |-> u, flags |-> flags, entry |-> e, filePtr |-> p]
<1>1. Typed /\ misread = FALSE /\ (\A v \in Users : Reading(v))
  BY DEF Kept
<1>2. /\ LaidOut(qs, fat', root') /\ e \in 1 .. Len(root')
      /\ fat' \in Fats /\ root' \in Seq(Entry) /\ Len(root') <= RootEntryCount
      /\ text' \in Seq(Seq(Byte)) /\ Len(text') = Len(root')
      /\ 1 .. Len(root) \subseteq 1 .. Len(root')
      /\ \A x \in 1 .. Len(root') : x # e =>
           x \in 1 .. Len(root) /\ root'[x] = root[x] /\ text'[x] = text[x] /\ qs[x] = ps[x]
      /\ root'[e].size = Len(text'[e]) /\ p <= Len(text'[e])
      /\ Filed(qs[e], Held, text'[e])
      /\ openFiles' = Added(openFiles, nextFD, new)
      /\ nextFD' = nextFD + 1
  BY DEF OpensEntry
<1>3. \A d \in DOMAIN openFiles : openFiles[d].entry # e
  BY DEF OpensEntry, InUse
<1>4. /\ nextFD \in Nat /\ DOMAIN openFiles \subseteq 3 .. nextFD - 1
      /\ openFiles \in [DOMAIN openFiles -> Descriptors]
      /\ \A d \in DOMAIN openFiles : openFiles[d].entry \in 1 .. Len(root)
  BY <1>1 DEF Typed
<1>5. nextFD \notin DOMAIN openFiles
  BY <1>4
<1>6. new \in Descriptors /\ new.entry = e /\ new.filePtr = p
  <2>1. e \in Nat
    BY <1>2
  <2> QED BY <2>1 DEF Descriptors
<1> HIDE DEF new
<1>7. /\ DOMAIN openFiles' = DOMAIN openFiles \union {nextFD}
      /\ openFiles'[nextFD] = new
      /\ \A d \in DOMAIN openFiles : openFiles'[d] = openFiles[d]
      /\ openFiles' = [d \in DOMAIN openFiles' |-> openFiles'[d]]
  BY <1>2, <1>5 DEF Added
<1>8. Held' = Held
  BY DEF Held
<1>9. /\ \A d1, d2 \in DOMAIN openFiles : openFiles[d1].entry = openFiles[d2].entry => d1 = d2
      /\ \A x \in 1 .. Len(root) : root[x].size = Len(text[x])
      /\ \A v \in Users : call[v] # User => CallSound(ps, v)
      /\ \A d \in DOMAIN openFiles :
           Idle(d) => openFiles[d].filePtr <= Len(text[openFiles[d].entry])
      /\ \A x \in 1 .. Len(root) : ~ Writing(x) => Filed(ps[x], Held, text[x])
  BY DEF Sound
<1>10. Typed'
  <2>1. /\ nextFD' \in Nat /\ DOMAIN openFiles' \subseteq 3 .. nextFD' - 1
    <3>1. 3 <= nextFD \/ DOMAIN openFiles = {}
      BY <1>4
    <3>2. nextFD >= 3
      BY <1>1 DEF Typed
    <3> QED BY <1>2, <1>4, <1>7, <3>2
  <2>2. openFiles' \in [DOMAIN openFiles' -> Descriptors]
    <3>1. \A d \in DOMAIN openFiles' : openFiles'[d] \in Descriptors
      BY <1>4, <1>6, <1>7
    <3> QED BY <1>7, <3>1
  <2>3. \A d \in DOMAIN openFiles' : openFiles'[d].entry \in 1 .. Len(root')
    BY <1>2, <1>4, <1>6, <1>7
  <2> QED BY <1>1, <1>2, <2>1, <2>2, <2>3 DEF Typed
<1>11. \A v \in Users : Reading(v)'
  BY <1>1 DEF Reading
<1>12. \A x \in 1 .. Len(root') : root'[x].size = Len(text'[x])
  BY <1>2, <1>9
<1>13. \A d1, d2 \in DOMAIN openFiles' : openFiles'[d1].entry = openFiles'[d2].entry => d1 = d2
  BY <1>3, <1>6, <1>7, <1>9
<1>14. ASSUME NEW v \in Users, call'[v] # User PROVE CallSound(qs, v)'
  <2>1. PICK d, x : d = call[v].fd /\ x = openFiles[d].entry
    OBVIOUS
  <2>2. /\ d \in DOMAIN openFiles /\ openFiles[d].user = v
        /\ InCall(ps[x], Held, text[x], openFiles[d].filePtr, call[v])
    BY <1>9, <1>14, <2>1 DEF CallSound
  <2>3. x \in 1 .. Len(root') /\ x # e
    BY <1>2, <1>3, <1>4, <2>1, <2>2
  <2>4. qs[x] = ps[x] /\ text'[x] = text[x]
    BY <1>2, <2>3
  <2>5. openFiles'[d] = openFiles[d] /\ d \in DOMAIN openFiles'
    BY <1>7, <2>2
  <2> QED BY <1>8, <2>1, <2>2, <2>4, <2>5 DEF CallSound
<1>15. ASSUME NEW d \in DOMAIN openFiles', Idle(d)'
       PROVE  openFiles'[d].filePtr <= Len(text'[openFiles'[d].entry])
  <2>1. CASE d = nextFD
    BY <1>2, <1>6, <1>7, <2>1
  <2>2. CASE d # nextFD
    <3>1. d \in DOMAIN openFiles /\ openFiles'[d] = openFiles[d]
      BY <1>7, <2>2
    <3>2. Idle(d)
      BY <1>15 DEF Idle
    <3>3. text'[openFiles[d].entry] = text[openFiles[d].entry]
      BY <1>2, <1>3, <1>4, <3>1
    <3> QED BY <1>9, <3>1, <3>2, <3>3
  <2> QED BY <2>1, <2>2
<1>16. ASSUME NEW x \in 1 .. Len(root'), ~ Writing(x)' PROVE Filed(qs[x], Held', text'[x])
  <2>1. CASE x = e
    BY <1>2, <1>8, <2>1
  <2>2. CASE x # e
    <3>1. ~ Writing(x)
      <4> SUFFICES ASSUME NEW v \in Users, call[v].op = "write",
                          openFiles[call[v].fd].entry = x
                   PROVE  FALSE
        BY DEF Writing
      <4>1. call[v] # User
        BY UserType
      <4>2. call[v].fd \in DOMAIN openFiles
        BY <1>9, <4>1 DEF CallSound
      <4>3. openFiles'[call'[v].fd].entry = x /\ call'[v].op = "write"
        BY <1>7, <4>2
      <4> QED BY <1>16, <4>3 DEF Writing
    <3>2. x \in 1 .. Len(root) /\ text'[x] = text[x] /\ qs[x] = ps[x]
      BY <1>2, <2>2
    <3> QED BY <1>8, <1>9, <3>1, <3>2
  <2> QED BY <2>1, <2>2
<1>17. Sound(qs)'
  BY <1>2, <1>12, <1>13, <1>14, <1>15, <1>16 DEF Sound
<1> QED BY <1>1, <1>10, <1>11, <1>17 DEF Kept

(* No bytes are in every file.                                             *)
LEMMA EmptyFiled ==
  ASSUME NEW q, NEW b, Len(q) \in Nat
  PROVE  Filed(q, b, << >>)
<1>1. ASSUME NEW k \in 0 .. Len(q) - 1, NEW i \in 1 .. ClusterSize
      PROVE  ~ (k * ClusterSize + i <= 0)
  <2>1. k \in Nat /\ i \in Nat \ {0} /\ ClusterSize \in Nat
    BY ClusterSizeType
  <2>2. k * ClusterSize \in Nat
    BY <2>1
  <2> QED BY <2>1, <2>2
<1> QED BY <1>1 DEF Filed

(* VMFileOpen finds the file, and empties it if it is told to.             *)
LEMMA OpenFoundKeeps ==
  ASSUME Kept, Risks = {}, NEW u \in Users, NEW e \in 1 .. Len(root), NEW flags \in OpenFlags,
         OpenFound(u, e, flags), UNCHANGED <<cache, owner, call, disk, position, misread>>
  PROVE  Kept'
<1> DEFINE size == IF "O_TRUNC" \in flags THEN 0 ELSE root[e].size
           p == IF "O_APPEND" \in flags THEN size ELSE 0
           r == [root EXCEPT ![e].size = size]
<1>1. Typed /\ \E ps : Sound(ps)
  BY DEF Kept
<1>2. PICK ps : Sound(ps)
  BY <1>1
<1>3. /\ ~ InUse(e) /\ root' = r /\ fat' = fat
      /\ text' = IF "O_TRUNC" \in flags THEN [text EXCEPT ![e] = << >>] ELSE text
      /\ openFiles' = Added(openFiles, nextFD,
                            [user |-> u, flags |-> flags, entry |-> e, filePtr |-> p])
      /\ nextFD' = nextFD + 1
  BY DEF OpenFound, OpenAs
<1>4. /\ fat \in Fats /\ root \in Seq(Entry) /\ text \in Seq(Seq(Byte)) /\ Len(text) = Len(root)
      /\ Len(root) <= RootEntryCount
  BY <1>1 DEF Typed
<1>5. /\ LaidOut(ps, fat, root) /\ root[e].size = Len(text[e])
      /\ ~ Writing(e) => Filed(ps[e], Held, text[e])
      /\ \A x \in 1 .. Len(root) : root[x].size = Len(text[x])
  BY <1>2 DEF Sound
<1>6. ~ Writing(e)
  <2> SUFFICES ASSUME NEW v \in Users, call[v].op = "write", openFiles[call[v].fd].entry = e
               PROVE  FALSE
    BY DEF Writing
  <2>1. call[v] # User
    BY UserType
  <2>2. call[v].fd \in DOMAIN openFiles
    BY <1>2, <2>1 DEF Sound, CallSound
  <2> QED BY <1>3, <2>2 DEF InUse
<1>7. text[e] \in Seq(Byte) /\ Len(text[e]) \in Nat /\ Len(ps[e]) \in Nat
  BY <1>4, <1>5, ElementOfSeq, LenProperties, ChainFacts
<1>8. /\ size \in Nat /\ p \in Nat /\ p <= size
      /\ size <= Len(ps[e]) * ClusterSize
  <2>1. Len(text[e]) <= Len(ps[e]) * ClusterSize
    BY <1>5 DEF LaidOut, Chained
  <2>2. 0 <= Len(ps[e]) * ClusterSize
    BY <1>7, ClusterSizeType
  <2> QED BY <1>5, <1>7, <2>1, <2>2
<1> HIDE DEF size, p
<1>9. Resized(root, e, size, r) /\ LaidOut(ps, fat, r)
  BY <1>4, <1>5, <1>8, ResizedIs, ResizeLaysOut
<1> HIDE DEF r
<1>10. /\ r \in Seq(Entry) /\ Len(r) = Len(root) /\ r[e].size = size
       /\ \A x \in 1 .. Len(root) : x # e => r[x] = root[x]
  BY <1>9 DEF Resized
<1>11. /\ text' \in Seq(Seq(Byte)) /\ Len(text') = Len(root)
       /\ Len(text'[e]) = size /\ Filed(ps[e], Held, text'[e])
       /\ \A x \in 1 .. Len(root) : x # e => text'[x] = text[x]
  <2>1. CASE "O_TRUNC" \in flags
    <3>1. text' = [text EXCEPT ![e] = << >>] /\ size = 0 /\ << >> \in Seq(Byte) /\ Len(<< >>) = 0
      BY <1>3, <2>1 DEF size
    <3>2. Filed(ps[e], Held, << >>)
      BY <1>7, EmptyFiled
    <3>3. /\ [text EXCEPT ![e] = << >>] \in Seq(Seq(Byte))
          /\ Len([text EXCEPT ![e] = << >>]) = Len(text)
          /\ \A x \in 1 .. Len(text) :
               [text EXCEPT ![e] = << >>][x] = IF x = e THEN << >> ELSE text[x]
      BY <1>4, <3>1, ExceptSeq
    <3> QED BY <1>4, <3>1, <3>2, <3>3
  <2>2. CASE "O_TRUNC" \notin flags
    <3>1. text' = text /\ size = Len(text[e])
      BY <1>3, <1>5, <2>2 DEF size
    <3> QED BY <1>4, <1>5, <1>6, <3>1
  <2> QED BY <2>1, <2>2
<1>12. OpensEntry(ps, ps, u, flags, e, p)
  BY <1>3, <1>4, <1>8, <1>9, <1>10, <1>11 DEF OpensEntry
<1> QED BY <1>2, <1>8, <1>12, OpensEntryKeeps

(* VMFileOpen creates the file, with a cluster of its own.                 *)
LEMMA OpenNewKeeps ==
  ASSUME Kept, Risks = {}, NEW u \in Users, NEW n \in Names, NEW flags \in OpenFlags,
         OpenNew(u, n, flags), UNCHANGED <<cache, owner, call, disk, position, misread>>
  PROVE  Kept'
<1> DEFINE e == Len(root) + 1
           c == FirstFree(fat)
           x == [name |-> n, size |-> 0, first |-> c]
<1>1. Typed /\ \E ps : Sound(ps)
  BY DEF Kept
<1>2. PICK ps : Sound(ps)
  BY <1>1
<1>3. /\ Free(fat) # {} /\ Len(root) < RootEntryCount
      /\ fat' = [fat EXCEPT ![c] = EndOfChain]
      /\ root' = Append(root, x)
      /\ text' = Append(text, << >>)
      /\ openFiles' = Added(openFiles, nextFD,
                            [user |-> u, flags |-> flags, entry |-> e, filePtr |-> 0])
      /\ nextFD' = nextFD + 1
  BY DEF OpenNew, OpenAs
<1>4. /\ fat \in Fats /\ root \in Seq(Entry) /\ text \in Seq(Seq(Byte)) /\ Len(text) = Len(root)
      /\ \A d \in DOMAIN openFiles : openFiles[d].entry \in 1 .. Len(root)
  BY <1>1 DEF Typed
<1>5. LaidOut(ps, fat, root) /\ ps \in Seq(Seq(Cluster)) /\ Len(ps) = Len(root)
  BY <1>2 DEF Sound, LaidOut
<1>6. c \in Cluster /\ c \in 0 .. FatSize - 1
  BY <1>3, <1>4, FirstFreeIs, ClusterType
<1>7. x \in Entry /\ x.first = c /\ x.size = 0
  BY <1>6 DEF Entry
<1> DEFINE qs == Append(ps, <<c>>)
<1>8. fat' \in Fats /\ LaidOut(qs, fat', Append(root, x))
  <2> HIDE DEF x
  <2> QED BY <1>3, <1>4, <1>5, <1>7, NewLaysOut
<1> HIDE DEF x
<1>9. Len(root) \in Nat /\ RootEntryCount \in Nat
  BY <1>4, FileAssumption, LenProperties
<1>10. /\ root' \in Seq(Entry) /\ Len(root') = e /\ root'[e] = x
       /\ \A d \in 1 .. Len(root) : root'[d] = root[d]
  BY <1>3, <1>4, <1>7, AppendProperties
<1>11. /\ text' \in Seq(Seq(Byte)) /\ Len(text') = e /\ text'[e] = << >>
       /\ \A d \in 1 .. Len(root) : text'[d] = text[d]
  <2>1. << >> \in Seq(Byte)
    OBVIOUS
  <2> QED BY <1>3, <1>4, <2>1, AppendProperties
<1>12. qs[e] = <<c>> /\ \A d \in 1 .. Len(root) : qs[d] = ps[d]
  <2>1. <<c>> \in Seq(Cluster)
    BY <1>6
  <2> QED BY <1>5, <2>1, AppendProperties
<1> HIDE DEF qs
<1>13. ~ InUse(e)
  BY <1>4, <1>9 DEF InUse
<1>14. Filed(qs[e], Held, text'[e])
  BY <1>11, <1>12, EmptyFiled
<1>15. OpensEntry(ps, qs, u, flags, e, 0)
  <2>1. e \in 1 .. e /\ e <= RootEntryCount /\ 1 .. Len(root) \subseteq 1 .. e
        /\ \A d \in 1 .. e : d # e => d \in 1 .. Len(root)
    BY <1>3, <1>9
  <2>2. root'[e].size = Len(text'[e]) /\ 0 <= Len(text'[e])
    BY <1>7, <1>10, <1>11
  <2> HIDE DEF e, c
  <2> QED BY <1>3, <1>8, <1>10, <1>11, <1>12, <1>13, <1>14, <2>1, <2>2 DEF OpensEntry
<1> QED BY <1>2, <1>15, OpensEntryKeeps

(* VMFileOpen, either way.                                                 *)
LEMMA OpenKeeps ==
  ASSUME Kept, Risks = {}, NEW u \in Users, NEW n \in Names, NEW flags \in OpenFlags,
         VMFileOpen(u, n, flags)
  PROVE  Kept'
<1>1. \/ \E e \in 1 .. Len(root) : OpenFound(u, e, flags)
      \/ OpenNew(u, n, flags)
  BY DEF VMFileOpen, Found
<1>2. UNCHANGED <<cache, owner, call, disk, position, misread>>
  BY DEF VMFileOpen
<1> QED BY <1>1, <1>2, OpenFoundKeeps, OpenNewKeeps

(* VMFileClose.                                                            *)
LEMMA CloseKeeps ==
  ASSUME Kept, Risks = {}, NEW u \in Users, NEW fd, VMFileClose(u, fd)
  PROVE  Kept'
<1>1. Typed /\ misread = FALSE /\ (\A v \in Users : Reading(v)) /\ \E ps : Sound(ps)
  BY DEF Kept
<1>2. PICK ps : Sound(ps)
  BY <1>1
<1>3. /\ call[u].at = "user" /\ fd \in DOMAIN openFiles /\ openFiles[fd].user = u
      /\ openFiles' = [d \in DOMAIN openFiles \ {fd} |-> openFiles[d]]
      /\ UNCHANGED <<fat, root, nextFD, cache, owner, call, disk, position, text, misread>>
  <2>1. /\ call[u].at = "user" /\ fd \in DOMAIN openFiles /\ openFiles[fd].user = u
        /\ openFiles' = [d \in DOMAIN openFiles \ {fd} |-> openFiles[d]]
        /\ call' = [v \in Users |-> IF call[v].fd = fd THEN [call[v] EXCEPT !.at = "freed"]
                                                     ELSE call[v]]
        /\ UNCHANGED <<fat, root, nextFD, cache, owner, disk, position, text, misread>>
    BY DEF VMFileClose, InCode, Opened, history
  <2>2. call \in [Users -> Calls] /\ DOMAIN openFiles \subseteq 3 .. nextFD - 1 /\ nextFD \in Nat
    BY <1>1 DEF Typed
  <2>3. call[u] = User
    BY <1>1, <1>2, <2>1, NotInCall
  <2>4. ASSUME NEW v \in Users PROVE call[v].fd # fd
    <3>1. CASE call[v] = User
      <4>1. call[v].fd = 0
        BY <3>1 DEF User
      <4> QED BY <2>1, <2>2, <4>1
    <3>2. CASE call[v] # User
      <4>1. openFiles[call[v].fd].user = v
        BY <1>2, <3>2 DEF Sound, CallSound
      <4> QED BY <2>1, <2>3, <3>2, <4>1
    <3> QED BY <3>1, <3>2
  <2>5. call' = [v \in Users |-> call[v]]
    BY <2>1, <2>4
  <2>6. call' = call
    BY <2>2, <2>5
  <2> QED BY <2>1, <2>6
<1>4. /\ DOMAIN openFiles' = DOMAIN openFiles \ {fd}
      /\ \A d \in DOMAIN openFiles' : openFiles'[d] = openFiles[d]
      /\ openFiles' = [d \in DOMAIN openFiles' |-> openFiles'[d]]
  BY <1>3
<1>5. call[u] = User
  BY <1>1, <1>2, <1>3, NotInCall
<1>6. Held' = Held
  BY <1>3 DEF Held
<1>7. /\ \A d1, d2 \in DOMAIN openFiles : openFiles[d1].entry = openFiles[d2].entry => d1 = d2
      /\ \A v \in Users : call[v] # User => CallSound(ps, v)
      /\ \A d \in DOMAIN openFiles :
           Idle(d) => openFiles[d].filePtr <= Len(text[openFiles[d].entry])
      /\ \A x \in 1 .. Len(root) : ~ Writing(x) => Filed(ps[x], Held, text[x])
      /\ LaidOut(ps, fat, root) /\ \A x \in 1 .. Len(root) : root[x].size = Len(text[x])
  BY <1>2 DEF Sound
<1>8. \A v \in Users : call[v] # User => call[v].fd \in DOMAIN openFiles'
  BY <1>3, <1>4, <1>5, <1>7 DEF CallSound
<1>9. \A v \in Users : call'[v] # User => CallSound(ps, v)'
  BY <1>3, <1>4, <1>6, <1>7, <1>8 DEF CallSound
<1>10. ASSUME NEW d \in DOMAIN openFiles', Idle(d)'
       PROVE  openFiles'[d].filePtr <= Len(text'[openFiles'[d].entry])
  <2>1. Idle(d)
    BY <1>3, <1>10 DEF Idle
  <2> QED BY <1>3, <1>4, <1>7, <2>1
<1>11. ASSUME NEW x \in 1 .. Len(root'), ~ Writing(x)' PROVE Filed(ps[x], Held', text'[x])
  <2>1. ~ Writing(x)
    <3> SUFFICES ASSUME NEW v \in Users, call[v].op = "write",
                        openFiles[call[v].fd].entry = x
                 PROVE  FALSE
      BY DEF Writing
    <3>1. call[v] # User
      BY UserType
    <3>2. openFiles'[call'[v].fd].entry = x /\ call'[v].op = "write"
      BY <1>3, <1>4, <1>8, <3>1
    <3> QED BY <1>11, <3>2 DEF Writing
  <2> QED BY <1>3, <1>6, <1>7, <2>1
<1>12. \A d1, d2 \in DOMAIN openFiles' : openFiles'[d1].entry = openFiles'[d2].entry => d1 = d2
  BY <1>4, <1>7
<1>13. Sound(ps)'
  BY <1>3, <1>7, <1>9, <1>10, <1>11, <1>12 DEF Sound
<1>14. Typed'
  <2>1. /\ openFiles \in [DOMAIN openFiles -> Descriptors]
        /\ DOMAIN openFiles \subseteq 3 .. nextFD - 1
        /\ \A d \in DOMAIN openFiles : openFiles[d].entry \in 1 .. Len(root)
    BY <1>1 DEF Typed
  <2>2. openFiles' \in [DOMAIN openFiles' -> Descriptors]
    BY <1>4, <2>1
  <2> QED BY <1>1, <1>3, <1>4, <2>1, <2>2 DEF Typed
<1>15. \A v \in Users : Reading(v)'
  BY <1>1, <1>3 DEF Reading
<1> QED BY <1>1, <1>3, <1>13, <1>14, <1>15 DEF Kept

(* VMFileSeek moves the file pointer, no further than the end of the file. *)
LEMMA SeekKeeps ==
  ASSUME Kept, Risks = {}, NEW u \in Users, NEW fd, NEW s \in Seeks,
         VMFileSeek(u, fd, s[1], s[2])
  PROVE  Kept'
<1>1. Typed /\ misread = FALSE /\ (\A v \in Users : Reading(v)) /\ \E ps : Sound(ps)
  BY DEF Kept
<1>2. PICK ps : Sound(ps)
  BY <1>1
<1>3. PICK e : e = openFiles[fd].entry
  OBVIOUS
<1> DEFINE size == root[openFiles[fd].entry].size
           to == CASE s[2] = 1 -> openFiles[fd].filePtr + s[1]
                   [] s[2] = 2 -> size
                   [] OTHER -> s[1]
           p == IF to < 0 \/ to > size THEN size ELSE to
<1>4. /\ call[u].at = "user" /\ fd \in DOMAIN openFiles /\ openFiles[fd].user = u
      /\ openFiles' = [openFiles EXCEPT ![fd].filePtr = p]
      /\ UNCHANGED <<fat, root, nextFD, cache, owner, call, disk, position, text, misread>>
  BY DEF VMFileSeek, InCode, Opened, history
<1>5. /\ root \in Seq(Entry) /\ e \in 1 .. Len(root) /\ text \in Seq(Seq(Byte))
      /\ Len(text) = Len(root) /\ openFiles \in [DOMAIN openFiles -> Descriptors]
      /\ openFiles[fd].filePtr \in Nat /\ call \in [Users -> Calls] /\ fat \in Fats
  BY <1>1, <1>3, <1>4 DEF Typed, Descriptors
<1>6. /\ LaidOut(ps, fat, root) /\ ps \in Seq(Seq(Cluster)) /\ Len(ps) = Len(root)
      /\ root[e].size = Len(text[e])
      /\ ~ Writing(e) => Filed(ps[e], Held, text[e])
  BY <1>2, <1>5 DEF Sound, LaidOut
<1>7. /\ ps[e] \in Seq(Cluster) /\ [ps EXCEPT ![e] = ps[e]] = ps
      /\ text[e] \in Seq(Byte) /\ Len(text[e]) \in Nat
  BY <1>5, <1>6, ElementOfSeq, LenProperties
<1>8. s[1] \in Int /\ size = Len(text[e])
  BY <1>3, <1>6, FileAssumption
<1>9. p \in Nat /\ p <= Len(text[e])
  <2>1. to \in Int
    BY <1>5, <1>7, <1>8
  <2> HIDE DEF to, size
  <2> QED BY <1>7, <1>8, <2>1
<1> HIDE DEF p
<1>10. call[u] = User /\ ~ Writing(e)
  BY <1>1, <1>2, <1>3, <1>4, NotInCall
<1>11. Held' = Held
  BY <1>4 DEF Held
<1>12. OneFile(ps, u, fd, e, ps[e], p, User)
  <2>1. Elsewhere(ps, e, Len(root), Held, Held')
    BY <1>11 DEF Elsewhere
  <2>2. call' = [call EXCEPT ![u] = User]
    BY <1>4, <1>5, <1>10
  <2> QED BY <1>4, <1>6, <1>7, <1>9, <1>10, <1>11, <2>1, <2>2 DEF OneFile
<1>13. Sound(ps)'
  <2>1. Sound([ps EXCEPT ![e] = ps[e]])'
    BY <1>1, <1>2, <1>3, <1>4, <1>7, <1>9, <1>10, <1>12, UserType, OneFileKeeps
  <2> QED BY <1>7, <2>1
<1>14. Typed'
  <2>1. /\ DOMAIN openFiles' = DOMAIN openFiles
        /\ openFiles' \in [DOMAIN openFiles' -> Descriptors]
        /\ \A d1 \in DOMAIN openFiles' : openFiles'[d1].entry \in 1 .. Len(root')
    BY <1>1, <1>4, <1>9, PointerMoved
  <2> QED BY <1>1, <1>4, <2>1 DEF Typed
<1>15. \A v \in Users : Reading(v)'
  BY <1>1, <1>4 DEF Reading
<1> QED BY <1>1, <1>4, <1>13, <1>14, <1>15 DEF Kept

(* No file is open, or the files are as they were.                         *)
LEMMA QuietKeeps ==
  ASSUME Kept, NEW ps, Sound(ps), \A u \in Users : call[u] = User,
         openFiles' \in {openFiles, << >>}, Held' = Held, Cached(cache'),
         disk' \in [fat : Fats, root : Seq(Entry), data : Sectored], position' \in Nat,
         UNCHANGED <<fat, root, nextFD, owner, call, text, misread>>
  PROVE  Kept'
<1>1. Typed /\ misread = FALSE /\ (\A v \in Users : Reading(v))
  BY DEF Kept
<1>2. Typed'
  <2>1. /\ DOMAIN openFiles' \subseteq 3 .. nextFD - 1
        /\ openFiles' \in [DOMAIN openFiles' -> Descriptors]
        /\ \A d1 \in DOMAIN openFiles' : openFiles'[d1].entry \in 1 .. Len(root)
    <3>1. CASE openFiles' = openFiles
      BY <1>1, <3>1 DEF Typed
    <3>2. CASE openFiles' = << >>
      <4>1. DOMAIN openFiles' = {} /\ openFiles' = [d \in {} |-> openFiles'[d]]
        BY <3>2
      <4> QED BY <4>1
    <3> QED BY <3>1, <3>2
  <2> QED BY <1>1, <2>1 DEF Typed
<1>3. \A u \in Users : Reading(u)'
  BY DEF Reading, User
<1>4. \A e \in 1 .. Len(root) : ~ Writing(e)
  BY UserType DEF Writing
<1>5. \A d \in DOMAIN openFiles : openFiles[d].filePtr <= Len(text[openFiles[d].entry])
  BY DEF Sound, Idle
<1>6. Sound(ps)'
  <2>1. /\ \A d1, d2 \in DOMAIN openFiles' : openFiles'[d1].entry = openFiles'[d2].entry => d1 = d2
        /\ \A d \in DOMAIN openFiles' : openFiles'[d].filePtr <= Len(text[openFiles'[d].entry])
    <3>1. CASE openFiles' = openFiles
      BY <1>5, <3>1 DEF Sound
    <3>2. CASE openFiles' = << >>
      BY <3>2
    <3> QED BY <3>1, <3>2
  <2>2. \A u \in Users : call'[u] = User
    OBVIOUS
  <2>3. \A e \in 1 .. Len(root) : Filed(ps[e], Held, text[e]) /\ root[e].size = Len(text[e])
    BY <1>4 DEF Sound
  <2>4. LaidOut(ps, fat, root)
    BY DEF Sound
  <2> QED BY <2>1, <2>2, <2>3, <2>4 DEF Sound
<1> QED BY <1>1, <1>2, <1>3, <1>6 DEF Kept

(* Clusters with the same bytes are the same.                              *)
LEMMA SameBlocks ==
  ASSUME NEW v \in Block, NEW w \in Block, \A i \in 1 .. ClusterSize : v[i] = w[i]
  PROVE  v = w
<1>1. /\ v = [i \in 1 .. ClusterSize |-> v[i]]
      /\ w = [i \in 1 .. ClusterSize |-> w[i]]
  BY DEF Block
<1>2. [i \in 1 .. ClusterSize |-> v[i]] = [i \in 1 .. ClusterSize |-> w[i]]
  OBVIOUS
<1> QED BY <1>1, <1>2

(* The disk with the cached cluster c written back, and the rest of the    *)
(* cache.                                                                  *)
Back(ca, c, data) ==
  [s \in Sectors |-> IF s \div SectorsPerCluster = c
                     THEN SubSeq(ca[c], (s % SectorsPerCluster) * SectorSize + 1,
                                 ((s % SectorsPerCluster) + 1) * SectorSize)
                     ELSE data[s]]

Without(ca, c) == [d \in DOMAIN ca \ {c} |-> ca[d]]

(* A cluster that is written back is then read from the disk.              *)
LEMMA WrittenBack ==
  ASSUME NEW ca, Cached(ca), NEW c \in DOMAIN ca, NEW data \in Sectored, NEW data1, NEW ca1,
         data1 = Back(ca, c, data), ca1 = Without(ca, c)
  PROVE  data1 \in Sectored /\ Cached(ca1) /\ Holding(ca1, data1) = Holding(ca, data)
<1>1. /\ data1 = [s \in Sectors |->
                    IF s \div SectorsPerCluster = c
                    THEN SubSeq(ca[c], (s % SectorsPerCluster) * SectorSize + 1,
                                ((s % SectorsPerCluster) + 1) * SectorSize)
                    ELSE data[s]]
      /\ ca1 = [d \in DOMAIN ca \ {c} |-> ca[d]]
  BY DEF Back, Without
<1>2. /\ SectorSize \in Nat \ {0} /\ SectorsPerCluster \in Nat \ {0}
      /\ ClusterSize \in Nat \ {0} /\ ClusterSize = SectorSize * SectorsPerCluster
      /\ FatSize \in Nat
  BY FileAssumption, ClusterSizeType, ClusterType DEF ClusterSize
<1>3. /\ c \in Cluster /\ c \in Nat /\ ca[c] \in [1 .. ClusterSize -> Byte]
  BY ClusterType DEF Cached, Block
<1> DEFINE blk == ca[c]
           sector(k) == SubSeq(blk, k * SectorSize + 1, (k + 1) * SectorSize)
<1>4. ASSUME NEW k \in 0 .. SectorsPerCluster - 1
      PROVE  /\ sector(k) \in [1 .. SectorSize -> Byte]
             /\ \A m \in 1 .. SectorSize : sector(k)[m] = blk[k * SectorSize + m]
  <2> DEFINE base == k * SectorSize
  <2>1. k \in Nat /\ k < SectorsPerCluster
    BY <1>2
  <2>2. base \in Nat /\ (k + 1) * SectorSize = base + SectorSize
    BY <1>2, <2>1
  <2>3. base + SectorSize <= ClusterSize
    <3>1. base + SectorSize <= SectorsPerCluster * SectorSize
      BY <1>2, <2>1, NextBlock
    <3>2. SectorsPerCluster * SectorSize = SectorSize * SectorsPerCluster
      BY <1>2
    <3> QED BY <1>2, <3>1, <3>2
  <2> DEFINE w == SubSeq(blk, base + 1, base + SectorSize)
  <2>4. sector(k) = w
    BY <2>2
  <2> HIDE DEF base, blk, sector, w
  <2>5. \A i \in base + 1 .. base + SectorSize : blk[i] \in Byte
    BY <1>2, <1>3, <2>2, <2>3 DEF blk
  <2>6. base + 1 \in Int /\ base + SectorSize \in Int
    BY <1>2, <2>2
  <2>7. /\ w \in Seq(Byte)
        /\ Len(w) = (IF base + 1 <= base + SectorSize
                     THEN (base + SectorSize) - (base + 1) + 1 ELSE 0)
        /\ \A i \in 1 .. (base + SectorSize) - (base + 1) + 1 : w[i] = blk[(base + 1) + i - 1]
    BY <2>5, <2>6, SubSeqProperties DEF w
  <2>8. Len(w) = SectorSize /\ (base + SectorSize) - (base + 1) + 1 = SectorSize
    BY <1>2, <2>2, <2>7
  <2>9. \A m \in 1 .. SectorSize : w[m] = blk[base + m]
    <3>1. \A m \in 1 .. SectorSize : (base + 1) + m - 1 = base + m
      BY <1>2, <2>2
    <3> QED BY <2>7, <2>8, <3>1
  <2>10. w \in [1 .. SectorSize -> Byte]
    BY <2>7, <2>8, LenProperties
  <2>11. sector(k) \in [1 .. SectorSize -> Byte]
         /\ \A m \in 1 .. SectorSize : sector(k)[m] = blk[base + m]
    BY <2>4, <2>9, <2>10
  <2> QED BY <2>11 DEF base, blk, sector
<1> HIDE DEF sector, blk
<1>5. data1 = [s \in Sectors |->
                 IF s \div SectorsPerCluster = c THEN sector(s % SectorsPerCluster) ELSE data[s]]
  BY <1>1 DEF sector, blk
<1>6. \A s \in Sectors : s \in Nat /\ s % SectorsPerCluster \in 0 .. SectorsPerCluster - 1
  <2>1. \A s \in Sectors : s \in Nat
    <3>1. 2 * SectorsPerCluster \in Nat /\ FatSize * SectorsPerCluster - 1 \in Int
      BY <1>2
    <3> QED BY <3>1 DEF Sectors
  <2> QED BY <1>2, <2>1, DivMod
<1>7. data1 \in Sectored
  <2>1. \A s \in Sectors : data[s] \in [1 .. SectorSize -> Byte]
    BY DEF Sectored
  <2>2. \A s \in Sectors : data1[s] \in [1 .. SectorSize -> Byte]
    BY <1>4, <1>5, <1>6, <2>1
  <2> QED BY <1>5, <2>2 DEF Sectored
(* Sector k of cluster d.                                                  *)
<1>8. ASSUME NEW d \in Cluster, NEW k \in 0 .. SectorsPerCluster - 1,
             d * SectorsPerCluster + k \in Sectors
      PROVE  data1[d * SectorsPerCluster + k] =
               IF d = c THEN sector(k) ELSE data[d * SectorsPerCluster + k]
  <2> DEFINE s == d * SectorsPerCluster + k
  <2>1. d \in Nat /\ k + 1 \in 1 .. SectorsPerCluster /\ k \in Nat
    BY <1>2, ClusterType
  <2>2. /\ (d * SectorsPerCluster + (k + 1) - 1) \div SectorsPerCluster = d
        /\ ((d * SectorsPerCluster + (k + 1) - 1) % SectorsPerCluster) + 1 = k + 1
    BY <1>2, <2>1, WhichBlock
  <2>3. (k + 1) - 1 = k
    BY <2>1
  <2>4. s \div SectorsPerCluster = d /\ (s % SectorsPerCluster) + 1 = k + 1
    BY <2>2, <2>3
  <2>5. s \in Sectors
    BY <1>8
  <2> HIDE DEF s
  <2>6. s % SectorsPerCluster \in Int
    BY <1>6, <2>5
  <2>7. s % SectorsPerCluster = k
    BY <2>1, <2>4, <2>6
  <2>8. data1[s] = IF d = c THEN sector(k) ELSE data[s]
    BY <1>5, <2>4, <2>5, <2>7
  <2> QED BY <2>8 DEF s
<1>9. ASSUME NEW d \in Cluster, NEW i \in 1 .. ClusterSize
      PROVE  OnDisk(data1, d)[i] = IF d = c THEN blk[i] ELSE OnDisk(data, d)[i]
  <2> DEFINE k == (i - 1) \div SectorSize
             m == ((i - 1) % SectorSize) + 1
  <2>1. /\ k \in 0 .. SectorsPerCluster - 1 /\ m \in 1 .. SectorSize
        /\ d * SectorsPerCluster + k \in Sectors /\ i = k * SectorSize + m
    BY SectorsOf
  <2>2. /\ OnDisk(data1, d)[i] = data1[d * SectorsPerCluster + k][m]
        /\ OnDisk(data, d)[i] = data[d * SectorsPerCluster + k][m]
    BY DEF OnDisk
  <2> HIDE DEF k, m
  <2> QED BY <1>4, <1>8, <2>1, <2>2
<1>10. OnDisk(data1, c) = blk
  <2>1. PICK v : v = OnDisk(data1, c)
    OBVIOUS
  <2>2. v \in Block /\ blk \in Block
    BY <1>3, <1>7, <2>1, OnDiskType DEF Block, blk
  <2>3. \A i \in 1 .. ClusterSize : v[i] = blk[i]
    BY <1>3, <1>9, <2>1
  <2>4. v = blk
    BY <2>2, <2>3, SameBlocks
  <2> QED BY <2>1, <2>4
<1>11. ASSUME NEW d \in Cluster, d # c PROVE OnDisk(data1, d) = OnDisk(data, d)
  <2>1. PICK v, w : v = OnDisk(data1, d) /\ w = OnDisk(data, d)
    OBVIOUS
  <2>2. v \in Block /\ w \in Block
    BY <1>7, <2>1, OnDiskType
  <2>3. \A i \in 1 .. ClusterSize : v[i] = w[i]
    BY <1>9, <1>11, <2>1
  <2>4. v = w
    BY <2>2, <2>3, SameBlocks
  <2> QED BY <2>1, <2>4
<1>12. Cached(ca1) /\ DOMAIN ca1 = DOMAIN ca \ {c} /\ \A d \in DOMAIN ca1 : ca1[d] = ca[d]
  BY <1>1 DEF Cached
<1>13. \A d \in Cluster : Bytes(ca1, data1, d) = Bytes(ca, data, d)
  BY <1>10, <1>11, <1>12 DEF Bytes, blk
<1>14. Holding(ca1, data1) = Holding(ca, data)
  BY <1>13 DEF Holding
<1> QED BY <1>7, <1>12, <1>14

(* A file is filed as it is found.                                         *)
LEMMA StoredFiled ==
  ASSUME NEW ps, NEW f \in Fats, NEW r \in Seq(Entry), LaidOut(ps, f, r),
         NEW e \in 1 .. Len(r), NEW ca, Cached(ca), NEW data \in Sectored,
         NEW t, t = Stored(f, ca, data, r[e])
  PROVE  t \in Seq(Byte) /\ Len(t) = r[e].size /\ Filed(ps[e], Holding(ca, data), t)
<1> DEFINE p == ps[e]
           hop == Hops(f, r[e].first)
           b == Holding(ca, data)
<1>1. /\ Len(p) \in Nat /\ Len(p) < FatSize /\ FatSize \in Nat
      /\ \A i \in 1 .. Len(p) : p[i] \in Cluster
      /\ r[e].size \in Nat /\ r[e].size <= Len(p) * ClusterSize
      /\ ClusterSize \in Nat \ {0}
  <2>1. r[e].size <= Len(p) * ClusterSize
    BY DEF LaidOut, Chained
  <2>2. r[e] \in Entry
    BY ChainFacts
  <2>3. r[e].size \in Nat
    BY <2>2 DEF Entry
  <2> QED BY <2>1, <2>3, ChainFacts, ChainFits, ClusterType, ClusterSizeType
<1>2. \A n \in 0 .. FatSize : n < Len(p) => hop[n] = p[n + 1]
  BY HopsAre
<1>3. t = [i \in 1 .. r[e].size |->
             Bytes(ca, data, hop[(i - 1) \div ClusterSize])[((i - 1) % ClusterSize) + 1]]
  BY DEF Stored
<1>4. b \in Contents
  BY HoldingType
<1>5. \A c \in Cluster : Bytes(ca, data, c) = b[c]
  BY DEF Holding
<1>6. PICK size \in Nat : size = r[e].size
  BY <1>1
<1> HIDE DEF p, hop, b
(* Byte number i of the file.                                              *)
<1>7. ASSUME NEW k \in 0 .. Len(p) - 1, NEW m \in 1 .. ClusterSize, NEW i \in 1 .. size,
             (i - 1) \div ClusterSize = k, ((i - 1) % ClusterSize) + 1 = m
      PROVE  t[i] = b[p[k + 1]][m] /\ b[p[k + 1]][m] \in Byte
  <2>1. k \in 0 .. FatSize /\ k < Len(p) /\ k + 1 \in 1 .. Len(p)
    BY <1>1
  <2>2. hop[k] = p[k + 1] /\ p[k + 1] \in Cluster
    BY <1>1, <1>2, <2>1
  <2>3. t[i] = Bytes(ca, data, hop[k])[m]
    BY <1>3, <1>6, <1>7
  <2>4. b[p[k + 1]] \in [1 .. ClusterSize -> Byte]
    BY <1>4, <2>2 DEF Contents, Block
  <2> QED BY <1>5, <2>2, <2>3, <2>4
<1>8. ASSUME NEW i \in 1 .. size PROVE t[i] \in Byte
  <2> DEFINE k == (i - 1) \div ClusterSize
             m == ((i - 1) % ClusterSize) + 1
  <2>1. i \in 1 .. Len(p) * ClusterSize
    BY <1>1, <1>6
  <2>2. k \in 0 .. Len(p) - 1 /\ m \in 1 .. ClusterSize
    BY <1>1, <2>1, InBlock
  <2> QED BY <1>7, <2>2
<1>9. t \in [1 .. size -> Byte]
  <2>1. t = [i \in 1 .. size |-> t[i]]
    BY <1>3, <1>6
  <2> QED BY <1>8, <2>1
<1>10. t \in Seq(Byte) /\ Len(t) = size
  BY <1>6, <1>9
<1>11. ASSUME NEW k \in 0 .. Len(p) - 1, NEW m \in 1 .. ClusterSize, k * ClusterSize + m <= Len(t)
       PROVE  b[p[k + 1]][m] = t[k * ClusterSize + m]
  <2>1. k \in Nat
    BY <1>1
  <2>2. k * ClusterSize \in Nat
    BY <1>1, <2>1
  <2>3. PICK i : i = k * ClusterSize + m
    OBVIOUS
  <2>4. i \in 1 .. size
    BY <1>1, <1>10, <1>11, <2>2, <2>3
  <2>5. i - 1 = k * ClusterSize + m - 1
    BY <1>1, <2>2, <2>3
  <2>6. /\ (k * ClusterSize + m - 1) \div ClusterSize = k
        /\ ((k * ClusterSize + m - 1) % ClusterSize) + 1 = m
    BY <1>1, <2>1, WhichBlock
  <2> QED BY <1>7, <2>3, <2>4, <2>5, <2>6
<1>12. Filed(p, b, t)
  BY <1>11 DEF Filed
<1> QED BY <1>6, <1>10, <1>12 DEF p, b

(* VMStart mounts a sound disk.                                            *)
LEMMA FilesBegin ==
  ASSUME SoundImages, Init
  PROVE  FilesInv
<1>1. /\ disk \in Images /\ fat = disk.fat /\ root = disk.root /\ openFiles = << >>
      /\ nextFD = 3 /\ cache = << >> /\ owner = Nobody /\ call = [u \in Users |-> User]
      /\ position = 0 /\ phase = "up" /\ misread = FALSE
      /\ text = [e \in 1 .. Len(root) |-> Stored(disk.fat, << >>, disk.data, root[e])]
  BY DEF Init
<1>2. /\ disk \in [ fat  : [0 .. FatSize - 1 -> 0 .. EndOfChain],
                    root : Seq(Entry),
                    data : [Sectors -> [1 .. SectorSize -> Byte]] ]
      /\ disk.fat[0] # 0 /\ disk.fat[1] # 0
  BY <1>1, FileAssumption
<1>3. /\ fat \in Fats /\ root \in Seq(Entry) /\ disk.data \in Sectored
      /\ disk \in [fat : Fats, root : Seq(Entry), data : Sectored]
  BY <1>1, <1>2 DEF Fats, Sectored
<1>4. PICK ps : LaidOut(ps, fat, root) /\ Len(root) <= RootEntryCount
  BY <1>1 DEF SoundImages
<1>5. Cached(cache) /\ Held = Holding(<< >>, disk.data)
  <2>1. DOMAIN cache = {} /\ cache = [c \in {} |-> cache[c]]
    BY <1>1
  <2>2. Cached(cache)
    BY <2>1 DEF Cached
  <2> QED BY <1>1, <2>2 DEF Held
<1>6. /\ \A e \in 1 .. Len(root) :
           text[e] \in Seq(Byte) /\ Len(text[e]) = root[e].size /\ Filed(ps[e], Held, text[e])
  <2> SUFFICES ASSUME NEW e \in 1 .. Len(root)
               PROVE  text[e] \in Seq(Byte) /\ Len(text[e]) = root[e].size
                      /\ Filed(ps[e], Held, text[e])
    OBVIOUS
  <2>1. PICK t : t = text[e]
    OBVIOUS
  <2>2. t = Stored(fat, cache, disk.data, root[e])
    BY <1>1, <2>1
  <2>3. t \in Seq(Byte) /\ Len(t) = root[e].size /\ Filed(ps[e], Holding(cache, disk.data), t)
    BY <1>3, <1>4, <1>5, <2>2, StoredFiled
  <2> QED BY <2>1, <2>3 DEF Held
<1>7. text \in Seq(Seq(Byte)) /\ Len(text) = Len(root)
  <2>1. Len(root) \in Nat
    BY <1>3, LenProperties
  <2>2. text = [e \in 1 .. Len(root) |-> text[e]]
    BY <1>1
  <2>3. text \in [1 .. Len(root) -> Seq(Byte)]
    BY <1>6, <2>2
  <2> QED BY <2>1, <2>3
<1>8. DOMAIN openFiles = {} /\ openFiles = [d \in {} |-> openFiles[d]]
  BY <1>1
<1>9. \A u \in Users : call[u] = User
  BY <1>1
<1>10. Typed
  <2>1. openFiles \in [DOMAIN openFiles -> Descriptors]
    BY <1>8
  <2>2. call \in [Users -> Calls]
    BY <1>1, UserType
  <2> QED BY <1>1, <1>3, <1>4, <1>5, <1>7, <1>8, <2>1, <2>2 DEF Typed
<1>11. Sound(ps)
  BY <1>4, <1>6, <1>8, <1>9 DEF Sound
<1>12. \A u \in Users : Reading(u)
  BY <1>9 DEF Reading, User
<1> QED BY <1>1, <1>10, <1>11, <1>12 DEF FilesInv, Ending

(* A step of a thread.                                                     *)
LEMMA ThreadKeeps ==
  ASSUME Kept, Risks = {}, NEW u \in Users, Call(u) \/ Resume(u)
  PROVE  Kept'
<1>1. ASSUME NEW n \in Names, NEW flags \in OpenFlags, VMFileOpen(u, n, flags)
      PROVE  Kept'
  BY <1>1, OpenKeeps
<1>2. ASSUME NEW fd \in DOMAIN openFiles, VMFileClose(u, fd) PROVE Kept'
  BY <1>2, CloseKeeps
<1>3. ASSUME NEW fd \in DOMAIN openFiles, NEW n \in Lengths, VMFileRead(u, fd, n)
      PROVE  Kept'
  <2>1. /\ call[u].at = "user" /\ Opened(u, fd) /\ n \in Nat
        /\ GrabMutex(u, CallOf("read", fd, n, 0)) /\ UNCHANGED <<nextFD, disk, position>>
    BY <1>3, FileAssumption DEF VMFileRead, InCode
  <2> QED BY <2>1, GrabKeeps
<1>4. ASSUME NEW fd \in DOMAIN openFiles, NEW n \in Lengths, NEW b \in Writes[u],
             VMFileWrite(u, fd, n, b)
      PROVE  Kept'
  <2>1. /\ call[u].at = "user" /\ Opened(u, fd) /\ n \in Nat /\ StartCluster(fd) \in Cluster
        /\ GrabMutex(u, CallOf("write", fd, n, b)) /\ UNCHANGED <<nextFD, disk, position>>
    BY <1>4, FileAssumption DEF VMFileWrite, InCode
  <2>2. b \in Byte
    BY <1>4, FileAssumption
  <2> QED BY <2>1, <2>2, GrabKeeps
<1>5. ASSUME NEW fd \in DOMAIN openFiles, NEW s \in Seeks, VMFileSeek(u, fd, s[1], s[2])
      PROVE  Kept'
  BY <1>5, SeekKeeps
<1>6. ASSUME Resume(u) PROVE Kept'
  BY <1>6, GrantedKeeps, SeekReturnsKeeps, SectorReturnsKeeps, UnlockedKeeps DEF Resume
<1> QED BY <1>1, <1>2, <1>3, <1>4, <1>5, <1>6 DEF Call

(* A thread that takes a step does so while the system is up.              *)
LEMMA UpUntilTheEnd ==
  ASSUME Ending, NEW u \in Users, Call(u) \/ Resume(u)
  PROVE  Ending'
<1>1. CASE Call(u)
  <2>1. phase = "up" /\ phase' = phase
    BY <1>1 DEF Call, VMFileOpen, VMFileClose, VMFileRead, VMFileWrite, VMFileSeek, InCode
  <2> QED BY <2>1 DEF Ending
<1>2. CASE Resume(u)
  <2>1. call[u] # User /\ phase' = phase
    BY <1>2, UserType DEF Resume, Granted, SeekReturns, SectorReturns, Unlocked
  <2> QED BY <2>1 DEF Ending
<1> QED BY <1>1, <1>2

(* After VMMain the cached clusters are written back, then the FAT and the *)
(* root directory.                                                         *)
LEMMA ShutdownKeeps ==
  ASSUME FilesInv, Shutdown
  PROVE  FilesInv'
<1>1. /\ Kept /\ Ending /\ Typed /\ misread = FALSE /\ \E ps : Sound(ps)
  BY DEF FilesInv, Kept
<1>2. PICK ps : Sound(ps)
  BY <1>1
<1>3. /\ Cached(cache) /\ disk \in [fat : Fats, root : Seq(Entry), data : Sectored]
      /\ fat \in Fats /\ root \in Seq(Entry) /\ position \in Nat
  BY <1>1 DEF Typed
<1>4. ASSUME VMMainReturns PROVE FilesInv'
  <2>1. /\ phase' = "flush" /\ openFiles' = << >>
        /\ UNCHANGED <<fat, root, nextFD, cache, owner, call, disk, position, text, misread>>
        /\ \A u \in Users : call[u].at = "user"
    BY <1>4 DEF VMMainReturns, history
  <2>2. \A u \in Users : call[u] = User
    BY <1>1, <1>2, <2>1, NotInCall
  <2>3. Held' = Held
    BY <2>1 DEF Held
  <2>4. Kept'
    BY <1>1, <1>2, <1>3, <2>1, <2>2, <2>3, QuietKeeps
  <2>5. Ending'
    BY <2>1, <2>2 DEF Ending
  <2> QED BY <2>4, <2>5 DEF FilesInv, Kept
<1>5. ASSUME NEW c \in Cluster, WriteBack(c) PROVE FilesInv'
  <2>1. /\ phase = "flush" /\ phase' = phase /\ c \in DOMAIN cache
        /\ disk' = [disk EXCEPT !.data = [s \in Sectors |->
                IF s \div SectorsPerCluster = c
                THEN SubSeq(cache[c], (s % SectorsPerCluster) * SectorSize + 1,
                            ((s % SectorsPerCluster) + 1) * SectorSize)
                ELSE disk.data[s]]]
        /\ cache' = [d \in DOMAIN cache \ {c} |-> cache[d]]
        /\ position' = (c + 1) * SectorsPerCluster
        /\ UNCHANGED <<fat, root, openFiles, nextFD, owner, call, text, misread>>
    BY <1>5 DEF WriteBack, history
  <2>2. PICK ca, ca1 : ca = cache /\ ca1 = cache'
    OBVIOUS
  <2>3. PICK data \in Sectored : data = disk.data
    BY <1>3
  <2>4. PICK data1 : data1 = Back(ca, c, data)
    OBVIOUS
  <2>5. disk' = [disk EXCEPT !.data = data1]
    BY <2>1, <2>2, <2>3, <2>4 DEF Back
  <2>6. data1 \in Sectored /\ Cached(ca1) /\ Holding(ca1, data1) = Holding(ca, data)
    <3>1. c \in DOMAIN ca /\ Cached(ca) /\ ca1 = Without(ca, c)
      BY <1>3, <2>1, <2>2 DEF Without
    <3> QED BY <2>3, <2>4, <3>1, WrittenBack
  <2>7. disk' \in [fat : Fats, root : Seq(Entry), data : Sectored] /\ disk'.data = data1
    BY <1>3, <2>5, <2>6
  <2>8. Held' = Held /\ Cached(cache')
    BY <2>2, <2>3, <2>6, <2>7 DEF Held
  <2>9. \A u \in Users : call[u] = User
    BY <1>1, <2>1 DEF Ending
  <2>10. position' \in Nat
    BY <2>1, FileAssumption, ClusterType
  <2>11. Kept'
    BY <1>1, <1>2, <2>1, <2>7, <2>8, <2>9, <2>10, QuietKeeps
  <2>12. Ending'
    BY <2>1, <2>9 DEF Ending
  <2> QED BY <2>11, <2>12 DEF FilesInv, Kept
<1>6. ASSUME WriteTables PROVE FilesInv'
  <2>1. /\ phase = "flush" /\ DOMAIN cache = {} /\ phase' = "down"
        /\ disk' = [disk EXCEPT !.fat = fat, !.root = root]
        /\ UNCHANGED <<fat, root, openFiles, nextFD, cache, owner, call, position, text, misread>>
    BY <1>6 DEF WriteTables, history, mounted
  <2>2. /\ disk' \in [fat : Fats, root : Seq(Entry), data : Sectored]
        /\ disk'.fat = fat /\ disk'.root = root /\ disk'.data = disk.data
    BY <1>3, <2>1
  <2>3. \A u \in Users : call[u] = User
    BY <1>1, <2>1 DEF Ending
  <2>4. Held' = Held
    BY <2>1, <2>2 DEF Held
  <2>5. Kept'
    BY <1>1, <1>2, <1>3, <2>1, <2>2, <2>3, <2>4, QuietKeeps
  <2>6. Ending'
    BY <2>1, <2>2, <2>3 DEF Ending
  <2> QED BY <2>5, <2>6 DEF FilesInv, Kept
<1> QED BY <1>4, <1>5, <1>6 DEF Shutdown

(* The invariant is inductive.                                             *)
LEMMA FilesStep ==
  ASSUME Risks = {}, FilesInv, [Next]_vars
  PROVE  FilesInv'
<1>1. Kept /\ Ending
  BY DEF FilesInv, Kept
<1>2. ASSUME NEW u \in Users, Call(u) \/ Resume(u) PROVE FilesInv'
  <2>1. Kept'
    BY <1>1, <1>2, ThreadKeeps
  <2>2. Ending'
    BY <1>1, <1>2, UpUntilTheEnd
  <2> QED BY <2>1, <2>2 DEF FilesInv, Kept
<1>3. CASE Shutdown
  BY <1>3, ShutdownKeeps
<1>4. CASE UNCHANGED vars
  <2>1. UNCHANGED <<fat, root, openFiles, nextFD, cache, owner, call, disk, position, phase,
                    text, misread>>
    BY <1>4 DEF vars, mounted, history
  <2>2. Typed' /\ Ending' /\ (\A u \in Users : Reading(u)') /\ misread' = FALSE
    BY <1>1, <2>1 DEF Kept, Typed, Ending, Reading
  <2>3. PICK ps : Sound(ps)
    BY <1>1 DEF Kept
  <2>4. Held' = Held /\ (\A e \in 1 .. Len(root) : Writing(e)' <=> Writing(e))
        /\ (\A d \in DOMAIN openFiles : Idle(d)' <=> Idle(d))
        /\ (\A u \in Users : CallSound(ps, u) => CallSound(ps, u)')
    BY <2>1 DEF Held, Writing, Idle, CallSound
  <2>5. Sound(ps)'
    BY <2>1, <2>3, <2>4 DEF Sound
  <2> QED BY <2>2, <2>5 DEF FilesInv
<1> QED BY <1>2, <1>3, <1>4 DEF Next

-----------------------------------------------------------------------------
(* What it implies                                                         *)

(* What the invariant says of the five properties of run files.            *)
LEMMA FilesShow ==
  ASSUME FilesInv
  PROVE  FilesTypeOK /\ ChainsSound /\ BytesKept /\ ReadsBack /\ Saved
<1>1. Typed /\ Ending /\ misread = FALSE
  BY DEF FilesInv
<1>2. PICK ps : Sound(ps)
  BY DEF FilesInv
<1>3. /\ fat \in Fats /\ root \in Seq(Entry) /\ Cached(cache) /\ disk.data \in Sectored
      /\ text \in Seq(Seq(Byte)) /\ Len(text) = Len(root)
  BY <1>1 DEF Typed
<1>4. /\ LaidOut(ps, fat, root)
      /\ \A e \in 1 .. Len(root) : root[e].size = Len(text[e])
      /\ \A e \in 1 .. Len(root) : ~ Writing(e) => Filed(ps[e], Held, text[e])
  BY <1>2 DEF Sound
<1>5. FilesTypeOK
  <2>1. fat \in [0 .. FatSize - 1 -> 0 .. EndOfChain]
    BY <1>3 DEF Fats
  <2>2. \A d \in DOMAIN openFiles :
          openFiles[d] \in [user : Users, flags : OpenFlags, entry : DOMAIN root, filePtr : Nat]
    <3>1. DOMAIN root = 1 .. Len(root)
      BY <1>3, LenProperties
    <3> QED BY <1>1, <3>1 DEF Typed, Descriptors
  <2>3. \A c \in DOMAIN cache : cache[c] \in [1 .. ClusterSize -> Byte]
    BY <1>3 DEF Cached, Block
  <2>4. \A u \in Users :
          call[u].at \in {"user", "lock", "seek", "read", "unlocked", "wild", "freed"}
    BY <1>1 DEF Typed, Calls
  <2> QED BY <1>1, <2>1, <2>2, <2>3, <2>4 DEF Typed, FilesTypeOK, Cached
<1>6. ChainsSound
  BY <1>3, <1>4, LaidOutSound
<1>7. \A e \in 1 .. Len(root) : ~ Writing(e) => Stored(fat, cache, disk.data, root[e]) = text[e]
  <2> SUFFICES ASSUME NEW e \in 1 .. Len(root), ~ Writing(e)
               PROVE  Stored(fat, cache, disk.data, root[e]) = text[e]
    OBVIOUS
  <2>1. PICK t : t = text[e]
    OBVIOUS
  <2>2. t \in Seq(Byte) /\ root[e].size = Len(t) /\ Filed(ps[e], Holding(cache, disk.data), t)
    BY <1>3, <1>4, <2>1, ElementOfSeq DEF Held
  <2>3. Stored(fat, cache, disk.data, root[e]) = t
    BY <1>3, <1>4, <2>2, StoredIs
  <2> QED BY <2>1, <2>3
<1>8. Saved
  <2> SUFFICES ASSUME phase = "down"
               PROVE  [e \in 1 .. Len(disk.root) |->
                         Stored(disk.fat, << >>, disk.data, disk.root[e])] = text
    BY DEF Saved
  <2>1. /\ \A u \in Users : call[u] = User
        /\ DOMAIN cache = {} /\ disk.fat = fat /\ disk.root = root
    BY <1>1 DEF Ending
  <2>2. cache = << >>
    BY <1>3, <2>1 DEF Cached
  <2>3. \A e \in 1 .. Len(root) : ~ Writing(e)
    BY <2>1, UserType DEF Writing
  <2>4. \A e \in 1 .. Len(root) : Stored(disk.fat, << >>, disk.data, disk.root[e]) = text[e]
    BY <1>7, <2>1, <2>2, <2>3
  <2>5. text = [e \in 1 .. Len(root) |-> text[e]]
    BY <1>3, LenProperties
  <2> QED BY <2>1, <2>4, <2>5
<1> QED BY <1>1, <1>5, <1>6, <1>7, <1>8 DEF BytesKept, ReadsBack

(* The inductive invariant holds in every reachable state, of every disk   *)
(* that a file system has left and every application that takes none of    *)
(* the three risks: VMFileOpen, VMFileClose, VMFileRead, VMFileWrite and   *)
(* VMFileSeek keep the files sound wherever they wait, and so does         *)
(* shutdown.                                                               *)
THEOREM FilesInvariance ==
  ASSUME Risks = {}, SoundImages
  PROVE  Spec => []FilesInv
<1>1. Init => FilesInv
  BY FilesBegin
<1>2. FilesInv /\ [Next]_vars => FilesInv'
  BY FilesStep
<1> QED BY <1>1, <1>2, PTL DEF Spec

(* The FAT, the root directory, the open files and the cache keep their    *)
(* types through all the file calls: a descriptor always names an entry,   *)
(* and only clusters of the FAT are ever cached.                           *)
THEOREM FilesTypeCorrect ==
  ASSUME Risks = {}, SoundImages
  PROVE  Spec => []FilesTypeOK
<1>1. FilesInv => FilesTypeOK
  BY FilesShow
<1> QED BY <1>1, FilesInvariance, PTL

(* The chains that VMFileWrite makes longer and VMFileOpen begins always   *)
(* end, share no cluster, and are long enough for the sizes that           *)
(* VMFileWrite sets.                                                       *)
THEOREM AlwaysChainsSound ==
  ASSUME Risks = {}, SoundImages
  PROVE  Spec => []ChainsSound
<1>1. FilesInv => ChainsSound
  BY FilesShow
<1> QED BY <1>1, FilesInvariance, PTL

(* A file that no call is writing holds what was written to it: the calls  *)
(* of other threads, which cache clusters and take free ones while this    *)
(* one waits, do not touch it.                                             *)
THEOREM AlwaysBytesKept ==
  ASSUME Risks = {}, SoundImages
  PROVE  Spec => []BytesKept
<1>1. FilesInv => BytesKept
  BY FilesShow
<1> QED BY <1>1, FilesInvariance, PTL

(* VMFileRead returns the bytes of the file from the file pointer on,      *)
(* whatever is done to other files while it waits for the mutex or for the *)
(* machine.                                                                *)
THEOREM AlwaysReadsBack ==
  ASSUME Risks = {}, SoundImages
  PROVE  Spec => []ReadsBack
<1>1. FilesInv => ReadsBack
  BY FilesShow
<1> QED BY <1>1, FilesInvariance, PTL

(* When VMStart has written back the clusters that deleteCachedCluster     *)
(* drops and ~FileSystem has written the tables, the disk holds every      *)
(* file.                                                                   *)
THEOREM AlwaysSaved ==
  ASSUME Risks = {}, SoundImages
  PROVE  Spec => []Saved
<1>1. FilesInv => Saved
  BY FilesShow
<1> QED BY <1>1, FilesInvariance, PTL
=============================================================================
