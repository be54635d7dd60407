-------------------------------- MODULE Files --------------------------------
(***************************************************************************)
(* The file calls of VirtualMachine.cpp on the FAT, the root directory and *)
(* the cached clusters, and the end of VMStart, which writes them back.    *)
(*                                                                         *)
(* A call runs with signals suspended and gives the processor up at three  *)
(* places: where it waits for the file-system mutex, where it waits for    *)
(* the machine to read a cluster, and where it releases the mutex to a     *)
(* thread of higher priority.  An action is what a call does between two   *)
(* of these.  The scheduler is left out: any thread that can go on may, so *)
(* the runs stand for any priorities.                                      *)
(*                                                                         *)
(* An entry of the root directory holds a name, the first cluster and the  *)
(* size of a file; dates, attributes and the form of names are left out.   *)
(***************************************************************************)
EXTENDS Integers, FiniteSets, SequencesExt

CONSTANTS
  Users,              \* the threads that use files
  Names,              \* the names they use
  Byte,               \* what a byte may be
  Writes,             \* what each thread writes
  SectorSize,         \* BytesPerSector
  SectorsPerCluster,
  FatSize,            \* the entries of the FAT
  EndMark,            \* 0xFFF7: from here on, an entry ends its chain
  ShortMark,          \* 0xFFF
  RootEntryCount,
  Images,             \* the disks that VMStart may mount
  OpenFlags,          \* the sets of flags passed to VMFileOpen
  Lengths,            \* the lengths passed to VMFileRead and VMFileWrite
  Seeks,              \* the pairs <<offset, whence>> passed to VMFileSeek
  Risks,              \* what the application does although it is not safe
  MaxFD               \* bound: the last file descriptor

Cluster == 2 .. FatSize - 1

ClusterSize == SectorSize * SectorsPerCluster

EndOfChain == EndMark + 8

Sectors == 2 * SectorsPerCluster .. FatSize * SectorsPerCluster - 1

Entry == [name : Names, first : 0 .. FatSize - 1, size : Nat]

Flags == {"O_CREAT", "O_TRUNC", "O_APPEND", "O_WRONLY"}

ASSUME FileAssumption ==
  /\ Users \subseteq Nat \ {0}
  /\ SectorSize \in Nat \ {0} /\ SectorsPerCluster \in Nat \ {0}
  /\ EndMark \in Nat /\ FatSize \in 3 .. EndMark /\ ShortMark \in 0 .. EndMark
  /\ RootEntryCount \in Nat /\ MaxFD \in Nat
  /\ Lengths \subseteq Nat /\ Writes \in [Users -> SUBSET Byte]
  /\ OpenFlags \subseteq SUBSET Flags
  /\ Seeks \subseteq Int \X {0, 1, 2}
  /\ Risks \subseteq {"share", "boundary", "full"}
  /\ Images \subseteq [ fat  : [0 .. FatSize - 1 -> 0 .. EndOfChain],
                        root : Seq(Entry),
                        data : [Sectors -> [1 .. SectorSize -> Byte]] ]
  /\ \A d \in Images : d.fat[0] # 0 /\ d.fat[1] # 0

-----------------------------------------------------------------------------
(* The FAT and the clusters                                                *)

Free(f) == {i \in 0 .. FatSize - 1 : f[i] = 0}

FirstFree(f) == CHOOSE i \in Free(f) : \A j \in Free(f) : i <= j

(* The cluster reached from first by that many hops; -1 is 0xFFFF.         *)
FatSearch(f, first, hops) ==
  LET hop[n \in 0 .. hops] ==
        IF n = 0 THEN first
        ELSE IF hop[n - 1] = 0 \/ hop[n - 1] >= EndMark THEN EndOfChain
        ELSE f[hop[n - 1]]
  IN  hop[hops]

(* Mutant: the new cluster is not marked as taken.                         *)
LinkUnmarked(f, c) == IF Free(f) = {} THEN f ELSE [f EXCEPT ![c] = FirstFree(f)]

(* The chain that ends with c grows by the first free cluster, if any.     *)
Link(f, c) ==
  IF Free(f) = {}
  THEN f
  ELSE [f EXCEPT ![c] = FirstFree(f), ![FirstFree(f)] = EndOfChain]

(* The bytes of cluster c on a disk.                                       *)
OnDisk(data, c) ==
  [i \in 1 .. ClusterSize |->
     data[c * SectorsPerCluster + (i - 1) \div SectorSize][((i - 1) % SectorSize) + 1]]

(* What is met from first on, hop by hop.                                  *)
Hops(f, first) ==
  LET hop[n \in 0 .. FatSize] ==
        IF n = 0 THEN first
        ELSE IF hop[n - 1] \in Cluster THEN f[hop[n - 1]] ELSE hop[n - 1]
  IN  hop

(* The bytes of cluster c, where those in ca are cached.                   *)
Bytes(ca, data, c) == IF c \in DOMAIN ca THEN ca[c] ELSE OnDisk(data, c)

(* The file of entry e.                                                    *)
Stored(f, ca, data, e) ==
  [i \in 1 .. e.size |->
     Bytes(ca, data, Hops(f, e.first)[(i - 1) \div ClusterSize])
       [((i - 1) % ClusterSize) + 1]]

VARIABLES
  fat,         \* FileSystem::FatTable
  root,        \* FileSystem::RootEntries
  openFiles,   \* by file descriptor
  nextFD,
  cache,       \* cachedClusters: their bytes, by cluster
  owner,       \* the owner of FILE_SYSTEM_MUTEX, Nobody while it is free
  call,        \* what each thread is doing
  disk,        \* the disk: its FAT, its root directory, its sectors
  position,    \* the sector at which the machine reads or writes next
  phase,       \* "up", "flush" once VMMain has returned, "down" at the end
  text,        \* history: the bytes each entry's file should hold
  misread      \* history: whether a read has returned anything else

mounted == <<fat, root, openFiles, nextFD, cache>>
history == <<text, misread>>
vars == <<mounted, owner, call, disk, position, phase, history>>

Nobody == 0

(* The table f with an entry more.                                         *)
Added(f, x, v) == [y \in DOMAIN f \union {x} |-> IF y = x THEN v ELSE f[y]]

(* The local variables of a file call.                                     *)
User ==
  [ at |-> "user", op |-> "none", fd |-> 0, size |-> 0, cluster |-> 0,
    offset |-> 0, left |-> 0, done |-> <<>>, byte |-> 0, buffer |-> <<>> ]

FilesTypeOK ==
  /\ fat \in [0 .. FatSize - 1 -> 0 .. EndOfChain]
  /\ root \in Seq(Entry) /\ Len(root) <= RootEntryCount
  /\ DOMAIN openFiles \subseteq 3 .. nextFD - 1
  /\ \A fd \in DOMAIN openFiles :
       openFiles[fd] \in [user : Users, flags : OpenFlags,
                          entry : DOMAIN root, filePtr : Nat]
  /\ DOMAIN cache \subseteq Cluster
  /\ \A c \in DOMAIN cache : cache[c] \in [1 .. ClusterSize -> Byte]
  /\ owner \in Users \union {Nobody}
  /\ position \in Nat
  /\ \A u \in Users :
       call[u].at \in {"user", "lock", "seek", "read", "unlocked", "wild", "freed"}

(* The constructor of FileSystem reads the FAT and the root directory in.  *)
Init ==
  /\ disk \in Images
  /\ fat = disk.fat
  /\ root = disk.root
  /\ openFiles = << >>
  /\ nextFD = 3
  /\ cache = << >>
  /\ owner = Nobody
  /\ call = [u \in Users |-> User]
  /\ position = 0
  /\ phase = "up"
  /\ text = [e \in 1 .. Len(root) |-> Stored(disk.fat, << >>, disk.data, root[e])]
  /\ misread = FALSE

-----------------------------------------------------------------------------
(* The loops of VMFileRead and VMFileWrite.  x.c holds the local variables *)
(* of the call, x.ptr the file pointer; x.next says whether the loop goes  *)
(* on, stops for a cluster that is not cached, or is done.                 *)

(* Mutant: a read does not stop at the end of the file.                    *)
AmountLeftInCluster(x) == ClusterSize - x.c.offset

(***************************************************************************)
(* How much the call may copy from or to this cluster.  A read stops at    *)
(* the size; where the file has been cut below the file pointer, filesize  *)
(* - filePtr wraps around and stops nothing.                               *)
(***************************************************************************)
AmountLeft(x) ==
  LET room == ClusterSize - x.c.offset
      rest == x.c.size - x.ptr
  IN  IF x.c.op = "read" /\ 0 <= rest /\ rest < room THEN rest ELSE room

CopyBytes(x, n) ==
  LET old == x.cache[x.c.cluster]
      within(i) == x.c.offset < i /\ i <= x.c.offset + n
      new == IF x.c.op = "read" THEN old
             ELSE [i \in 1 .. ClusterSize |-> IF within(i) THEN x.c.byte ELSE old[i]]
  IN  [x EXCEPT !.cache[x.c.cluster] = new,
                !.ptr = @ + n,
                !.c.left = @ - n,
                !.c.offset = @ + n,
                !.c.done = @ \o SubSeq(new, x.c.offset + 1, x.c.offset + n)]

(***************************************************************************)
(* The loop moves to the next cluster of the chain, which a write may have *)
(* to allocate: it then gives up if the new cluster's number is not below  *)
(* ShortMark, as if it had found none.                                     *)
(***************************************************************************)
NextCluster(x) ==
  LET last == x.fat[x.c.cluster] >= EndMark
      f == IF last /\ x.c.op = "write" THEN Link(x.fat, x.c.cluster) ELSE x.fat
      c == f[x.c.cluster]
      stop == last /\ (x.c.op = "read" \/ c >= ShortMark)
  IN  IF stop
      THEN [x EXCEPT !.fat = f, !.next = "done"]
      ELSE [x EXCEPT !.fat = f, !.c.cluster = c, !.c.offset = 0]

CopyNext(x) ==
  LET n == AmountLeft(x)
      over == x.c.left = 0 \/ (x.c.op = "read" /\ x.ptr = x.c.size)
  IN  IF x.next # "more" THEN x
      ELSE IF over THEN [x EXCEPT !.next = "done"]
      ELSE IF x.c.cluster \notin DOMAIN x.cache
      THEN [x EXCEPT !.next = IF x.c.cluster \in Cluster THEN "miss" ELSE "wild"]
      ELSE IF x.c.left < n THEN [CopyBytes(x, x.c.left) EXCEPT !.next = "done"]
      ELSE IF x.c.left = n THEN CopyBytes(x, n)
      ELSE NextCluster(CopyBytes(x, n))

(* Each round copies a byte or is the last.                                *)
Copy(x) ==
  LET loop[n \in 0 .. x.c.left + 1] ==
        IF n = 0 THEN x ELSE CopyNext(loop[n - 1])
  IN  loop[x.c.left + 1]

-----------------------------------------------------------------------------
(* VMFileRead and VMFileWrite                                              *)

Waiters == {u \in Users : call[u].at = "lock"}

(* s with bytes written over it from position p on; what lies between its  *)
(* end and p, when there is anything, counts as 0.                         *)
Overlay(s, p, bytes) ==
  [i \in 1 .. Max({Len(s), p + Len(bytes)}) |->
     IF p < i /\ i <= p + Len(bytes) THEN bytes[i - p]
     ELSE IF i <= Len(s) THEN s[i] ELSE 0]

(***************************************************************************)
(* The end of the call.  A write compares the file pointer with the size   *)
(* the file had when the call began.                                       *)
(***************************************************************************)
Complete(u, c, ptr) ==
  LET e == openFiles[c.fd].entry
      start == ptr - Len(c.done)
      asked == Len(c.done) + c.left
  IN  /\ call' = [call EXCEPT ![u] = User]
      /\ root' = IF c.op = "write" /\ ptr > c.size
                 THEN [root EXCEPT ![e].size = ptr]
                 ELSE root
      /\ \/ /\ c.op = "write"
            /\ text' = [text EXCEPT ![e] = Overlay(@, start, c.done)]
            /\ UNCHANGED misread
         \/ /\ c.op = "read"
            /\ misread' = (misread \/ start < 0 \/
                 c.done # SubSeq(text[e], start + 1, Min({Len(text[e]), start + asked})))
            /\ UNCHANGED text

(***************************************************************************)
(* The call goes on with the mutex, until it needs a cluster that is not   *)
(* cached or is done.  It then releases the mutex to one of the threads    *)
(* that wait; if that thread's priority is higher the call is left before  *)
(* its end.                                                                *)
(***************************************************************************)
GoOn(u, c, ca) ==
  LET x == Copy([c |-> c, ptr |-> openFiles[c.fd].filePtr, fat |-> fat,
                 cache |-> ca, next |-> "more"])
      others == Waiters \ {u}
      stays(at) == /\ call' = [call EXCEPT ![u] = [x.c EXCEPT !.at = at]]
                   /\ UNCHANGED <<root, history>>
  IN  /\ fat' = x.fat
      /\ cache' = x.cache
      /\ openFiles' = [openFiles EXCEPT ![c.fd].filePtr = x.ptr]
      /\ \/ /\ x.next = "miss" /\ stays("seek")
            /\ owner' = u
         \/ /\ x.next = "wild" /\ stays("wild")
            /\ owner' = u
         \/ /\ x.next = "done"
            /\ owner' \in (IF others = {} THEN {Nobody} ELSE others)
            /\ \/ Complete(u, x.c, x.ptr)
               \/ others # {} /\ stays("unlocked")

(* Where a call with the descriptor fd would start.                        *)
StartCluster(fd) ==
  FatSearch(fat, root[openFiles[fd].entry].first, openFiles[fd].filePtr \div ClusterSize)

CallOf(op, fd, n, b) ==
  [ User EXCEPT !.at = "lock", !.op = op, !.fd = fd, !.byte = b, !.left = n,
                !.size = root[openFiles[fd].entry].size,
                !.cluster = StartCluster(fd),
                !.offset = openFiles[fd].filePtr % ClusterSize ]

InCode(u) == phase = "up" /\ call[u].at = "user"

(***************************************************************************)
(* findOpenFile gives any thread the file of any descriptor: that a thread *)
(* uses those it has opened and no others is up to the application.        *)
(***************************************************************************)
Opened(u, fd) ==
  /\ fd \in DOMAIN openFiles
  /\ openFiles[fd].user = u \/ "share" \in Risks

(* Mutant: nobody waits for the mutex.                                     *)
GrabNothing(u, c) == GoOn(u, c, cache)

(* VMMutexAcquire: the file has been looked at before the call waits.      *)
GrabMutex(u, c) ==
  \/ owner = Nobody /\ GoOn(u, c, cache)
  \/ /\ owner # Nobody
     /\ call' = [call EXCEPT ![u] = c]
     /\ UNCHANGED <<fat, cache, openFiles, owner, root, history>>

VMFileRead(u, fd, n) ==
  /\ InCode(u)
  /\ Opened(u, fd)
  /\ "O_WRONLY" \notin openFiles[fd].flags
  /\ GrabMutex(u, CallOf("read", fd, n, 0))
  /\ UNCHANGED <<nextFD, disk, position, phase>>

(* O_RDONLY is 0, so that the test for it never fails.                     *)
VMFileWrite(u, fd, n, b) ==
  /\ InCode(u)
  /\ Opened(u, fd)
  /\ StartCluster(fd) \in Cluster \/ "boundary" \in Risks
  /\ GrabMutex(u, CallOf("write", fd, n, b))
  /\ UNCHANGED <<nextFD, disk, position, phase>>

(* The thread has been given the mutex.                                    *)
Granted(u) ==
  /\ call[u].at = "lock"
  /\ owner = u
  /\ GoOn(u, call[u], cache)
  /\ UNCHANGED <<nextFD, disk, position, phase>>

(* The disk has been positioned at the cluster; a sector is asked for.     *)
SeekReturns(u) ==
  /\ call[u].at = "seek"
  /\ position' = call[u].cluster * SectorsPerCluster
  /\ call' = [call EXCEPT ![u].at = "read"]
  /\ UNCHANGED <<mounted, owner, disk, phase, history>>

(* A sector has been read; it may be the last of its cluster.              *)
SectorReturns(u) ==
  LET c == call[u]
      read == c.buffer \o disk.data[position]
  IN  /\ c.at = "read"
      /\ position' = position + 1
      /\ \/ /\ Len(read) < ClusterSize
            /\ call' = [call EXCEPT ![u].buffer = read]
            /\ UNCHANGED <<fat, cache, openFiles, owner, root, history>>
         \/ /\ Len(read) = ClusterSize
            /\ GoOn(u, [c EXCEPT !.buffer = << >>], Added(cache, c.cluster, read))
      /\ UNCHANGED <<nextFD, disk, phase>>

(* A call that was left when it released the mutex ends.                   *)
Unlocked(u) ==
  /\ call[u].at = "unlocked"
  /\ Complete(u, call[u], openFiles[call[u].fd].filePtr)
  /\ UNCHANGED <<fat, openFiles, nextFD, cache, owner, disk, position, phase>>

-----------------------------------------------------------------------------
(* The other calls                                                         *)

Found(n) == {e \in 1 .. Len(root) : root[e].name = n}

(* The entry's file is open.                                               *)
InUse(e) == \E fd \in DOMAIN openFiles : openFiles[fd].entry = e

OpenAs(u, e, size, flags) ==
  /\ openFiles' = Added(openFiles, nextFD,
       [ user |-> u, flags |-> flags, entry |-> e,
         filePtr |-> IF "O_APPEND" \in flags THEN size ELSE 0 ])
  /\ nextFD' = nextFD + 1

OpenFound(u, e, flags) ==
  LET size == IF "O_TRUNC" \in flags THEN 0 ELSE root[e].size
  IN  /\ InUse(e) => "share" \in Risks
      /\ root' = [root EXCEPT ![e].size = size]
      /\ text' = IF "O_TRUNC" \in flags THEN [text EXCEPT ![e] = << >>] ELSE text
      /\ OpenAs(u, e, size, flags)
      /\ UNCHANGED fat

(* A new entry, with the first free cluster, or with none if none is free. *)
OpenNew(u, n, flags) ==
  LET full == Free(fat) = {}
  IN  /\ "O_CREAT" \in flags
      /\ Len(root) < RootEntryCount
      /\ full => "full" \in Risks
      /\ fat' = IF full THEN fat ELSE [fat EXCEPT ![FirstFree(fat)] = EndOfChain]
      /\ root' = Append(root, [ name |-> n, size |-> 0,
                                first |-> IF full THEN 0 ELSE FirstFree(fat) ])
      /\ text' = Append(text, << >>)
      /\ OpenAs(u, Len(root) + 1, 0, flags)

VMFileOpen(u, n, flags) ==
  /\ InCode(u)
  /\ nextFD <= MaxFD
  /\ \/ \E e \in Found(n) : OpenFound(u, e, flags)
     \/ Found(n) = {} /\ OpenNew(u, n, flags)
  /\ UNCHANGED <<cache, owner, call, disk, position, phase, misread>>

(***************************************************************************)
(* A call that is under way with the descriptor is left with a File that   *)
(* deleteOpenFile has freed; what it does from then on is not modelled.    *)
(***************************************************************************)
VMFileClose(u, fd) ==
  /\ InCode(u)
  /\ Opened(u, fd)
  /\ openFiles' = [d \in DOMAIN openFiles \ {fd} |-> openFiles[d]]
  /\ call' = [v \in Users |->
               IF call[v].fd = fd THEN [call[v] EXCEPT !.at = "freed"] ELSE call[v]]
  /\ UNCHANGED <<fat, root, nextFD, cache, owner, disk, position, phase, history>>

(* Mutant: the new position is taken as it is.                             *)
SeekAnywhere(u, fd, offset, whence) ==
  /\ InCode(u)
  /\ Opened(u, fd)
  /\ openFiles' = [openFiles EXCEPT ![fd].filePtr =
                     CASE whence = 1 -> @ + offset
                       [] whence = 2 -> root[openFiles[fd].entry].size
                       [] OTHER -> offset]
  /\ UNCHANGED <<fat, root, nextFD, cache, owner, call, disk, position, phase, history>>

(***************************************************************************)
(* The file pointer is unsigned: a position before the file's beginning is *)
(* one after its end, which is moved to the end.  From the end, the offset *)
(* is ignored.                                                             *)
(***************************************************************************)
VMFileSeek(u, fd, offset, whence) ==
  LET size == root[openFiles[fd].entry].size
      to == CASE whence = 1 -> openFiles[fd].filePtr + offset
              [] whence = 2 -> size
              [] OTHER -> offset
  IN  /\ InCode(u)
      /\ Opened(u, fd)
      /\ openFiles' = [openFiles EXCEPT ![fd].filePtr =
                         IF to < 0 \/ to > size THEN size ELSE to]
      /\ UNCHANGED <<fat, root, nextFD, cache, owner, call, disk, position, phase, history>>

-----------------------------------------------------------------------------
(* The end                                                                 *)

(* VMMain returns; VMStart deletes the open files.  No call is under way.  *)
VMMainReturns ==
  /\ phase = "up"
  /\ \A u \in Users : call[u].at = "user"
  /\ phase' = "flush"
  /\ openFiles' = << >>
  /\ UNCHANGED <<fat, root, nextFD, cache, owner, call, disk, position, history>>

(* Mutant: every sector gets the bytes of the cluster's first.             *)
WriteBackFirst(c) ==
  /\ phase = "flush"
  /\ c \in DOMAIN cache
  /\ disk' = [disk EXCEPT !.data = [s \in Sectors |->
                IF s \div SectorsPerCluster = c
                THEN SubSeq(cache[c], 1, SectorSize)
                ELSE @[s]]]
  /\ cache' = [d \in DOMAIN cache \ {c} |-> cache[d]]
  /\ position' = (c + 1) * SectorsPerCluster
  /\ UNCHANGED <<fat, root, openFiles, nextFD, owner, call, phase, history>>

(* deleteCachedCluster writes the sectors of the cluster, one by one.      *)
WriteBack(c) ==
  LET sector(k) == SubSeq(cache[c], k * SectorSize + 1, (k + 1) * SectorSize)
  IN  /\ phase = "flush"
      /\ c \in DOMAIN cache
      /\ disk' = [disk EXCEPT !.data = [s \in Sectors |->
                    IF s \div SectorsPerCluster = c
                    THEN sector(s % SectorsPerCluster)
                    ELSE @[s]]]
      /\ cache' = [d \in DOMAIN cache \ {c} |-> cache[d]]
      /\ position' = (c + 1) * SectorsPerCluster
      /\ UNCHANGED <<fat, root, openFiles, nextFD, owner, call, phase, history>>

(* The destructor of FileSystem writes the FAT and the root directory.     *)
WriteTables ==
  /\ phase = "flush"
  /\ DOMAIN cache = {}
  /\ disk' = [disk EXCEPT !.fat = fat, !.root = root]
  /\ phase' = "down"
  /\ UNCHANGED <<mounted, owner, call, position, history>>

-----------------------------------------------------------------------------
Call(u) ==
  \/ \E n \in Names, flags \in OpenFlags : VMFileOpen(u, n, flags)
  \/ \E fd \in DOMAIN openFiles :
       \/ VMFileClose(u, fd)
       \/ \E n \in Lengths : VMFileRead(u, fd, n)
       \/ \E n \in Lengths, b \in Writes[u] : VMFileWrite(u, fd, n, b)
       \/ \E s \in Seeks : VMFileSeek(u, fd, s[1], s[2])

Resume(u) == Granted(u) \/ SeekReturns(u) \/ SectorReturns(u) \/ Unlocked(u)

Shutdown == VMMainReturns \/ (\E c \in Cluster : WriteBack(c)) \/ WriteTables

Next == (\E u \in Users : Call(u) \/ Resume(u)) \/ Shutdown

Spec == Init /\ [][Next]_vars

-----------------------------------------------------------------------------
(* Properties of an application that takes no risk                         *)

Chain(first) == {Hops(fat, first)[n] : n \in 0 .. FatSize}

Clusters(e) == Chain(root[e].first) \intersect Cluster

(***************************************************************************)
(* The FAT is sound: each file's chain ends and has room for its size, no  *)
(* cluster is in two chains, and none is taken that is in no chain, except *)
(* those marked as bad.                                                    *)
(***************************************************************************)
ChainsSound ==
  /\ \A e \in 1 .. Len(root) :
       /\ \E i \in Chain(root[e].first) : i >= EndMark
       /\ Chain(root[e].first) \subseteq Cluster \union EndMark .. EndOfChain
       /\ root[e].size <= Cardinality(Clusters(e)) * ClusterSize
  /\ \A e1, e2 \in 1 .. Len(root) :
       e1 # e2 => Clusters(e1) \intersect Clusters(e2) = {}
  /\ {c \in Cluster : fat[c] \notin {0, EndMark}} = UNION {Clusters(e) : e \in 1 .. Len(root)}

Writing(e) == \E u \in Users : call[u].op = "write" /\ openFiles[call[u].fd].entry = e

(***************************************************************************)
(* A file holds what has been written to it, through the chain and the     *)
(* cached clusters, whatever other threads do to their files meanwhile.    *)
(***************************************************************************)
BytesKept ==
  \A e \in 1 .. Len(root) :
    ~ Writing(e) => Stored(fat, cache, disk.data, root[e]) = text[e]

(* A read returns the bytes at the file pointer, up to the end of the file. *)
ReadsBack == ~ misread

(* Once VMStart is done, the disk holds all files as they were written.    *)
Saved ==
  phase = "down" =>
    [e \in 1 .. Len(disk.root) |->
       Stored(disk.fat, << >>, disk.data, disk.root[e])] = text

(* A file gets smaller only by being opened with O_TRUNC.                  *)
OnlyTruncateShrinks ==
  [][\A e \in 1 .. Len(root) :
       root'[e].size < root[e].size =>
         \E u \in Users, n \in Names, flags \in OpenFlags :
           "O_TRUNC" \in flags /\ VMFileOpen(u, n, flags)]_vars

(***************************************************************************)
(* A call that has bytes to transfer starts in a cluster of its file, the  *)
(* "cluster number we're reading from".                                    *)
(***************************************************************************)
NoWildCluster == \A u \in Users : call[u].at # "wild"

-----------------------------------------------------------------------------
(* Disks that a file system has left behind                                *)

(* The clusters of the chain that starts with first.                       *)
Path(f, first) ==
  LET hop == Hops(f, first)
  IN  [i \in 1 .. Cardinality({n \in 0 .. FatSize : hop[n] \in Cluster}) |-> hop[i - 1]]

(* p is the chain of entry x, and long enough for it.                      *)
Chained(p, f, x) ==
  /\ p # << >>
  /\ p[1] = x.first
  /\ \A i \in 1 .. Len(p) - 1 : f[p[i]] = p[i + 1]
  /\ f[p[Len(p)]] \in EndMark + 1 .. EndOfChain
  /\ x.size <= Len(p) * ClusterSize

(* The chains ps are those of r's entries: they share no cluster, and take *)
(* all that are neither free nor bad.                                      *)
LaidOut(ps, f, r) ==
  /\ ps \in Seq(Seq(Cluster)) /\ Len(ps) = Len(r)
  /\ \A e \in 1 .. Len(r) : Chained(ps[e], f, r[e])
  /\ \A d, e \in 1 .. Len(r) :
       \A i \in 1 .. Len(ps[d]), j \in 1 .. Len(ps[e]) :
         ps[d][i] = ps[e][j] => d = e /\ i = j
  /\ \A c \in Cluster :
       f[c] \notin {0, EndMark} =>
         \E e \in 1 .. Len(r) : \E i \in 1 .. Len(ps[e]) : ps[e][i] = c

SoundImages ==
  \A d \in Images :
    /\ Len(d.root) <= RootEntryCount
    /\ LaidOut([e \in 1 .. Len(d.root) |-> Path(d.fat, d.root[e].first)], d.fat, d.root)

=============================================================================
