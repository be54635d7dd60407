----------------------------- MODULE Directories -----------------------------
(***************************************************************************)
(* The root directory of VirtualMachine.cpp: long names in pieces, short   *)
(* names, the search and the creation of VMFileOpen, and the directory     *)
(* calls.  There is no other directory: VMDirectoryOpen and                *)
(* VMDirectoryChange accept nothing but "/".                               *)
(*                                                                         *)
(* A slot is an entry of 32 bytes: a piece of a long name, or the short    *)
(* entry of a file.  Nothing here deletes a file, but the system that      *)
(* wrote the disk may have.  A name is a value; what matters of it are its *)
(* length, its short form and which other names it is the beginning of.    *)
(***************************************************************************)
EXTENDS Integers, FiniteSets, SequencesExt

CONSTANTS
  Names,            \* the names that are opened or stand on the disk
  Length,           \* how many characters each has
  Stem,             \* its first seven characters and its extension, as
                    \* Normal_to_SFN writes them
  Eighth,           \* its eighth character, a byte
  Tilded,           \* the stems whose seventh character is "~"
  One,              \* the character "1": 49
  CharMax,          \* the largest value of a char: 127
  Long,             \* the names with more than eight characters before the "."
  Begins,           \* the pairs of names of which one begins the other
  PieceSize,        \* the characters in a piece: 13
  RootEntryCount,
  Tables,           \* the root directories that may be on the disk
  MaxDescriptor     \* bound: the last directory descriptor

(* A byte of the disk; the same byte as a char, which is signed.           *)
Byte == 0 .. 2 * CharMax + 1

AsChar(b) == IF b <= CharMax THEN b ELSE b - 2 * (CharMax + 1)

Short == [stem : {Stem[n] : n \in Names}, eighth : Byte]

(* piece counts the pieces of a name from its beginning; 0 is the entry.   *)
Slot ==
  [name : Names, piece : Nat, last : BOOLEAN, deleted : BOOLEAN, short : Short]

(* Mutant: a name that fills its last piece gets another one.              *)
PiecesAndOne(n) == (Length[n] + PieceSize) \div PieceSize

Pieces(n) == (Length[n] + PieceSize - 1) \div PieceSize

(* k pieces hold the name n, and k - 1 do not.                             *)
Hold(k, n) == (k - 1) * PieceSize < Length[n] /\ Length[n] <= k * PieceSize

IsEntry(s) == s.piece = 0

(* A slot of a file that has not been deleted.                             *)
IsFile(s) == IsEntry(s) /\ ~ s.deleted

(* The first slot from i on that is no piece of a long name.               *)
AfterPieces(r, i) ==
  CHOOSE j \in i .. Len(r) + 1 :
    /\ j = Len(r) + 1 \/ IsEntry(r[j])
    /\ \A k \in i .. j - 1 : ~ IsEntry(r[k])

HasLongName(r, j) == j > 1 /\ ~ IsEntry(r[j - 1])

(* The pieces of a name from slot i on up to its entry, last piece first:  *)
(* they are deleted with it, and none is missing before i.                 *)
WholeFrom(r, i, entry) ==
  /\ entry <= Len(r) /\ IsEntry(r[entry])
  /\ \A j \in i .. entry :
       /\ r[j].piece = entry - j
       /\ r[j].name = r[i].name /\ r[j].deleted = r[i].deleted
  /\ r[i].last <=> Hold(r[i].piece, r[i].name)
  /\ ~ r[i].last => i > 1 /\ ~ IsEntry(r[i - 1])

Sound(r) ==
  \A i \in 1 .. Len(r) : ~ IsEntry(r[i]) => WholeFrom(r, i, i + r[i].piece)

(* No two files have the same short name.                                  *)
Distinct(r) ==
  \A i, j \in 1 .. Len(r) :
    /\ IsFile(r[i]) /\ IsFile(r[j])
    /\ r[i].short = r[j].short
    => i = j

ASSUME DirectoryAssumption ==
  /\ CharMax \in Nat /\ One \in 1 .. CharMax
  /\ Length \in [Names -> Nat \ {0}] /\ Eighth \in [Names -> Byte] /\ Long \subseteq Names
  /\ DOMAIN Stem = Names
  /\ \A n \in Long : Stem[n] \in Tilded /\ Eighth[n] = One
  /\ Begins \subseteq Names \X Names /\ \A n \in Names : <<n, n>> \in Begins
  /\ PieceSize \in Nat \ {0} /\ RootEntryCount \in Nat /\ MaxDescriptor \in Nat
  /\ \A r \in Tables : r \in Seq(Slot) /\ Len(r) <= RootEntryCount /\ Sound(r) /\ Distinct(r)

VARIABLES
  root,             \* FileSystem::RootEntries, up to the first that is free
  openDirectories,  \* currEntry, by directory descriptor
  nextDirDescriptor,
  opened,           \* history: which entry a name has opened
  returned,         \* history: the slots a descriptor has returned
  seen              \* history: how far the table went when it moved

directories == <<openDirectories, nextDirDescriptor, returned, seen>>
vars == <<root, opened, directories>>

(* currEntry has come to the end of the table.                             *)
End == RootEntryCount + 1

DirectoriesTypeOK ==
  /\ root \in Seq(Slot) /\ Len(root) <= RootEntryCount
  /\ DOMAIN openDirectories \subseteq 3 .. nextDirDescriptor - 1
  /\ \A d \in DOMAIN openDirectories :
       openDirectories[d] \in (1 .. Len(root)) \union {End}
  /\ opened \subseteq Names \X (1 .. Len(root))

Init ==
  /\ root \in Tables
  /\ openDirectories = << >> /\ returned = << >> /\ seen = << >>
  /\ nextDirDescriptor = 3
  /\ opened = {}

-----------------------------------------------------------------------------
(* Names                                                                   *)

Normal_to_SFN(n) == [stem |-> Stem[n], eighth |-> Eighth[n]]

(***************************************************************************)
(* One round of updateSFN.  The digit is a char and is compared with the   *)
(* byte of a rival: beyond CharMax it is negative, below every byte.       *)
(***************************************************************************)
Beyond(s, slot) ==
  IF /\ IsFile(slot) /\ slot.short.stem = s.stem
     /\ AsChar(s.eighth) <= slot.short.eighth
  THEN [s EXCEPT !.eighth = (slot.short.eighth + 1) % (2 * CharMax + 2)]
  ELSE s

(* Mutant: a short name that ends in ~1 stays as it is.                    *)
UpdateNothing(r, s) == s

(* A short name that ends in ~1 gets a digit beyond those of its rivals.   *)
updateSFN(r, s) ==
  LET scan[i \in 0 .. Len(r)] ==
        IF i = 0 THEN s ELSE Beyond(scan[i - 1], r[i])
  IN  IF s.stem \in Tilded /\ s.eighth = One THEN scan[Len(r)] ELSE s

(* The pieces of a name, last piece first.                                 *)
createLFN(n) ==
  [i \in 1 .. Pieces(n) |->
     [name |-> n, piece |-> Pieces(n) + 1 - i, last |-> i = 1, deleted |-> FALSE,
      short |-> Normal_to_SFN(n)]]

createRootEntry(r, n) ==
  r \o createLFN(n)
    \o << [name |-> n, piece |-> 0, last |-> FALSE, deleted |-> FALSE,
           short |-> updateSFN(r, Normal_to_SFN(n))] >>

(***************************************************************************)
(* The file of the entry j is taken for n if n begins its long name, which *)
(* is looked at even where the file has been deleted, or if it has the     *)
(* short name that n would have.                                           *)
(***************************************************************************)
Matches(r, n, j) ==
  /\ IsEntry(r[j])
  /\ \/ HasLongName(r, j) /\ <<n, r[j].name>> \in Begins
     \/ n \notin Long /\ IsFile(r[j]) /\ r[j].short = Normal_to_SFN(n)

Found(r, n) == {j \in 1 .. Len(r) : Matches(r, n, j)}

(* Mutant: the search goes on after a match.                               *)
LastMatch(r, n) == Max(Found(r, n))

(* The entry that VMFileOpen finds.                                        *)
FirstMatch(r, n) == Min(Found(r, n))

-----------------------------------------------------------------------------
(***************************************************************************)
(* VMFileOpen.  It looks for one free slot, but a new entry stands behind  *)
(* the pieces of its name: that they fit is left to the application.       *)
(***************************************************************************)
VMFileOpen(n) ==
  /\ \/ /\ Found(root, n) # {}
        /\ opened' = opened \union {<<n, FirstMatch(root, n)>>}
        /\ UNCHANGED root
     \/ /\ Found(root, n) = {}
        /\ Len(root) + Pieces(n) + 1 <= RootEntryCount
        /\ root' = createRootEntry(root, n)
        /\ opened' = opened \union {<<n, Len(root')>>}
  /\ UNCHANGED directories

(* A reader does not pass over a piece that is marked as the last one; the *)
(* mark of a deleted slot, 0xE5, looks like that mark.                     *)
StopsBefore(r, i) ==
  \/ IsEntry(r[i]) /\ ~ r[i].deleted
  \/ ~ IsEntry(r[i]) /\ (r[i].last \/ r[i].deleted)

(* Mutant: a free slot is taken for a file.                                *)
SkipToFree(r, i) ==
  LET stops == {j \in i .. Len(r) : StopsBefore(r, j)}
  IN  IF stops = {} THEN Len(r) + 1 ELSE Min(stops)

(* Mutant: deleted files are not passed over.                              *)
SkipNothing(r, i) == IF i <= Len(r) THEN i ELSE End

(* The first slot from i on at which a reader stops.                       *)
Skip(r, i) ==
  LET stops == {j \in i .. Len(r) : StopsBefore(r, j)}
  IN  IF stops = {} THEN End ELSE Min(stops)

Put(f, d, x) == [e \in DOMAIN f \union {d} |-> IF e = d THEN x ELSE f[e]]

VMDirectoryOpen ==
  LET d == nextDirDescriptor
  IN  /\ d <= MaxDescriptor
      /\ nextDirDescriptor' = d + 1
      /\ openDirectories' = Put(openDirectories, d, Skip(root, 1))
      /\ returned' = Put(returned, d, << >>)
      /\ seen' = Put(seen, d, Len(root))
      /\ UNCHANGED <<root, opened>>

VMDirectoryClose(d) ==
  /\ d \in DOMAIN openDirectories
  /\ openDirectories' = [e \in DOMAIN openDirectories \ {d} |-> openDirectories[e]]
  /\ UNCHANGED <<root, opened, nextDirDescriptor, returned, seen>>

(* The entry at currEntry, behind the pieces of its long name, if any.     *)
VMDirectoryRead(d) ==
  /\ d \in DOMAIN openDirectories
  /\ openDirectories[d] # End
  /\ LET j == AfterPieces(root, openDirectories[d])
     IN  /\ openDirectories' = [openDirectories EXCEPT ![d] = Skip(root, j + 1)]
         /\ returned' = [returned EXCEPT ![d] = Append(@, j)]
         /\ seen' = [seen EXCEPT ![d] = Len(root)]
  /\ UNCHANGED <<root, opened, nextDirDescriptor>>

VMDirectoryRewind(d) ==
  /\ d \in DOMAIN openDirectories
  /\ openDirectories' = [openDirectories EXCEPT ![d] = Skip(root, 1)]
  /\ returned' = [returned EXCEPT ![d] = << >>]
  /\ seen' = [seen EXCEPT ![d] = Len(root)]
  /\ UNCHANGED <<root, opened, nextDirDescriptor>>

Next ==
  \/ \E n \in Names : VMFileOpen(n)
  \/ VMDirectoryOpen
  \/ \E d \in DOMAIN openDirectories :
       VMDirectoryClose(d) \/ VMDirectoryRead(d) \/ VMDirectoryRewind(d)

Spec == Init /\ [][Next]_vars

-----------------------------------------------------------------------------
(***************************************************************************)
(* So few names share a stem that ends in "~", and so low are the eighth   *)
(* characters on the disk, that a new one for each of these names is still *)
(* a char: fewer than 79 names, where the disk has nothing beyond "1".     *)
(***************************************************************************)
FewShare ==
  \A s \in Tilded :
    LET sharing == {n \in Names : Stem[n] = s}
        InRange(b) == b + Cardinality(sharing) <= CharMax
    IN  /\ IsFiniteSet(sharing)
        /\ \A n \in sharing : InRange(Eighth[n])
        /\ \A r \in Tables : \A i \in 1 .. Len(r) :
             IsFile(r[i]) /\ r[i].short.stem = s => InRange(r[i].short.eighth)

(***************************************************************************)
(* Each long name stands whole before the entry of its file, in as many    *)
(* pieces as it needs and no more, also after files have been created      *)
(* behind those of another system.                                         *)
(***************************************************************************)
TableSound == Sound(root)

(***************************************************************************)
(* No two files come to have the same short name, although a name may look *)
(* like a short name that has been made up for another.  It holds while    *)
(* the eighth characters stay in the range of a char (FewShare).           *)
(***************************************************************************)
ShortNamesDistinct == Distinct(root)

(***************************************************************************)
(* A name opens the same file each time, whatever is created in between.   *)
(***************************************************************************)
SameFile == \A a, b \in opened : a[1] = b[1] => a = b

(* The files that a reader lists: those not deleted, and deleted ones too  *)
(* if they have a long name.                                               *)
Listed(r, j) == IsEntry(r[j]) /\ (~ r[j].deleted \/ HasLongName(r, j))

(* How much of the table the reader d has passed.                          *)
Passed(d) == IF openDirectories[d] = End THEN seen[d] ELSE openDirectories[d] - 1

(***************************************************************************)
(* A directory is read from its beginning, each file once, and up to the   *)
(* files that were there when the last one was read: currEntry has moved   *)
(* on already, and at the end it stays, whatever is created then.          *)
(***************************************************************************)
ReadsInOrder ==
  \A d \in DOMAIN openDirectories :
    /\ Range(returned[d]) = {j \in 1 .. Passed(d) : Listed(root, j)}
    /\ \A i, j \in DOMAIN returned[d] : i < j => returned[d][i] < returned[d][j]

=============================================================================
