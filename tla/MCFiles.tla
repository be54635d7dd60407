------------------------------- MODULE MCFiles -------------------------------
(* Small instances of Files.                                               *)
EXTENDS Files

Blank == [s \in Sectors |-> [i \in 1 .. SectorSize |-> 0]]

(* The last cluster is bad.                                                *)
Unused ==
  [i \in 0 .. FatSize - 1 |->
     CASE i < 2 -> EndOfChain [] i = FatSize - 1 -> EndMark [] OTHER -> 0]

(* A disk without files, and one with a file of two clusters, out of order. *)
Empty == [fat |-> Unused, root |-> << >>, data |-> Blank]

TwoClusters ==
  [ fat  |-> [Unused EXCEPT ![4] = 2, ![2] = EndOfChain],
    root |-> << [name |-> "a", first |-> 4, size |-> ClusterSize + 1] >>,
    data |-> [s \in Sectors |-> [i \in 1 .. SectorSize |->
               IF s \div SectorsPerCluster = 4 THEN 3 ELSE 4]] ]

Blanks == {Empty}

Disks == {Empty, TwoClusters}

TwoFlags == {{"O_CREAT", "O_TRUNC", "O_WRONLY"}, {"O_CREAT", "O_APPEND"}}

JustCreate == {{"O_CREAT"}}

BackAndForth == {<<1, 0>>, <<-1, 1>>}

(* Each thread writes a byte of its own.                                   *)
OwnByte == [u \in Users |-> {u}]

(* What the proofs suppose of the disks holds of these.                    *)
ASSUME DisksAreSound == SoundImages

=============================================================================
