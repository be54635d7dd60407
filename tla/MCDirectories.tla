---------------------------- MODULE MCDirectories ----------------------------
(***************************************************************************)
(* A small instance of Directories: pieces of two characters; "a" begins   *)
(* "abc", two long names share a short form, and "s~1" looks like it.      *)
(***************************************************************************)
EXTENDS Directories

SomeLengths == [n \in Names |-> CASE n = "a" -> 1 [] n = "abc" -> 3
                                  [] n = "long1" -> 2 [] n = "long2" -> 3 [] OTHER -> 1]
SomeStems == [n \in Names |-> IF n \in {"a", "abc"} THEN n ELSE "s"]
SomeEighths == [n \in Names |-> IF n \in {"a", "abc"} THEN 0 ELSE One]
SomeBegins == {<<n, n>> : n \in Names} \union {<<"a", "abc">>}

AnEntry(n, deleted) ==
  [name |-> n, piece |-> 0, last |-> FALSE, deleted |-> deleted,
   short |-> Normal_to_SFN(n)]
APiece(n, i, last, deleted) ==
  [name |-> n, piece |-> i, last |-> last, deleted |-> deleted,
   short |-> Normal_to_SFN(n)]

(* An empty disk; one with a deleted file; one with a file whose long name *)
(* has been deleted, and one with a short name only; one on which another  *)
(* system has come to the digit 4.                                         *)
SomeTables ==
  { << >>,
    << AnEntry("a", TRUE), APiece("abc", 2, TRUE, FALSE),
       APiece("abc", 1, FALSE, FALSE), AnEntry("abc", FALSE) >>,
    << APiece("long1", 1, TRUE, TRUE), AnEntry("long1", TRUE), AnEntry("s~1", FALSE) >>,
    << APiece("long1", 1, TRUE, FALSE),
       [AnEntry("long1", FALSE) EXCEPT !.short.eighth = 4] >> }

(* What the proof of ShortNamesDistinct supposes holds here, only just.    *)
ASSUME DigitsInRange == FewShare

=============================================================================
