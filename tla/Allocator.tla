----------------------------- MODULE Allocator ------------------------------
(***************************************************************************)
(* What the memory pool calls promise an application, without free lists:  *)
(* a pool hands out blocks that do not overlap, refuses a request only if  *)
(* there is no gap for it, takes back the blocks it has handed out and     *)
(* nothing else, and can be deleted when it has all of them back.          *)
(***************************************************************************)
EXTENDS Integers, FiniteSets, FiniteSetsExt

CONSTANTS Requests, Addresses, Sizes, MaxMemID, Rounded(_)

VARIABLES
  areas,    \* the memory each pool was created over, by pool identifier
  blocks,   \* the blocks that are handed out
  answer    \* what the last call returned

vars == <<areas, blocks, answer>>

Answer(status, value) == answer' = [status |-> status, value |-> value]

Of(m) == {b \in blocks : b.pool = m}

Covers(b, a) == b.base <= a /\ a < b.base + b.size

(* Is there room for n bytes at address a of pool m?                       *)
Room(m, a, n) ==
  /\ areas[m].base <= a /\ a + n <= areas[m].base + areas[m].size
  /\ \A b \in Of(m) : a + n <= b.base \/ b.base + b.size <= a

Init ==
  /\ areas = << >>
  /\ blocks = {}
  /\ answer = [status |-> "SUCCESS", value |-> 0]

Create(base, size) ==
  \E m \in (1 .. MaxMemID) \ DOMAIN areas :
    /\ areas' = [i \in DOMAIN areas \union {m} |->
                   IF i = m THEN [base |-> base, size |-> size] ELSE areas[i]]
    /\ Answer("SUCCESS", m)
    /\ UNCHANGED blocks

Delete(m) ==
  /\ UNCHANGED blocks
  /\ \/ /\ Of(m) = {}
        /\ areas' = [i \in DOMAIN areas \ {m} |-> areas[i]]
        /\ Answer("SUCCESS", 0)
     \/ /\ Of(m) # {}
        /\ Answer("INVALID_STATE", 0)
        /\ UNCHANGED areas

Query(m) ==
  /\ Answer("SUCCESS", areas[m].size - MapThenSumSet(LAMBDA b : b.size, Of(m)))
  /\ UNCHANGED <<areas, blocks>>

Allocate(m, n) ==
  /\ UNCHANGED areas
  /\ \/ \E a \in Addresses :
          /\ Rounded(n) >= n
          /\ Room(m, a, Rounded(n))
          /\ blocks' = blocks \union {[pool |-> m, base |-> a, size |-> Rounded(n)]}
          /\ Answer("SUCCESS", a)
     \/ /\ \A a \in Addresses : ~ Room(m, a, Rounded(n))
        /\ Answer("INSUFFICIENT_RESOURCES", 0)
        /\ UNCHANGED blocks

Deallocate(m, a) ==
  /\ UNCHANGED areas
  /\ \/ \E b \in Of(m) :
          /\ b.base = a
          /\ blocks' = blocks \ {b}
          /\ Answer("SUCCESS", 0)
     \/ /\ \A b \in Of(m) : b.base # a
        /\ Answer("INVALID_PARAMETER", 0)
        /\ UNCHANGED blocks

Next ==
  \/ \E base \in Addresses, size \in Sizes : Create(base, size)
  \/ \E m \in DOMAIN areas :
       \/ Delete(m) \/ Query(m)
       \/ \E n \in Requests : Allocate(m, n)
       \/ \E a \in Addresses : Deallocate(m, a)

Spec == Init /\ [][Next]_vars

=============================================================================
