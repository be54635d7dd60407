--------------------------- MODULE MemoryManager ----------------------------
(***************************************************************************)
(* The memory pools of the virtual machine and the VMMemoryPool calls.     *)
(* The calls run to their end with signals suspended, so each of them is   *)
(* one action.  A call whose pool does not exist, or whose arguments are   *)
(* NULL or 0, returns VM_STATUS_ERROR_INVALID_PARAMETER at once and has no *)
(* action.  VMStart creates its two pools, the heap and the shared memory, *)
(* with the same add_pool.                                                 *)
(***************************************************************************)
EXTENDS MemoryPool, FiniteSets

CONSTANTS
  Bases,      \* the addresses at which pools are created
  PoolSizes,  \* the sizes of the pools
  Requests,   \* the sizes passed to VMMemoryPoolAllocate
  Addresses,  \* the addresses passed to VMMemoryPoolDeallocate
  MaxMemID    \* bound: how many pools are ever created

ASSUME RequestAssumption ==
  /\ Bases \subseteq Nat \ {0}
  /\ PoolSizes \subseteq Size \ {0}
  /\ Requests \subseteq Size \ {0}
  /\ Addresses \subseteq Nat \ {0}
  /\ MaxMemID \in Nat

VARIABLES
  pools,      \* MemoryManager::pools, by pool identifier
  nextMemID,
  answer      \* what the last call returned

vars == <<pools, nextMemID, answer>>

Status == {"SUCCESS", "INSUFFICIENT_RESOURCES", "INVALID_PARAMETER", "INVALID_STATE"}

PoolTypeOK ==
  /\ nextMemID \in 1 .. MaxMemID + 1
  /\ DOMAIN pools \subseteq 1 .. nextMemID - 1
  /\ \A m \in DOMAIN pools : pools[m] \in Pool
  /\ answer \in [status : Status, value : Nat]

Answer(status, value) == answer' = [status |-> status, value |-> value]

Init ==
  /\ pools = << >>
  /\ nextMemID = 1
  /\ answer = [status |-> "SUCCESS", value |-> 0]

(* What a misled call does next is undefined: nothing is modelled after it. *)
Running == \A m \in DOMAIN pools : ~ pools[m].misled

(* find_pool finds it.                                                     *)
Exists(m) == m \in DOMAIN pools

(* The pools with a new one, and without one, under identifier m.          *)
AddPool(m, base, size) ==
  [i \in DOMAIN pools \union {m} |-> IF i = m THEN NewPool(base, size) ELSE pools[i]]

DeletePool(m) == [i \in DOMAIN pools \ {m} |-> pools[i]]

VMMemoryPoolCreate(base, size) ==
  /\ Running
  /\ nextMemID <= MaxMemID
  /\ pools' = AddPool(nextMemID, base, size)
  /\ nextMemID' = nextMemID + 1
  /\ Answer("SUCCESS", nextMemID)

VMMemoryPoolDelete(m) ==
  /\ Running
  /\ Exists(m)
  /\ IF QueryRemaining(pools[m]) = pools[m].size
     THEN /\ pools' = DeletePool(m)
          /\ Answer("SUCCESS", 0)
     ELSE /\ Answer("INVALID_STATE", 0)
          /\ UNCHANGED pools
  /\ UNCHANGED nextMemID

VMMemoryPoolQuery(m) ==
  /\ Running
  /\ Exists(m)
  /\ Answer("SUCCESS", QueryRemaining(pools[m]))
  /\ UNCHANGED <<pools, nextMemID>>

VMMemoryPoolAllocate(m, n) ==
  /\ Running
  /\ Exists(m)
  /\ LET p == pools[m]
     IN  IF Fits(p, n) # {}
         THEN /\ pools' = [pools EXCEPT ![m] = AllocateMemory(p, n)]
              /\ Answer("SUCCESS", p.free[FirstFit(p, n)].base)
         ELSE /\ Answer("INSUFFICIENT_RESOURCES", 0)
              /\ UNCHANGED pools
  /\ UNCHANGED nextMemID

VMMemoryPoolDeallocate(m, a) ==
  /\ Running
  /\ Exists(m)
  /\ IF Allocated(pools[m], a)
     THEN /\ pools' = [pools EXCEPT ![m] = DeallocateMemory(@, a)]
          /\ Answer("SUCCESS", 0)
     ELSE /\ Answer("INVALID_PARAMETER", 0)
          /\ UNCHANGED pools
  /\ UNCHANGED nextMemID

Next ==
  \/ \E base \in Bases, size \in PoolSizes : VMMemoryPoolCreate(base, size)
  \/ \E m \in 1 .. MaxMemID :
       \/ VMMemoryPoolDelete(m)
       \/ VMMemoryPoolQuery(m)
       \/ \E n \in Requests : VMMemoryPoolAllocate(m, n)
       \/ \E a \in Addresses : VMMemoryPoolDeallocate(m, a)

Spec == Init /\ [][Next]_vars

-----------------------------------------------------------------------------
(* Properties of an application whose requests do not come near 2^32       *)

In(s, a) == s.base <= a /\ a < s.base + s.size

Inside(p, s) == p.base <= s.base /\ s.base + s.size <= p.base + p.size

(***************************************************************************)
(* Free and allocated segments tile the pool: no byte is handed out twice, *)
(* none is lost, and no address outside the pool is handed out.            *)
(***************************************************************************)
Tiled(p) ==
  LET F == 1 .. Len(p.free)
      A == 1 .. Len(p.alloc)
  IN  /\ \A i \in F : Inside(p, p.free[i])
      /\ \A i \in A : Inside(p, p.alloc[i])
      /\ \A a \in p.base .. p.base + p.size - 1 :
           Cardinality({i \in F : In(p.free[i], a)}) +
           Cardinality({i \in A : In(p.alloc[i], a)}) = 1

(***************************************************************************)
(* The free list is in order and fully merged: between two free segments   *)
(* lies an allocated one.  Without it a request is refused that would fit. *)
(***************************************************************************)
Merged(p) ==
  /\ \A i \in 1 .. Len(p.free) : p.free[i].next = p.free[i].base + p.free[i].size
  /\ \A i \in 1 .. Len(p.free) - 1 : p.free[i].next < p.free[i + 1].base

PoolsTiled == \A m \in DOMAIN pools : Tiled(pools[m])

PoolsMerged == \A m \in DOMAIN pools : Merged(pools[m])

(***************************************************************************)
(* deallocate_memory searches on to the length mem_alloc had before it     *)
(* erased the block, so unless the block was the last entry it reads the   *)
(* slot behind the end, where the last entry still is.  It never takes     *)
(* that slot for the block, which would erase past the end and free a      *)
(* block in use; nor does the merge look past the last free segment.       *)
(***************************************************************************)
NeverMisled == \A m \in DOMAIN pools : ~ pools[m].misled

(***************************************************************************)
(* The calls keep the promise Allocator states: disjoint blocks, no refusal *)
(* while there is room, deletion and query that count every byte.          *)
(***************************************************************************)
Areas == [m \in DOMAIN pools |-> [base |-> pools[m].base, size |-> pools[m].size]]

Blocks ==
  UNION {{[pool |-> m, base |-> pools[m].alloc[i].base, size |-> pools[m].alloc[i].size] :
            i \in 1 .. Len(pools[m].alloc)} : m \in DOMAIN pools}

Promise == INSTANCE Allocator WITH
  areas <- Areas, blocks <- Blocks, Sizes <- PoolSizes, Rounded <- RoundUp

IsAllocator == Promise!Spec

=============================================================================
