-------------------------------- MODULE CmHeap --------------------------------
(***************************************************************************)
(* The heap that cmocka's test_malloc() and test_free() watch: the list of *)
(* blocks in the order they were allocated, each with its address, whether *)
(* its guards are intact, and (history) whether the function that runs now *)
(* allocated it.  A check point is the address of the last block, or the   *)
(* head of the list.  Addresses are used again after a block is freed, so  *)
(* a check point may be lost, or name another block than it did.           *)
(***************************************************************************)
EXTENDS Integers, FiniteSetsExt, SequencesExt

ListHead == 0

Blocks(Addresses) == [at : Addresses, intact : BOOLEAN, mine : BOOLEAN]

Unused(heap, Addresses) == Addresses \ {heap[i].at : i \in DOMAIN heap}

\* check_point_allocated_blocks()
CheckPoint(heap) == IF heap = <<>> THEN ListHead ELSE Last(heap).at

\* The block of the check point was freed and its address is not in use: the
\* walk over the list starts at poisoned memory.
LostPoint(heap, point) ==
  point # ListHead /\ \A i \in DOMAIN heap : heap[i].at # point

\* The positions behind the check point.
Behind(heap, point) ==
  {i \in DOMAIN heap :
     point = ListHead \/ \E j \in 1 .. i - 1 : heap[j].at = point}

Allocate(heap, a) == Append(heap, [at |-> a, intact |-> TRUE, mine |-> TRUE])

\* free_allocated_blocks(): from the check point on, in order, up to the first
\* block whose guards are corrupt, for test_free() of that one jumps out.
FreeBehind(heap, point) ==
  LET behind == Behind(heap, point)
      stop   == Min({i \in behind : ~ heap[i].intact} \cup {Len(heap) + 1})
  IN  IF behind = {} THEN heap
      ELSE SubSeq(heap, 1, Min(behind) - 1) \o SubSeq(heap, stop, Len(heap))

fail_if_blocks_allocated(heap, point) ==
  LostPoint(heap, point) \/ Behind(heap, point) # {}

\* Before a function is called no block is its own.
Disowned(heap) == [i \in DOMAIN heap |-> [heap[i] EXCEPT !.mine = FALSE]]
=============================================================================
