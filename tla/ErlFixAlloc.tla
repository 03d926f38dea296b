----------------------------- MODULE ErlFixAlloc -----------------------------
(***************************************************************************)
(* The fixed-size ETERM allocator of erl_interface (erl_fix_alloc.c, the  *)
(* build without PURIFY): a free list of struct fix_block, linked through *)
(* b->next and marked by b->free, with the counters freed and allocated,  *)
(* all behind erl_eterm_state->lock. Client threads call                  *)
(* erl_eterm_alloc, erl_eterm_free and erl_eterm_release.                  *)
(*                                                                         *)
(* The locked parts are atomic steps. erl_eterm_free is two steps: the    *)
(* test of b->free, made before the lock is taken, and the locked push.   *)
(* A block of memory is a model value of Blocks; malloc returns one that  *)
(* is not in use, and free gives it back. The fields of a block that was  *)
(* freed keep their last values, as the memory does.                       *)
(***************************************************************************)
EXTENDS Integers, Sequences, FiniteSets, Functions

CONSTANTS
  Threads,       \* client threads
  Blocks,        \* the memory malloc can return, one fix_block each
  NULL,
  MallocFails,   \* malloc may return NULL
  SharedTerms    \* a client may hand a term to another thread, and both free it

VARIABLES
  freelist,      \* erl_eterm_state->freelist
  freed,         \* erl_eterm_state->freed
  allocated,     \* erl_eterm_state->allocated
  blk,           \* block -> [next, free]: the fields of struct fix_block
  heap,          \* the blocks malloc has handed out and free has not taken back
  held,          \* thread -> the ETERMs it holds
  pc,            \* thread -> "idle", or "push" after the b->free test in erl_eterm_free
  cur,           \* thread -> the block erl_eterm_free is freeing
  fault          \* "none", or the memory error the code commits

fa_vars == << freelist, freed, allocated, blk, heap, held, pc, cur, fault >>

(* The chain from the free-list head, as erl_eterm_release walks it. A     *)
(* cycle shows as a chain longer than the number of blocks.                *)
RECURSIVE Walk(_, _)
Walk(b, s) ==
  IF b = NULL \/ Len(s) > Cardinality(Blocks) THEN s ELSE Walk(blk[b].next, Append(s, b))
FreeChain == Walk(freelist, << >>)

(* erl_init_eterm_alloc, when malloc and erl_mutex_create succeed.         *)
Init ==
  /\ freelist = NULL /\ freed = 0 /\ allocated = 0
  /\ blk = [b \in Blocks |-> [next |-> NULL, free |-> FALSE]]
  /\ heap = {}
  /\ held = [t \in Threads |-> {}]
  /\ pc = [t \in Threads |-> "idle"]
  /\ cur = [t \in Threads |-> NULL]
  /\ fault = "none"

(* The threads an ETERM allocated by t is handed to.                       *)
Receivers(t) == IF SharedTerms THEN Threads ELSE {t}
MallocResults == (Blocks \ heap) \cup (IF MallocFails THEN {NULL} ELSE {})

(* erl_eterm_alloc, under the lock: pop the free-list head (the new head  *)
(* and freed are given), or malloc a new block; allocated++,              *)
(* b->free = 0, b->next = NULL. When malloc returns NULL the code sets     *)
(* erl_errno and goes on to write b->free through the NULL pointer. The   *)
(* ETERM goes to t, and to u if t shares it.                              *)
Take(t, u, b) ==
  /\ allocated' = allocated + 1
  /\ blk' = [blk EXCEPT ![b] = [next |-> NULL, free |-> FALSE]]
  /\ held' = [held EXCEPT ![t] = @ \cup {b}, ![u] = @ \cup {b}]
AllocWith(t, u, newHead, newFreed) ==
  /\ pc[t] = "idle"
  /\ IF freelist # NULL
     THEN /\ freelist' = newHead /\ freed' = newFreed
          /\ Take(t, u, freelist) /\ UNCHANGED << heap, fault >>
     ELSE \E b \in MallocResults :
          IF b = NULL THEN fault' = "null_write" /\ allocated' = allocated + 1
                           /\ UNCHANGED << freelist, freed, blk, heap, held >>
          ELSE heap' = heap \cup {b} /\ Take(t, u, b) /\ UNCHANGED << freelist, freed, fault >>
  /\ UNCHANGED << pc, cur >>

(* Mutant of erl_eterm_alloc: a block popped from the free list is not     *)
(* subtracted from freed.                                                  *)
erl_eterm_allocNoFreedDec(t, u) == AllocWith(t, u, blk[freelist].next, freed)
(* Mutant of erl_eterm_alloc: the head is handed out but not popped.       *)
erl_eterm_allocNoPop(t, u) == AllocWith(t, u, freelist, freed - 1)
erl_eterm_alloc(t, u) == AllocWith(t, u, blk[freelist].next, freed - 1)

(* erl_eterm_free(p), first step, before the lock: if b->free is set the   *)
(* block counts as already freed and the call returns. Reading b->free of  *)
(* a block free() has taken back reads freed memory.                       *)
free_check(t, h) ==
  /\ pc[t] = "idle" /\ h \in held[t]
  /\ IF h \notin heap
     THEN fault' = "use_after_free" /\ UNCHANGED << held, pc, cur >>
     ELSE IF blk[h].free
     THEN held' = [held EXCEPT ![t] = @ \ {h}] /\ UNCHANGED << pc, cur, fault >>
     ELSE pc' = [pc EXCEPT ![t] = "push"] /\ cur' = [cur EXCEPT ![t] = h]
          /\ UNCHANGED << held, fault >>
  /\ UNCHANGED << freelist, freed, allocated, blk, heap >>

(* erl_eterm_free(p), second step, under the lock: b->free = 1, push b on *)
(* the free list, freed++, allocated-- (the flag and the new count given). *)
PushWith(t, flag, newAllocated) ==
  /\ pc[t] = "push"
  /\ LET b == cur[t] IN
     /\ blk' = [blk EXCEPT ![b] = [next |-> freelist, free |-> flag]]
     /\ freelist' = b /\ freed' = freed + 1 /\ allocated' = newAllocated
     /\ held' = [held EXCEPT ![t] = @ \ {b}]
  /\ pc' = [pc EXCEPT ![t] = "idle"] /\ cur' = [cur EXCEPT ![t] = NULL]
  /\ UNCHANGED << heap, fault >>

(* Mutant of free_push: b->free is not set.                                *)
free_pushNoFlag(t) == PushWith(t, FALSE, allocated - 1)
(* Mutant of free_push: allocated is not decremented.                      *)
free_pushKeepCount(t) == PushWith(t, TRUE, allocated)
free_push(t) == PushWith(t, TRUE, allocated - 1)

(* erl_eterm_release, under the lock: free() every block of the free list *)
(* and decrement freed for each.                                          *)
erl_eterm_release(t) ==
  /\ pc[t] = "idle"
  /\ heap' = heap \ Range(FreeChain)
  /\ freed' = freed - Len(FreeChain)
  /\ freelist' = NULL
  /\ UNCHANGED << allocated, blk, held, pc, cur, fault >>

(* A memory error ends the behaviour.                                     *)
Next ==
  /\ fault = "none"
  /\ \E t \in Threads :
       \/ \E u \in Receivers(t) : erl_eterm_alloc(t, u)
       \/ \E h \in held[t] : free_check(t, h)
       \/ free_push(t)
       \/ erl_eterm_release(t)

Spec == Init /\ [][Next]_fa_vars
-----------------------------------------------------------------------------
FATypeOK ==
  /\ freelist \in Blocks \cup {NULL}
  /\ freed \in 0 .. Cardinality(Blocks) /\ allocated \in Nat
  /\ blk \in [Blocks -> [next : Blocks \cup {NULL}, free : BOOLEAN]]
  /\ heap \subseteq Blocks
  /\ held \in [Threads -> SUBSET Blocks]
  /\ pc \in [Threads -> {"idle", "push"}] /\ cur \in [Threads -> Blocks \cup {NULL}]
  /\ fault \in {"none", "null_write", "use_after_free"}

(* The free list stays a list, whatever the interleaving of the unlocked  *)
(* b->free test with allocations, frees and erl_eterm_release: the chain   *)
(* from the head has no repeated block, holds exactly the blocks of the   *)
(* heap whose free flag is set, and freed counts it.                       *)
FreeListSound ==
  /\ IsInjective(FreeChain)
  /\ Range(FreeChain) = {b \in heap : blk[b].free}
  /\ freed = Len(FreeChain)

(* erl_eterm_alloc never hands out a block that is still on the free list *)
(* or that another client holds: an ETERM a thread holds is not reachable  *)
(* from the head, and no two threads hold the same one.                   *)
NoHeldOnFreeList ==
  /\ \A t \in Threads : held[t] \cap Range(FreeChain) = {}
  /\ \A t, u \in Threads : t # u => held[t] \cap held[u] = {}

(* erl_eterm_statistics' allocated is the number of ETERMs the clients    *)
(* hold, across allocations from either source, frees and releases.       *)
AllocatedCount == allocated = Cardinality(UNION {held[t] : t \in Threads})
=============================================================================
