-------------------------- MODULE MemoryPoolsProps --------------------------
(* What the ring of a pool promises, to which mix of threads. *)
EXTENDS MemoryPools

\* The slots of the ring that a thread has taken and not cleared yet.
Taken == {Slot(raw[t]) : t \in {u \in Threads : pc[u] \in {"wrap_get", "clear"}}}

\* The items a caller could get.
Available == {indexes[s] : s \in Slots \ Taken} \ {INVALID}

\* The items on their way, with the threads that carry them.
Carried == {<<t, index[t]>> : t \in {u \in Threads : index[u] # INVALID}}

\* Every item is in one place: free, under way in one thread, or with one caller,
\* and the checks of the ring hold; with any number of allocating threads, until
\* one of them is overtaken: until `get` is advanced behind a thread that is about
\* to put it back (memory_pools.c:178-191), or a position comes round to a slot
\* whose item a thread is still taking.
EveryItemInOnePlace ==
  /\ PoolTypeOK
  /\ ~overtaken =>
       /\ failed = {}
       /\ \A i \in Items :
            LET places == {s \in Slots \ Taken : indexes[s] = i}
                threads == {t \in Threads : <<t, i>> \in Carried}
            IN Cardinality(places) + Cardinality(threads) + users[i] = 1

Abstract == INSTANCE FreeList WITH free <- Available, held <- {i \in Items : users[i] > 0}

\* The pool implements a free list, until an allocating thread is overtaken.
IsFreeList ==
  /\ Abstract!Init
  /\ [][~overtaken' => Abstract!Next]_<<Available, {i \in Items : users[i] > 0}>>

\* A thread inside a call goes on.
FairPoolSpec ==
  /\ PoolSpec
  /\ \A t \in Threads : WF_poolVars(AllocateStep(t)) /\ WF_poolVars(FreeStep(t))
  /\ \A t \in Allocators : WF_poolVars(ReadPut(t))

\* As long as items are returned, some of the callers that try again and again
\* get one, or one of them is overtaken.
AllocationSucceeds ==
  []<>(\E i \in Items : users[i] = 0) => []<>(overtaken \/ \E t \in Allocators : pc[t] = "mark")
=============================================================================
