----------------------------- MODULE MemoryPools -----------------------------
(***************************************************************************)
(* One pool of ITTI's memory_pools.c (builds with OAI_EMU or RTAI).  The   *)
(* indexes of the free items are in a ring without lock: `get` and `put`   *)
(* are advanced with fetch-and-add, `get` is put back when the slot turns  *)
(* out to be empty, and a slot is read and cleared, or checked and         *)
(* written, in steps of its own.  Between any two steps of a thread        *)
(* others may take theirs.  Any thread may allocate, as every task that    *)
(* sends a message does, and any may free what another allocated.          *)
(***************************************************************************)
EXTENDS Integers, FiniteSets

CONSTANTS
  Allocators,  \* threads that call memory_pools_allocate
  Freers,      \* threads that call memory_pools_free
  N,           \* items of the pool
  MaxPosition  \* bound on the positions, which can grow once overtaken

ASSUME MemoryPoolsAssumption ==
  /\ N \in Nat \ {0} /\ IsFiniteSet(Allocators \cup Freers)
  /\ MaxPosition \in Nat /\ MaxPosition >= 2 * (N + 1)

Threads == Allocators \cup Freers
Items == 0..(N - 1)
number_plus_one == N + 1
Slots == 0..N
INVALID == -1

VARIABLES
  put, get,   \* positions.ind, as they are: not reduced to slots
  indexes,
  allocated,  \* items whose item_status is ITEM_STATUS_ALLOCATED
  users,      \* for each item, how many callers have its handle
  pc,
  raw,        \* get_raw or put_raw of a thread
  stale,      \* put, as read before get was advanced
  index,      \* the item a thread takes or returns
  failed,     \* the assertions that have failed
  overtaken   \* a thread in memory_pools_allocate has been overtaken (history)

ringVars == <<put, get, indexes>>
localVars == <<raw, stale, index>>
poolVars == <<ringVars, allocated, users, pc, localVars, failed, overtaken>>

Labels == {"idle", "get", "read", "restore", "wrap_get", "clear", "mark",
           "put", "wrap_put", "store"}

PoolTypeOK ==
  /\ put \in Int /\ get \in Int
  /\ indexes \in [Slots -> Items \cup {INVALID}]
  /\ allocated \subseteq Items
  /\ users \in [Items -> Nat]
  /\ pc \in [Threads -> Labels]
  /\ raw \in [Threads -> Nat] /\ stale \in [Threads -> Slots]
  /\ index \in [Threads -> Items \cup {INVALID}]
  /\ failed \subseteq {"item status", "free slot"}
  /\ overtaken \in BOOLEAN

Slot(position) == position % number_plus_one
Goto(t, label) == pc' = [pc EXCEPT ![t] = label]

PoolInit ==
  /\ put = N /\ get = 0
  /\ indexes = [s \in Slots |-> IF s < N THEN s ELSE INVALID]
  /\ allocated = {} /\ users = [i \in Items |-> 0]
  /\ pc = [t \in Threads |-> "idle"]
  /\ raw = [t \in Threads |-> 0] /\ stale = [t \in Threads |-> 0]
  /\ index = [t \in Threads |-> INVALID]
  /\ failed = {}
  /\ overtaken = FALSE

-----------------------------------------------------------------------------
(* memory_pools_allocate and items_group_get_free_item.                    *)

\* The failed check of the status ends the process; the other one is reported.
Running == "item status" \notin failed

ReadPut(t) ==
  /\ t \in Allocators /\ pc[t] = "idle" /\ Running
  /\ stale' = [stale EXCEPT ![t] = Slot(put)]
  /\ Goto(t, "get")
  /\ UNCHANGED <<ringVars, allocated, users, raw, index, failed, overtaken>>

\* A thread has advanced `get` and not left its slot; it is about to put `get`
\* back, as things are, or it is about to take the item.
InRing(t) == pc[t] \in {"read", "restore", "wrap_get", "clear"}
FindsNothing(t) ==
  \/ pc[t] = "restore"
  \/ pc[t] = "read" /\ indexes[Slot(raw[t])] = INVALID
Holds(t) == InRing(t) /\ ~FindsNothing(t)

\* Advancing `get` overtakes a thread that is going to put it back, or one that
\* is still at the slot after a whole round.  Advancing `put` overtakes a thread
\* that has not cleared the slot since the last round.
OvertakesAtGet ==
  \E u \in Threads : FindsNothing(u) \/ (InRing(u) /\ Slot(raw[u]) = Slot(get))
OvertakesAtPut == \E u \in Threads : Holds(u) /\ Slot(raw[u]) = Slot(put)

\* A negative position, which only overtaking leads to, names memory before the
\* ring: the behaviour is undefined, and ends here.
FetchAddGet(t) ==
  /\ pc[t] = "get" /\ get \in 0..MaxPosition
  /\ raw' = [raw EXCEPT ![t] = get]
  /\ get' = get + 1
  /\ overtaken' = (overtaken \/ OvertakesAtGet)
  /\ stale' = [stale EXCEPT ![t] = 0]
  /\ Goto(t, IF Slot(get) = stale[t] THEN "restore" ELSE "read")
  /\ UNCHANGED <<put, indexes, allocated, users, index, failed>>

\* "Index has not yet been completely freed" is the same to the caller as a pool
\* without free items.
ReadIndex(t) ==
  LET i == indexes[Slot(raw[t])] IN
  /\ pc[t] = "read"
  /\ index' = [index EXCEPT ![t] = i]
  /\ Goto(t, IF i = INVALID THEN "restore"
             ELSE IF raw[t] = number_plus_one THEN "wrap_get" ELSE "clear")
  /\ UNCHANGED <<ringVars, allocated, users, raw, stale, failed, overtaken>>

Restore(t) ==
  /\ pc[t] = "restore"
  /\ get' = get - 1
  /\ raw' = [raw EXCEPT ![t] = 0]
  /\ Goto(t, "idle")
  /\ UNCHANGED <<put, indexes, allocated, users, stale, index, failed, overtaken>>

WrapGet(t) ==
  /\ pc[t] = "wrap_get"
  /\ get' = get - number_plus_one
  /\ Goto(t, "clear")
  /\ UNCHANGED <<put, indexes, allocated, users, localVars, failed, overtaken>>

\* Mutant of Clear: the slot keeps the index.
Clear_Forgotten(t) ==
  /\ pc[t] = "clear"
  /\ raw' = [raw EXCEPT ![t] = 0]
  /\ Goto(t, "mark")
  /\ UNCHANGED <<ringVars, allocated, users, stale, index, failed, overtaken>>

Clear(t) ==
  /\ pc[t] = "clear"
  /\ indexes' = [indexes EXCEPT ![Slot(raw[t])] = INVALID]
  /\ raw' = [raw EXCEPT ![t] = 0]
  /\ Goto(t, "mark")
  /\ UNCHANGED <<put, get, allocated, users, stale, index, failed, overtaken>>

\* The sanity check on the status, which ends the process when it fails; then the
\* status, and the handle to the caller.
Mark(t) ==
  LET i == index[t]  ok == i \notin allocated IN
  /\ pc[t] = "mark"
  /\ failed' = IF ok THEN failed ELSE failed \cup {"item status"}
  /\ allocated' = allocated \cup {i}
  /\ users' = IF ok THEN [users EXCEPT ![i] = @ + 1] ELSE users
  /\ index' = [index EXCEPT ![t] = INVALID]
  /\ Goto(t, "idle")
  /\ UNCHANGED <<ringVars, raw, stale, overtaken>>

-----------------------------------------------------------------------------
(* memory_pools_free and items_group_put_free_item.                        *)

Free(t, i) ==
  /\ t \in Freers /\ pc[t] = "idle" /\ Running
  /\ users[i] > 0
  /\ users' = [users EXCEPT ![i] = @ - 1]
  /\ allocated' = allocated \ {i}
  /\ index' = [index EXCEPT ![t] = i]
  /\ Goto(t, "put")
  /\ UNCHANGED <<ringVars, raw, stale, failed, overtaken>>

FetchAddPut(t) ==
  /\ pc[t] = "put" /\ put \in 0..MaxPosition
  /\ raw' = [raw EXCEPT ![t] = put]
  /\ put' = put + 1
  /\ overtaken' = (overtaken \/ OvertakesAtPut)
  /\ Goto(t, IF put = number_plus_one THEN "wrap_put" ELSE "store")
  /\ UNCHANGED <<get, indexes, allocated, users, stale, index, failed>>

\* Mutant of WrapPut: one too little is taken off.
WrapPut_OffByOne(t) ==
  /\ pc[t] = "wrap_put"
  /\ put' = put - N
  /\ Goto(t, "store")
  /\ UNCHANGED <<get, indexes, allocated, users, localVars, failed, overtaken>>

WrapPut(t) ==
  /\ pc[t] = "wrap_put"
  /\ put' = put - number_plus_one
  /\ Goto(t, "store")
  /\ UNCHANGED <<get, indexes, allocated, users, localVars, failed, overtaken>>

\* When the slot is not marked as free, the item is lost.
Store(t) ==
  LET s == Slot(raw[t])  ok == indexes[s] = INVALID IN
  /\ pc[t] = "store"
  /\ indexes' = [indexes EXCEPT ![s] = IF ok THEN index[t] ELSE @]
  /\ failed' = IF ok THEN failed ELSE failed \cup {"free slot"}
  /\ index' = [index EXCEPT ![t] = INVALID]
  /\ raw' = [raw EXCEPT ![t] = 0]
  /\ Goto(t, "idle")
  /\ UNCHANGED <<put, get, allocated, users, stale, overtaken>>

AllocateStep(t) ==
  FetchAddGet(t) \/ ReadIndex(t) \/ Restore(t) \/ WrapGet(t) \/ Clear(t) \/ Mark(t)

FreeStep(t) == FetchAddPut(t) \/ WrapPut(t) \/ Store(t)

PoolNext ==
  \E t \in Threads :
    \/ ReadPut(t) \/ AllocateStep(t)
    \/ (\E i \in Items : Free(t, i)) \/ FreeStep(t)

PoolSpec == PoolInit /\ [][PoolNext]_poolVars
=============================================================================
