-------------------------- MODULE MemoryPoolsProofs --------------------------
(***************************************************************************)
(* Proofs for MemoryPools: with any number of threads that allocate and    *)
(* that free, the ring of a pool of any size implements a free list until  *)
(* an allocating thread is overtaken.                                      *)
(*                                                                         *)
(* The inductive invariant says where `get` and `put` may stand and at     *)
(* which slots the threads are (Positions), which slots between them hold  *)
(* an item or are about to (Ring), and that no item is in two places       *)
(* (Places).                                                               *)
(***************************************************************************)
EXTENDS MemoryPoolsProps, FiniteSetTheorems, TLAPS

M == number_plus_one

-----------------------------------------------------------------------------
(* Positions and slots.                                                    *)

LEMMA SizeOfRing == M \in Nat /\ M >= 2 /\ M = N + 1 /\ Slots = 0..(M - 1)
BY MemoryPoolsAssumption DEF M, number_plus_one, Slots

\* A position up to the second wrap is a slot, or a slot one ring further on.
LEMMA SlotOfPosition ==
  ASSUME NEW x \in 0..(2 * M)
  PROVE  /\ Slot(x) = IF x < M THEN x ELSE IF x < 2 * M THEN x - M ELSE 0
         /\ Slot(x) \in Slots
<1>1. M \in Nat /\ M >= 2
  BY SizeOfRing
<1>2. Slot(x) = x % M
  BY DEF Slot, M
<1>3. CASE x < M
  <2>1. x % M = x
    BY <1>1, <1>3
  <2>2. Slot(x) = x
    BY <1>2, <2>1
  <2>3. x \in Slots
    BY <1>1, <1>3, SizeOfRing
  <2>. QED
    BY <1>1, <1>3, <2>2, <2>3
<1>4. CASE x >= M /\ x < 2 * M
  <2>1. x % M = x - M
    BY <1>1, <1>4
  <2>. QED
    BY <1>1, <1>2, <1>4, <2>1, SizeOfRing
<1>5. CASE x = 2 * M
  <2>1. x % M = 0
    BY <1>1, <1>5
  <2>. QED
    BY <1>1, <1>2, <1>5, <2>1, SizeOfRing
<1>. QED
  BY <1>1, <1>3, <1>4, <1>5

\* Whatever a position is, its remainder is a slot.
LEMMA SlotIsSlot == ASSUME NEW x \in Int PROVE Slot(x) \in Slots
<1>1. M \in Nat /\ M >= 2
  BY SizeOfRing
<1>2. x % M \in 0..(M - 1)
  BY <1>1
<1>. QED
  BY <1>2, SizeOfRing DEF Slot, M

\* The slot behind another, and what a queue is when one of its ends moves on.
After(s) == IF s + 1 = M THEN 0 ELSE s + 1

\* From slot h to the one before t.
Between(h, t, s) == IF h <= t THEN h <= s /\ s < t ELSE h <= s \/ s < t

LEMMA QueueMoves ==
  ASSUME NEW h \in Slots, NEW t \in Slots, NEW s \in Slots
  PROVE  /\ ~Between(h, t, t)
         /\ Between(h, t, h) =>
              (Between(After(h), t, s) <=> Between(h, t, s) /\ s # h)
         /\ After(t) # h =>
              (Between(h, After(t), s) <=> Between(h, t, s) \/ s = t)
         /\ Between(After(t), t, s) <=> s # t
<1>1. M \in Nat /\ M >= 2 /\ h \in 0..(M - 1) /\ t \in 0..(M - 1) /\ s \in 0..(M - 1)
  BY SizeOfRing
<1>. QED
  BY <1>1 DEF Between, After

\* A position one further on is at the next slot.
LEMMA NextPosition ==
  ASSUME NEW x \in 0..(2 * M - 1), NEW y, y = x + 1
  PROVE  Slot(y) = After(Slot(x))
<1>1. M \in Nat /\ M >= 2
  BY SizeOfRing
<1>2. x \in 0..(2 * M) /\ y \in 0..(2 * M)
  BY <1>1
<1>3. Slot(x) = IF x < M THEN x ELSE IF x < 2 * M THEN x - M ELSE 0
  BY <1>2, SlotOfPosition
<1>4. Slot(y) = IF y < M THEN y ELSE IF y < 2 * M THEN y - M ELSE 0
  BY <1>2, SlotOfPosition
<1>. QED
  BY <1>1, <1>3, <1>4 DEF After

-----------------------------------------------------------------------------
(* The inductive invariant.                                                *)

Storing(t) == pc[t] \in {"wrap_put", "store"}

\* The thread has read the slot it is about to clear.
Clearing(t) == pc[t] \in {"wrap_get", "clear"}

\* The thread is to take one round off `get`, whatever it finds.
Wrapping(t) == pc[t] \in {"read", "restore", "wrap_get"} /\ raw[t] = M

\* The queue goes from the slot `get` is at, or is about to be put back to, to
\* the one before `put`.
Head == IF \E t \in Threads : FindsNothing(t) THEN Slot(get - 1) ELSE Slot(get)
Tail == Slot(put)
InQueue(s) == Between(Head, Tail, s)

\* No two threads are at one slot; the one that finds nothing came last.
Positions ==
  /\ get \in 0..(2 * M)
  /\ get > M <=> \E t \in Threads : Wrapping(t)
  /\ \A t \in Threads :
       /\ pc[t] = "wrap_get" => raw[t] = M
       /\ InRing(t) => raw[t] \in 0..(2 * M - 1)
       /\ FindsNothing(t) => get >= 1 /\ Slot(get - 1) = Slot(raw[t])
  /\ \A t, u \in Threads :
       InRing(t) /\ InRing(u) /\ Slot(raw[t]) = Slot(raw[u]) => t = u
  /\ put \in 0..(2 * M - 1)
  /\ \A t \in Threads :
       /\ pc[t] = "wrap_put" => raw[t] = M /\ put > M
       /\ Storing(t) => raw[t] \in 0..(2 * M - 1)
  /\ put > M => \E t \in Threads : pc[t] = "wrap_put"
  /\ \A t, u \in Threads : pc[t] = "wrap_put" /\ pc[u] = "wrap_put" => t = u

\* Slots outside the queue are marked as free, unless a thread is taking their
\* item; those inside are, exactly while one thread is about to store to them.
Ring ==
  /\ \A s \in Slots : ~InQueue(s) /\ indexes[s] # INVALID =>
       \E t \in Threads : Holds(t) /\ Slot(raw[t]) = s
  /\ \A t \in Threads : Holds(t) => ~InQueue(Slot(raw[t]))
  /\ \A s \in Slots : InQueue(s) /\ indexes[s] = INVALID =>
       \E t \in Threads : Storing(t) /\ Slot(raw[t]) = s
  /\ \A t \in Threads : Storing(t) =>
       InQueue(Slot(raw[t])) /\ indexes[Slot(raw[t])] = INVALID
  /\ \A t, u \in Threads :
       Storing(t) /\ Storing(u) /\ Slot(raw[t]) = Slot(raw[u]) => t = u

Places ==
  /\ \A t \in Threads : Clearing(t) => index[t] = indexes[Slot(raw[t])]
  /\ \A r, s \in Slots : indexes[r] = indexes[s] /\ indexes[r] # INVALID => r = s
  /\ \A t, u \in Threads : index[t] = index[u] /\ index[t] # INVALID => t = u
  /\ \A t \in Threads, s \in Slots : index[t] = indexes[s] /\ index[t] # INVALID =>
       Clearing(t) /\ s = Slot(raw[t])
  /\ \A i \in Items :
       /\ users[i] \in {0, 1}
       /\ users[i] = 1 <=> i \in allocated
       /\ users[i] = 1 => /\ \A s \in Slots : indexes[s] # i
                          /\ \A t \in Threads : index[t] # i
       /\ \/ users[i] = 1
          \/ \E s \in Slots : indexes[s] = i
          \/ \E t \in Threads : index[t] = i
  /\ failed = {}

\* A thread has an item exactly while it is under way with it.
Carriers ==
  \A t \in Threads : index[t] # INVALID <=>
    pc[t] \in {"wrap_get", "clear", "mark", "put", "wrap_put", "store"}

TypeInv == PoolTypeOK /\ Carriers
RingInv == Positions /\ Ring /\ Places
PoolInv == TypeInv /\ (~overtaken => RingInv)

\* The slots that threads and the two ends of the queue are at.
LEMMA SlotsOfThreads ==
  ASSUME TypeInv, Positions
  PROVE  /\ Head \in Slots /\ Tail \in Slots /\ Slot(get) \in Slots
         /\ \A t \in Threads : Slot(raw[t]) \in Slots
         /\ \A t \in Threads : FindsNothing(t) => Head = Slot(raw[t])
<1>1. get \in Int /\ put \in Int /\ raw \in [Threads -> Nat]
  BY DEF TypeInv, PoolTypeOK
<1>2. get - 1 \in Int /\ \A t \in Threads : raw[t] \in Int
  BY <1>1
<1>3. Slot(get - 1) \in Slots /\ Slot(get) \in Slots /\ Slot(put) \in Slots
  BY <1>1, <1>2, SlotIsSlot
<1>4. \A t \in Threads : Slot(raw[t]) \in Slots
  BY <1>2, SlotIsSlot
<1>. QED
  BY <1>3, <1>4 DEF Head, Tail, Positions

\* The thread that finds nothing is at the first slot of the queue, and is the
\* only one that finds nothing.
LEMMA OneFindsNothing ==
  ASSUME Positions, NEW t \in Threads, FindsNothing(t)
  PROVE  /\ Slot(get - 1) = Slot(raw[t]) /\ get >= 1 /\ Head = Slot(raw[t])
         /\ \A u \in Threads : FindsNothing(u) => u = t
<1>1. \A u \in Threads : FindsNothing(u) => InRing(u)
  BY DEF FindsNothing, InRing
<1>. QED
  BY <1>1 DEF Positions, Head

-----------------------------------------------------------------------------
(* What the steps that leave a part of the state alone keep.               *)

\* What a step of one thread leaves of the others.
Same(u) ==
  /\ pc'[u] = pc[u] /\ raw'[u] = raw[u] /\ Slot(raw[u])' = Slot(raw[u])
  /\ InRing(u)' <=> InRing(u)
  /\ Storing(u)' <=> Storing(u)
  /\ Clearing(u)' <=> Clearing(u)
  /\ Wrapping(u)' <=> Wrapping(u)

\* The thread is at a slot with the same index as before.
Sees(u) == (FindsNothing(u)' <=> FindsNothing(u)) /\ (Holds(u)' <=> Holds(u))

LEMMA OthersSame ==
  ASSUME TypeInv, NEW t \in Threads, NEW label, Goto(t, label),
         \A u \in Threads : u # t => raw'[u] = raw[u]
  PROVE  /\ pc'[t] = label
         /\ \A u \in Threads : u # t => Same(u)
         /\ indexes' = indexes => \A u \in Threads : u # t => Sees(u)
<1>1. pc \in [Threads -> Labels] /\ pc' = [pc EXCEPT ![t] = label]
  BY DEF TypeInv, PoolTypeOK, Goto
<1>2. \A u \in Threads : pc'[u] = IF u = t THEN label ELSE pc[u]
  BY <1>1
<1>3. ASSUME NEW u \in Threads, u # t PROVE Same(u)
  BY <1>2, <1>3 DEF Same, InRing, Storing, Clearing, Wrapping, Slot, number_plus_one, M
<1>4. ASSUME NEW u \in Threads, u # t, indexes' = indexes PROVE Sees(u)
  BY <1>2, <1>4 DEF Sees, FindsNothing, Holds, InRing, Slot, number_plus_one
<1>. QED
  BY <1>2, <1>3, <1>4

\* Where a queue stands depends on `get`, on `put` and on who finds nothing.
LEMMA Ends ==
  /\ Head' = IF \E t \in Threads : FindsNothing(t)' THEN Slot(get' - 1) ELSE Slot(get')
  /\ Tail' = Slot(put')
  /\ \A t \in Threads : Slot(raw[t])' = Slot(raw'[t])
BY DEF Head, Tail, Slot, number_plus_one, Threads

LEMMA RingFrame ==
  ASSUME Ring, indexes' = indexes, Head' = Head, Tail' = Tail,
         \A t \in Threads :
           /\ Storing(t)' <=> Storing(t)
           /\ Holds(t)' <=> Holds(t)
           /\ Storing(t) \/ Holds(t) => Slot(raw[t])' = Slot(raw[t])
  PROVE  Ring'
<1>1. ASSUME NEW s PROVE InQueue(s)' <=> InQueue(s)
  BY DEF InQueue, Between
<1>2. ASSUME NEW t \in Threads, Storing(t) \/ Holds(t)
      PROVE  InQueue(Slot(raw[t]))' <=> InQueue(Slot(raw[t]))
  BY <1>2 DEF InQueue, Between
<1>. QED
  BY <1>1, <1>2 DEF Ring, Slots

LEMMA PlacesFrame ==
  ASSUME Places, UNCHANGED <<indexes, index, allocated, users, failed>>,
         \A t \in Threads :
           /\ Clearing(t)' <=> Clearing(t)
           /\ Clearing(t) => Slot(raw[t])' = Slot(raw[t])
  PROVE  Places'
BY DEF Places, Slots, Items

-----------------------------------------------------------------------------
(* Types, which hold whether a thread was overtaken or not.                *)

\* Where a thread goes decides whether it has an item, and nothing else does.
LEMMA CarriersKept ==
  ASSUME TypeInv, NEW t \in Threads, NEW label, Goto(t, label),
         NEW i \in Items \cup {INVALID}, index' = [index EXCEPT ![t] = i],
         i # INVALID <=>
           label \in {"wrap_get", "clear", "mark", "put", "wrap_put", "store"}
  PROVE  index' \in [Threads -> Items \cup {INVALID}] /\ Carriers'
<1>1. index \in [Threads -> Items \cup {INVALID}] /\ pc \in [Threads -> Labels]
  BY DEF TypeInv, PoolTypeOK
<1>2. /\ \A u \in Threads : pc'[u] = IF u = t THEN label ELSE pc[u]
      /\ \A u \in Threads : index'[u] = IF u = t THEN i ELSE index[u]
  BY <1>1 DEF Goto
<1>. QED
  BY <1>1, <1>2 DEF TypeInv, Carriers, Threads, INVALID

\* A step that leaves the items where they are.
LEMMA CarriersFrame ==
  ASSUME TypeInv, NEW t \in Threads, NEW label, Goto(t, label), index' = index,
         index[t] # INVALID <=>
           label \in {"wrap_get", "clear", "mark", "put", "wrap_put", "store"}
  PROVE  Carriers'
<1>1. index \in [Threads -> Items \cup {INVALID}]
  BY DEF TypeInv, PoolTypeOK
<1>2. index' = [index EXCEPT ![t] = index[t]] /\ index[t] \in Items \cup {INVALID}
  BY <1>1
<1>. QED
  BY <1>2, CarriersKept

LEMMA TypesKept ==
  ASSUME TypeInv, [PoolNext]_poolVars
  PROVE  TypeInv'
<1>. USE DEF PoolTypeOK, ringVars, localVars
<1>1. PoolTypeOK /\ Carriers
  BY DEF TypeInv
<1>2. CASE UNCHANGED poolVars
  BY <1>1, <1>2 DEF TypeInv, Carriers, poolVars, Items, Slots
<1>3. ASSUME NEW t \in Threads, NEW label, label \in Labels, Goto(t, label)
      PROVE  pc' \in [Threads -> Labels]
  BY <1>1, <1>3 DEF Goto
<1>4. /\ overtaken \in BOOLEAN /\ put \in Int /\ get \in Int /\ Slot(put) \in Slots
      /\ raw \in [Threads -> Nat] /\ stale \in [Threads -> Slots]
      /\ users \in [Items -> Nat] /\ index \in [Threads -> Items \cup {INVALID}]
  BY <1>1, SlotIsSlot
<1>. HIDE DEF PoolTypeOK
<1>5. ASSUME NEW t \in Threads PROVE Slot(raw[t]) \in Slots
  <2>1. raw[t] \in Int
    BY <1>4
  <2>. QED
    BY <2>1, SlotIsSlot
<1>6. /\ number_plus_one \in Int /\ 0 \in Slots /\ 0 \in Nat
      /\ \A x \in 0..MaxPosition : x \in Nat
      /\ \A x \in Int : {x + 1, x - 1, x - number_plus_one} \subseteq Int
      /\ \A x \in Nat : x + 1 \in Nat /\ (x > 0 => x - 1 \in Nat)
  BY SizeOfRing, MemoryPoolsAssumption DEF M
<1>. USE DEF PoolTypeOK
<1>7. ASSUME NEW t \in Threads, ReadPut(t) PROVE TypeInv'
  <2>1. Carriers'
    BY <1>1, <1>7, CarriersFrame DEF ReadPut, Carriers
  <2>2. pc' \in [Threads -> Labels]
    BY <1>3, <1>7 DEF ReadPut, Labels
  <2>. QED
    BY <1>1, <1>4, <1>7, <2>1, <2>2 DEF ReadPut, TypeInv
<1>8. ASSUME NEW t \in Threads, FetchAddGet(t) PROVE TypeInv'
  <2>1. PICK label \in {"restore", "read"} : Goto(t, label)
    BY <1>8 DEF FetchAddGet
  <2>2. Carriers'
    BY <1>1, <1>8, <2>1, CarriersFrame DEF FetchAddGet, Carriers
  <2>3. pc' \in [Threads -> Labels]
    BY <1>3, <2>1 DEF Labels
  <2>4. raw' \in [Threads -> Nat] /\ stale' \in [Threads -> Slots] /\ get' \in Int
    BY <1>4, <1>6, <1>8 DEF FetchAddGet
  <2>5. overtaken' \in BOOLEAN
    BY <1>4, <1>8 DEF FetchAddGet
  <2>. QED
    BY <1>1, <1>8, <2>2, <2>3, <2>4, <2>5 DEF FetchAddGet, TypeInv
<1>9. ASSUME NEW t \in Threads, ReadIndex(t) PROVE TypeInv'
  <2>. DEFINE i == indexes[Slot(raw[t])]
  <2>1. i \in Items \cup {INVALID}
    BY <1>1, <1>5
  <2>2. index' = [index EXCEPT ![t] = i]
    BY <1>9 DEF ReadIndex
  <2>3. PICK label : /\ Goto(t, label) /\ label \in {"restore", "wrap_get", "clear"}
                     /\ label = "restore" <=> i = INVALID
    BY <1>9 DEF ReadIndex
  <2>. HIDE DEF i
  <2>4. index' \in [Threads -> Items \cup {INVALID}] /\ Carriers'
    BY <2>1, <2>2, <2>3, CarriersKept
  <2>5. pc' \in [Threads -> Labels]
    BY <1>3, <2>3 DEF Labels
  <2>. QED
    BY <1>1, <1>9, <2>4, <2>5 DEF ReadIndex, TypeInv
<1>10. ASSUME NEW t \in Threads, Restore(t) PROVE TypeInv'
  <2>1. Carriers'
    BY <1>1, <1>10, CarriersFrame DEF Restore, Carriers
  <2>2. pc' \in [Threads -> Labels]
    BY <1>3, <1>10 DEF Restore, Labels
  <2>3. raw' \in [Threads -> Nat] /\ get' \in Int
    BY <1>4, <1>6, <1>10 DEF Restore
  <2>. QED
    BY <1>1, <1>10, <2>1, <2>2, <2>3 DEF Restore, TypeInv
<1>11. ASSUME NEW t \in Threads, WrapGet(t) PROVE TypeInv'
  <2>1. Carriers'
    BY <1>1, <1>11, CarriersFrame DEF WrapGet, Carriers
  <2>2. pc' \in [Threads -> Labels]
    BY <1>3, <1>11 DEF WrapGet, Labels
  <2>3. get' \in Int
    BY <1>4, <1>6, <1>11 DEF WrapGet
  <2>. QED
    BY <1>1, <1>11, <2>1, <2>2, <2>3 DEF WrapGet, TypeInv
<1>12. ASSUME NEW t \in Threads, Clear(t) PROVE TypeInv'
  <2>1. Carriers'
    BY <1>1, <1>12, CarriersFrame DEF Clear, Carriers
  <2>2. pc' \in [Threads -> Labels]
    BY <1>3, <1>12 DEF Clear, Labels
  <2>3. raw' \in [Threads -> Nat] /\ indexes' \in [Slots -> Items \cup {INVALID}]
    BY <1>1, <1>12 DEF Clear
  <2>. QED
    BY <1>1, <1>12, <2>1, <2>2, <2>3 DEF Clear, TypeInv
<1>13. ASSUME NEW t \in Threads, Mark(t) PROVE TypeInv'
  <2>1. index[t] \in Items
    BY <1>1, <1>13 DEF Mark, Carriers
  <2>2. index' \in [Threads -> Items \cup {INVALID}] /\ Carriers'
    <3>1. TypeInv /\ Goto(t, "idle") /\ index' = [index EXCEPT ![t] = INVALID]
      BY <1>1, <1>13 DEF Mark, TypeInv
    <3>2. /\ INVALID \in Items \cup {INVALID}
          /\ INVALID # INVALID <=>
               "idle" \in {"wrap_get", "clear", "mark", "put", "wrap_put", "store"}
      OBVIOUS
    <3>. HIDE DEF PoolTypeOK
    <3>. QED
      BY <3>1, <3>2, CarriersKept
  <2>3. pc' \in [Threads -> Labels]
    BY <1>3, <1>13 DEF Mark, Labels
  <2>4. users' \in [Items -> Nat]
    <3>. DEFINE j == index[t]
    <3>1. users[j] \in Nat /\ users[j] + 1 \in Nat
      BY <1>4, <1>6, <2>1
    <3>2. users' = users \/ users' = [users EXCEPT ![j] = users[j] + 1]
      BY <1>1, <1>13, <2>1 DEF Mark
    <3>. HIDE DEF j
    <3>. QED
      BY <1>1, <3>1, <3>2
  <2>5. allocated' \subseteq Items /\ failed' \subseteq {"item status", "free slot"}
    BY <1>1, <1>13, <2>1 DEF Mark
  <2>. QED
    BY <1>1, <1>13, <2>2, <2>3, <2>4, <2>5 DEF Mark, TypeInv
<1>14. ASSUME NEW t \in Threads, NEW i \in Items, Free(t, i) PROVE TypeInv'
  <2>1. i # INVALID
    BY DEF Items, INVALID
  <2>2. index' \in [Threads -> Items \cup {INVALID}] /\ Carriers'
    BY <1>14, <2>1, CarriersKept DEF Free
  <2>3. pc' \in [Threads -> Labels]
    BY <1>3, <1>14 DEF Free, Labels
  <2>4. users' \in [Items -> Nat] /\ allocated' \subseteq Items
    <3>1. users[i] - 1 \in Nat
      BY <1>4, <1>6, <1>14 DEF Free
    <3>. QED
      BY <1>1, <1>14, <3>1 DEF Free
  <2>. QED
    BY <1>1, <1>14, <2>2, <2>3, <2>4 DEF Free, TypeInv
<1>15. ASSUME NEW t \in Threads, FetchAddPut(t) PROVE TypeInv'
  <2>1. PICK label \in {"wrap_put", "store"} : Goto(t, label)
    BY <1>15 DEF FetchAddPut
  <2>2. Carriers'
    BY <1>1, <1>15, <2>1, CarriersFrame DEF FetchAddPut, Carriers
  <2>3. pc' \in [Threads -> Labels]
    BY <1>3, <2>1 DEF Labels
  <2>4. raw' \in [Threads -> Nat] /\ put' \in Int
    BY <1>4, <1>6, <1>15 DEF FetchAddPut
  <2>5. overtaken' \in BOOLEAN
    BY <1>4, <1>15 DEF FetchAddPut
  <2>. QED
    BY <1>1, <1>15, <2>2, <2>3, <2>4, <2>5 DEF FetchAddPut, TypeInv
<1>16. ASSUME NEW t \in Threads, WrapPut(t) PROVE TypeInv'
  <2>1. Carriers'
    BY <1>1, <1>16, CarriersFrame DEF WrapPut, Carriers
  <2>2. pc' \in [Threads -> Labels]
    BY <1>3, <1>16 DEF WrapPut, Labels
  <2>3. put' \in Int
    BY <1>4, <1>6, <1>16 DEF WrapPut
  <2>. QED
    BY <1>1, <1>16, <2>1, <2>2, <2>3 DEF WrapPut, TypeInv
<1>17. ASSUME NEW t \in Threads, Store(t) PROVE TypeInv'
  <2>1. index' \in [Threads -> Items \cup {INVALID}] /\ Carriers'
    <3>1. TypeInv /\ Goto(t, "idle") /\ index' = [index EXCEPT ![t] = INVALID]
      BY <1>1, <1>17 DEF Store, TypeInv
    <3>2. /\ INVALID \in Items \cup {INVALID}
          /\ INVALID # INVALID <=>
               "idle" \in {"wrap_get", "clear", "mark", "put", "wrap_put", "store"}
      OBVIOUS
    <3>. HIDE DEF PoolTypeOK
    <3>. QED
      BY <3>1, <3>2, CarriersKept
  <2>2. pc' \in [Threads -> Labels]
    BY <1>3, <1>17 DEF Store, Labels
  <2>3. raw' \in [Threads -> Nat] /\ failed' \subseteq {"item status", "free slot"}
    BY <1>1, <1>17 DEF Store
  <2>4. indexes' \in [Slots -> Items \cup {INVALID}]
    <3>. DEFINE s == Slot(raw[t])
                i == IF indexes[s] = INVALID THEN index[t] ELSE indexes[s]
    <3>1. s \in Slots /\ i \in Items \cup {INVALID}
      BY <1>1, <1>5
    <3>2. indexes' = [indexes EXCEPT ![s] = i]
      BY <1>1, <1>17, <3>1 DEF Store
    <3>. HIDE DEF i, s
    <3>. QED
      BY <1>1, <3>1, <3>2
  <2>. QED
    BY <1>1, <1>17, <2>1, <2>2, <2>3, <2>4 DEF Store, TypeInv
<1>. QED
  BY <1>2, <1>7, <1>8, <1>9, <1>10, <1>11, <1>12, <1>13, <1>14, <1>15, <1>16, <1>17
     DEF PoolNext, AllocateStep, FreeStep

-----------------------------------------------------------------------------
(* The steps of memory_pools_allocate.                                     *)

\* A step that moves no position and no index, and after which the thread is
\* at its slot, or nowhere, as before.
LEMMA LocalStep ==
  ASSUME TypeInv, Positions, Ring, NEW t \in Threads, NEW label, Goto(t, label),
         UNCHANGED <<put, get, indexes, raw>>,
         InRing(t)' <=> InRing(t), Sees(t), Storing(t)' <=> Storing(t),
         Wrapping(t)' <=> Wrapping(t), label = "wrap_get" => raw[t] = M,
         label # "wrap_put", pc[t] # "wrap_put"
  PROVE  Positions' /\ Ring'
<1>1. /\ pc'[t] = label
      /\ \A u \in Threads : u # t => Same(u) /\ Sees(u)
  BY OthersSame
<1>2. \A u \in Threads : Sees(u)
  BY <1>1
<1>3. \A u \in Threads :
        /\ InRing(u)' <=> InRing(u)
        /\ Storing(u)' <=> Storing(u)
        /\ Wrapping(u)' <=> Wrapping(u)
        /\ Slot(raw[u])' = Slot(raw[u])
        /\ pc'[u] = "wrap_put" <=> pc[u] = "wrap_put"
        /\ pc'[u] = "wrap_get" => raw[u] = M
  BY <1>1 DEF Same, Slot, number_plus_one, Positions
<1>4. Head' = Head /\ Tail' = Tail
  BY <1>2, Ends DEF Sees, Head, Tail
<1>5. Positions'
  BY <1>2, <1>3 DEF Positions, Sees, Slot, number_plus_one, M
<1>6. Ring'
  BY <1>2, <1>3, <1>4, RingFrame DEF Sees
<1>. QED
  BY <1>5, <1>6

\* A step of a thread that takes or returns no item.
LEMMA PlacesOfStep ==
  ASSUME TypeInv, Places, NEW t \in Threads, NEW label, Goto(t, label),
         UNCHANGED <<indexes, index, allocated, users, failed>>,
         \A u \in Threads : u # t => raw'[u] = raw[u],
         Clearing(t)' <=> Clearing(t), Clearing(t) => raw'[t] = raw[t]
  PROVE  Places'
<1>1. \A u \in Threads : u # t => Same(u)
  BY OthersSame
<1>2. Clearing(t) => Slot(raw[t])' = Slot(raw[t])
  BY DEF Slot, number_plus_one
<1>. QED
  BY <1>1, <1>2, PlacesFrame DEF Same

LEMMA ReadPutKeeps ==
  ASSUME TypeInv, RingInv, NEW t \in Threads, ReadPut(t)
  PROVE  RingInv'
<1>1. /\ pc[t] = "idle" /\ Goto(t, "get")
      /\ UNCHANGED <<put, get, indexes, raw, index, allocated, users, failed>>
  BY DEF ReadPut, ringVars
<1>2. pc'[t] = "get"
  BY <1>1, OthersSame
<1>3. /\ InRing(t)' <=> InRing(t)
      /\ Sees(t)
      /\ Storing(t)' <=> Storing(t)
      /\ Wrapping(t)' <=> Wrapping(t)
      /\ Clearing(t)' <=> Clearing(t)
  BY <1>1, <1>2
     DEF InRing, Sees, FindsNothing, Holds, Storing, Wrapping, Clearing
<1>4. Positions' /\ Ring'
  BY <1>1, <1>3, LocalStep DEF RingInv
<1>5. Places'
  BY <1>1, <1>3, PlacesOfStep DEF RingInv
<1>. QED
  BY <1>4, <1>5 DEF RingInv

\* An item read is that of the slot alone, which the thread now clears.
LEMMA ReadIndexKeeps ==
  ASSUME TypeInv, RingInv, NEW t \in Threads, ReadIndex(t)
  PROVE  RingInv'
<1>. DEFINE s == Slot(raw[t])
            i == indexes[s]
<1>1. pc[t] = "read" /\ s \in Slots
  BY SlotsOfThreads DEF ReadIndex, RingInv
<1>2. /\ index' = [index EXCEPT ![t] = i]
      /\ UNCHANGED <<put, get, indexes, allocated, users, raw, failed>>
  BY DEF ReadIndex, ringVars
<1>3. PICK label : /\ Goto(t, label)
                   /\ label \in {"restore", "wrap_get", "clear"}
                   /\ label = "restore" <=> i = INVALID
                   /\ label = "wrap_get" => raw[t] = M
                   /\ label = "clear" => raw[t] # M
  BY DEF ReadIndex, M
<1>4. pc'[t] = label /\ \A u \in Threads : u # t => Same(u)
  BY <1>2, <1>3, OthersSame
<1>5. \A u \in Threads : index'[u] = IF u = t THEN i ELSE index[u]
  BY <1>2 DEF TypeInv, PoolTypeOK
<1>6. FindsNothing(t) <=> i = INVALID
  BY <1>1 DEF FindsNothing
<1>7. /\ InRing(t)' <=> InRing(t)
      /\ FindsNothing(t)' <=> FindsNothing(t)
      /\ Storing(t)' <=> Storing(t)
      /\ Wrapping(t)' <=> Wrapping(t)
  <2>1. FindsNothing(t)' <=> label = "restore"
    BY <1>3, <1>4 DEF FindsNothing
  <2>2. raw'[t] = raw[t]
    BY <1>2
  <2>. HIDE DEF i, s
  <2>. QED
    BY <1>1, <1>3, <1>4, <1>6, <2>1, <2>2 DEF InRing, Storing, Wrapping, M, number_plus_one
<1>8. Sees(t)
  BY <1>7 DEF Sees, Holds
<1>9. Positions' /\ Ring'
  BY <1>1, <1>2, <1>3, <1>7, <1>8, LocalStep DEF RingInv
<1>10. index[t] = INVALID
  BY <1>1 DEF TypeInv, Carriers
<1>. HIDE DEF s
<1>11. ASSUME i = INVALID PROVE Places'
  <2>1. index' = index
    BY <1>2, <1>5, <1>10, <1>11 DEF TypeInv, PoolTypeOK
  <2>2. ~Clearing(t)' /\ ~Clearing(t)
    BY <1>1, <1>3, <1>4, <1>11 DEF Clearing
  <2>. QED
    BY <1>2, <1>3, <2>1, <2>2, PlacesOfStep DEF RingInv
<1>12. ASSUME i # INVALID PROVE Places'
  <2>1. Clearing(t)' /\ ~Clearing(t) /\ Slot(raw[t])' = s
    BY <1>1, <1>2, <1>3, <1>4, <1>12 DEF Clearing, Slot, number_plus_one, s
  <2>2. \A u \in Threads : u # t =>
          /\ Clearing(u)' <=> Clearing(u)
          /\ Slot(raw[u])' = Slot(raw[u])
    BY <1>4 DEF Same
\* Another thread with the item would be clearing the slot this one is at.
  <2>3. \A u \in Threads : index[u] # i
    <3>. SUFFICES ASSUME NEW u \in Threads, index[u] = i PROVE FALSE
      OBVIOUS
    <3>1. Clearing(u) /\ s = Slot(raw[u])
      BY <1>1, <1>12 DEF RingInv, Places
    <3>2. InRing(u) /\ InRing(t)
      BY <1>1, <3>1 DEF InRing, Clearing
    <3>3. u = t
      BY <3>1, <3>2 DEF RingInv, Positions, s
    <3>. QED
      BY <2>1, <3>1, <3>3
  <2>4. \A u, v \in Threads : index'[u] = index'[v] /\ index'[u] # INVALID => u = v
    BY <1>5, <2>3 DEF RingInv, Places
  <2>5. \A u \in Threads : Clearing(u)' => index'[u] = indexes[Slot(raw[u])']
    BY <1>5, <2>1, <2>2 DEF RingInv, Places
  <2>6. \A u \in Threads, r \in Slots : index'[u] = indexes[r] /\ index'[u] # INVALID =>
          Clearing(u)' /\ r = Slot(raw[u])'
    <3>1. \A r \in Slots : i = indexes[r] => r = s
      BY <1>1, <1>12 DEF RingInv, Places
    <3>. QED
      BY <1>5, <2>1, <2>2, <3>1 DEF RingInv, Places
  <2>7. \A j \in Items : users[j] = 1 => \A u \in Threads : index'[u] # j
    BY <1>1, <1>5 DEF RingInv, Places
  <2>8. \A j \in Items : \/ users[j] = 1
                         \/ \E r \in Slots : indexes[r] = j
                         \/ \E u \in Threads : index'[u] = j
    BY <1>5, <1>10 DEF RingInv, Places, Items, INVALID
  <2>. QED
    BY <1>2, <2>4, <2>5, <2>6, <2>7, <2>8
       DEF RingInv, Places, Slots, Items, INVALID
<1>. QED
  BY <1>9, <1>11, <1>12 DEF RingInv

\* `get` is put back to the slot of the thread: nobody came after it.
LEMMA RestoreKeeps ==
  ASSUME TypeInv, RingInv, NEW t \in Threads, Restore(t)
  PROVE  RingInv'
<1>1. /\ pc[t] = "restore" /\ Goto(t, "idle") /\ get' = get - 1
      /\ UNCHANGED <<put, indexes, allocated, users, index, failed>>
      /\ raw' = [raw EXCEPT ![t] = 0]
  BY DEF Restore
<1>2. \A u \in Threads : u # t => raw'[u] = raw[u]
  BY <1>1 DEF TypeInv, PoolTypeOK
<1>3. pc'[t] = "idle" /\ \A u \in Threads : u # t => Same(u) /\ Sees(u)
  BY <1>1, <1>2, OthersSame
<1>4. /\ InRing(t) /\ FindsNothing(t) /\ ~Holds(t) /\ ~Storing(t) /\ ~Clearing(t)
      /\ ~InRing(t)' /\ ~FindsNothing(t)' /\ ~Holds(t)' /\ ~Storing(t)'
      /\ ~Wrapping(t)' /\ ~Clearing(t)'
  BY <1>1, <1>3 DEF InRing, FindsNothing, Holds, Storing, Wrapping, Clearing
<1>5. /\ Slot(get - 1) = Slot(raw[t]) /\ get >= 1 /\ Head = Slot(get - 1)
      /\ \A u \in Threads : FindsNothing(u) => u = t
  BY <1>4, OneFindsNothing DEF RingInv
<1>6. \A u \in Threads : ~FindsNothing(u)'
  BY <1>3, <1>4, <1>5 DEF Sees
<1>7. Head' = Head /\ Tail' = Tail
  BY <1>1, <1>5, <1>6, Ends DEF Tail
<1>8. /\ get \in 0..(2 * M) /\ M \in Nat /\ M >= 2
      /\ Slot(M) = 0
      /\ Slot(get - 1) = IF get - 1 < M THEN get - 1 ELSE get - 1 - M
  <2>1. get \in 0..(2 * M) /\ M \in Nat /\ M >= 2
    BY SizeOfRing DEF RingInv, Positions
  <2>2. get - 1 \in 0..(2 * M) /\ get - 1 < 2 * M /\ M \in 0..(2 * M) /\ ~(M < M)
        /\ M < 2 * M /\ M - M = 0
    BY <1>5, <2>1
  <2>. QED
    BY <2>1, <2>2, SlotOfPosition
\* The wrap of `get` is still to come just when another thread is to make it.
<1>9. get' > M <=> \E u \in Threads : Wrapping(u)'
  <2>1. ASSUME get' > M PROVE \E u \in Threads : Wrapping(u)'
    <3>1. get > M /\ get - 1 > M
      BY <1>1, <1>8, <2>1
    <3>2. PICK w \in Threads : Wrapping(w)
      BY <3>1 DEF RingInv, Positions
    <3>3. w # t
      BY <1>5, <1>8, <3>1, <3>2 DEF Wrapping
    <3>. QED
      BY <1>3, <3>2, <3>3 DEF Same
  <2>2. ASSUME NEW w \in Threads, Wrapping(w)' PROVE get' > M
    <3>1. w # t /\ Wrapping(w)
      BY <1>3, <1>4, <2>2 DEF Same
    <3>2. get > M
      BY <3>1 DEF RingInv, Positions
    <3>3. InRing(w) /\ raw[w] = M
      BY <3>1 DEF Wrapping, InRing
    <3>4. Slot(raw[t]) # 0
      BY <1>4, <1>8, <3>1, <3>3 DEF RingInv, Positions
    <3>. QED
      BY <1>1, <1>5, <1>8, <3>2, <3>4
  <2>. QED
    BY <2>1, <2>2
<1>10. Positions'
  <2>1. get' \in 0..(2 * M)
    BY <1>1, <1>5, <1>8
  <2>2. \A u \in Threads :
          /\ pc'[u] = "wrap_get" => raw'[u] = M
          /\ InRing(u)' => raw'[u] \in 0..(2 * M - 1)
          /\ pc'[u] = "wrap_put" => raw'[u] = M /\ put' > M
          /\ Storing(u)' => raw'[u] \in 0..(2 * M - 1)
    BY <1>1, <1>3, <1>4 DEF RingInv, Positions, Same
  <2>3. \A u, v \in Threads :
          (InRing(u) /\ InRing(v) /\ Slot(raw[u]) = Slot(raw[v]))' => u = v
    BY <1>3, <1>4 DEF RingInv, Positions, Same
  <2>4. /\ put' > M => \E u \in Threads : pc'[u] = "wrap_put"
        /\ \A u, v \in Threads : pc'[u] = "wrap_put" /\ pc'[v] = "wrap_put" => u = v
    BY <1>1, <1>3 DEF RingInv, Positions, Same
  <2>. QED
    BY <1>1, <1>6, <1>9, <2>1, <2>2, <2>3, <2>4
       DEF RingInv, Positions, M, number_plus_one
<1>11. Ring'
  BY <1>1, <1>3, <1>4, <1>7, RingFrame DEF RingInv, Same, Sees
<1>12. Places'
  BY <1>1, <1>2, <1>4, PlacesOfStep DEF RingInv
<1>. QED
  BY <1>10, <1>11, <1>12 DEF RingInv

\* One round less is the same slot.
LEMMA WrapGetKeeps ==
  ASSUME TypeInv, RingInv, NEW t \in Threads, WrapGet(t)
  PROVE  RingInv'
<1>1. /\ pc[t] = "wrap_get" /\ Goto(t, "clear") /\ get' = get - M
      /\ UNCHANGED <<put, indexes, allocated, users, raw, index, failed>>
  BY DEF WrapGet, localVars, M
<1>2. pc'[t] = "clear" /\ \A u \in Threads : u # t => Same(u) /\ Sees(u)
  BY <1>1, OthersSame
<1>3. /\ InRing(t) /\ ~FindsNothing(t) /\ Holds(t) /\ ~Storing(t) /\ Clearing(t)
      /\ InRing(t)' /\ ~FindsNothing(t)' /\ Holds(t)' /\ ~Storing(t)'
      /\ ~Wrapping(t)' /\ Clearing(t)'
  BY <1>1, <1>2 DEF InRing, FindsNothing, Holds, Storing, Wrapping, Clearing
<1>4. Wrapping(t) /\ raw[t] = M
  BY <1>1 DEF RingInv, Positions, Wrapping
<1>5. get > M /\ get \in 0..(2 * M) /\ M \in Nat /\ M >= 2
  BY <1>4, SizeOfRing DEF RingInv, Positions
<1>6. get' \in 1..M /\ ~(get' > M)
  BY <1>1, <1>5
<1>7. \A u \in Threads : ~Wrapping(u)'
  <2>1. \A u \in Threads : Wrapping(u) => u = t
    BY <1>3, <1>4 DEF RingInv, Positions, Wrapping, InRing
  <2>. QED
    BY <1>2, <1>3, <2>1 DEF Same
<1>8. Slot(get') = Slot(get) /\ Slot(get' - 1) = Slot(get - 1)
  <2>1. /\ get \in 0..(2 * M) /\ get - 1 \in 0..(2 * M)
        /\ get' \in 0..(2 * M) /\ get' - 1 \in 0..(2 * M)
    <3>1. \A x \in 1..(2 * M) : x \in 0..(2 * M) /\ x - 1 \in 0..(2 * M)
      BY <1>5
    <3>2. get \in 1..(2 * M) /\ get' \in 1..(2 * M)
      BY <1>5, <1>6
    <3>. QED
      BY <3>1, <3>2
  <2>2. /\ Slot(get) = IF get < M THEN get ELSE IF get < 2 * M THEN get - M ELSE 0
        /\ Slot(get') = IF get' < M THEN get' ELSE IF get' < 2 * M THEN get' - M ELSE 0
    BY <2>1, SlotOfPosition
  <2>3. /\ Slot(get - 1) = IF get - 1 < M THEN get - 1
                           ELSE IF get - 1 < 2 * M THEN get - 1 - M ELSE 0
        /\ Slot(get' - 1) = IF get' - 1 < M THEN get' - 1
                            ELSE IF get' - 1 < 2 * M THEN get' - 1 - M ELSE 0
    BY <2>1, SlotOfPosition
  <2>. QED
    BY <1>1, <1>5, <1>6, <2>2, <2>3
<1>9. \A u \in Threads : /\ FindsNothing(u)' <=> FindsNothing(u)
                         /\ Holds(u)' <=> Holds(u)
                         /\ Slot(raw[u])' = Slot(raw[u])
  BY <1>1, <1>2, <1>3 DEF Sees, Slot, number_plus_one
<1>10. Head' = Head /\ Tail' = Tail
  BY <1>1, <1>8, <1>9, Ends DEF Head, Tail
<1>11. Positions'
  <2>1. get' \in 0..(2 * M)
    BY <1>5, <1>6
  <2>2. \A u \in Threads :
          /\ pc'[u] = "wrap_get" => raw'[u] = M
          /\ InRing(u)' => raw'[u] \in 0..(2 * M - 1)
          /\ pc'[u] = "wrap_put" => raw'[u] = M /\ put' > M
          /\ Storing(u)' => raw'[u] \in 0..(2 * M - 1)
    BY <1>1, <1>2, <1>3 DEF RingInv, Positions, Same
  <2>3. \A u \in Threads :
          FindsNothing(u)' => get' >= 1 /\ Slot(get' - 1) = Slot(raw[u])'
    BY <1>6, <1>8, <1>9 DEF RingInv, Positions
  <2>4. \A u, v \in Threads :
          (InRing(u) /\ InRing(v) /\ Slot(raw[u]) = Slot(raw[v]))' => u = v
    BY <1>2, <1>3, <1>9 DEF RingInv, Positions, Same
  <2>5. /\ put' > M => \E u \in Threads : pc'[u] = "wrap_put"
        /\ \A u, v \in Threads : pc'[u] = "wrap_put" /\ pc'[v] = "wrap_put" => u = v
    BY <1>1, <1>2 DEF RingInv, Positions, Same
  <2>. QED
    BY <1>1, <1>6, <1>7, <2>1, <2>2, <2>3, <2>4, <2>5
       DEF RingInv, Positions, M, number_plus_one, Slot
<1>12. Ring'
  BY <1>1, <1>2, <1>3, <1>9, <1>10, RingFrame DEF RingInv, Same
<1>13. Places'
  BY <1>1, <1>3, PlacesOfStep DEF RingInv
<1>. QED
  BY <1>11, <1>12, <1>13 DEF RingInv

\* The slot cleared is outside the queue, and no other thread is at it.
LEMMA ClearKeeps ==
  ASSUME TypeInv, RingInv, NEW t \in Threads, Clear(t)
  PROVE  RingInv'
<1>. DEFINE h == Slot(raw[t])
<1>1. /\ pc[t] = "clear" /\ Goto(t, "mark")
      /\ indexes' = [indexes EXCEPT ![h] = INVALID]
      /\ raw' = [raw EXCEPT ![t] = 0]
      /\ UNCHANGED <<put, get, allocated, users, index, failed>>
  BY DEF Clear
<1>2. \A u \in Threads : u # t => raw'[u] = raw[u]
  BY <1>1 DEF TypeInv, PoolTypeOK
<1>3. pc'[t] = "mark" /\ \A u \in Threads : u # t => Same(u)
  BY <1>1, <1>2, OthersSame
<1>4. /\ InRing(t) /\ ~FindsNothing(t) /\ Holds(t) /\ ~Storing(t) /\ Clearing(t)
      /\ ~Wrapping(t)
      /\ ~InRing(t)' /\ ~FindsNothing(t)' /\ ~Holds(t)' /\ ~Storing(t)'
      /\ ~Wrapping(t)' /\ ~Clearing(t)'
  BY <1>1, <1>3 DEF InRing, FindsNothing, Holds, Storing, Wrapping, Clearing
<1>5. h \in Slots /\ \A u \in Threads : Slot(raw[u]) \in Slots
  BY SlotsOfThreads DEF RingInv
<1>6. \A s \in Slots : indexes'[s] = IF s = h THEN INVALID ELSE indexes[s]
  BY <1>1, <1>5 DEF TypeInv, PoolTypeOK
<1>7. index[t] = indexes[h] /\ index[t] # INVALID
  BY <1>1, <1>4 DEF TypeInv, Carriers, RingInv, Places
<1>8. ~InQueue(h)
  BY <1>4 DEF RingInv, Ring
<1>9. \A u \in Threads : InRing(u) /\ u # t => Slot(raw[u]) # h
  BY <1>4 DEF RingInv, Positions
<1>. HIDE DEF h
<1>10. \A u \in Threads : u # t => Sees(u)
  <2>. SUFFICES ASSUME NEW u \in Threads, u # t PROVE Sees(u)
    OBVIOUS
  <2>1. InRing(u) => indexes'[Slot(raw[u])'] = indexes[Slot(raw[u])]
    BY <1>3, <1>5, <1>6, <1>9 DEF Same
  <2>2. FindsNothing(u)' <=>
          pc[u] = "restore" \/ (pc[u] = "read" /\ indexes'[Slot(raw[u])'] = INVALID)
    BY <1>3 DEF FindsNothing, Same, INVALID
  <2>3. FindsNothing(u)' <=> FindsNothing(u)
    BY <2>1, <2>2 DEF FindsNothing, InRing
  <2>. QED
    BY <1>3, <2>3 DEF Sees, Same, Holds
<1>11. \A u \in Threads : FindsNothing(u)' <=> FindsNothing(u)
  BY <1>4, <1>10 DEF Sees
<1>12. Head' = Head /\ Tail' = Tail
  BY <1>1, <1>11, Ends DEF Head, Tail
<1>13. ASSUME NEW s PROVE InQueue(s)' <=> InQueue(s)
  BY <1>12 DEF InQueue, Between
<1>14. Positions'
  <2>1. \A u \in Threads :
          /\ pc'[u] = "wrap_get" => raw'[u] = M
          /\ InRing(u)' => raw'[u] \in 0..(2 * M - 1)
          /\ pc'[u] = "wrap_put" => raw'[u] = M /\ put' > M
          /\ Storing(u)' => raw'[u] \in 0..(2 * M - 1)
    BY <1>1, <1>3, <1>4 DEF RingInv, Positions, Same
  <2>2. \A u \in Threads :
          FindsNothing(u)' => get' >= 1 /\ Slot(get' - 1) = Slot(raw[u])'
    BY <1>1, <1>3, <1>4, <1>11 DEF RingInv, Positions, Same
  <2>3. get' \in 0..(2 * M) /\ (get' > M <=> \E u \in Threads : Wrapping(u)')
    BY <1>1, <1>3, <1>4 DEF RingInv, Positions, Same
  <2>4. \A u, v \in Threads :
          (InRing(u) /\ InRing(v) /\ Slot(raw[u]) = Slot(raw[v]))' => u = v
    BY <1>3, <1>4 DEF RingInv, Positions, Same
  <2>5. /\ put' > M => \E u \in Threads : pc'[u] = "wrap_put"
        /\ \A u, v \in Threads : pc'[u] = "wrap_put" /\ pc'[v] = "wrap_put" => u = v
    BY <1>1, <1>3 DEF RingInv, Positions, Same
  <2>. QED
    BY <1>1, <2>1, <2>2, <2>3, <2>4, <2>5
       DEF RingInv, Positions, M, number_plus_one, Slot
<1>15. \A u \in Threads : Storing(u) => Slot(raw[u]) # h
  BY <1>8 DEF RingInv, Ring
<1>16. Ring'
  <2>1. ASSUME NEW s \in Slots, ~InQueue(s)', indexes'[s] # INVALID
        PROVE  \E u \in Threads : Holds(u)' /\ Slot(raw[u])' = s
    <3>1. s # h /\ ~InQueue(s) /\ indexes[s] # INVALID
      BY <1>6, <1>13, <2>1
    <3>2. PICK u \in Threads : Holds(u) /\ Slot(raw[u]) = s
      BY <3>1 DEF RingInv, Ring
    <3>3. u # t
      BY <3>1, <3>2 DEF h
    <3>. QED
      BY <1>3, <1>10, <3>2, <3>3 DEF Same, Sees
  <2>2. ASSUME NEW u \in Threads, Holds(u)' PROVE ~InQueue(Slot(raw[u]))'
    <3>1. u # t /\ Holds(u) /\ Slot(raw[u])' = Slot(raw[u])
      BY <1>3, <1>4, <1>10, <2>2 DEF Same, Sees
    <3>. QED
      BY <1>12, <3>1 DEF RingInv, Ring, InQueue, Between
  <2>3. ASSUME NEW s \in Slots, InQueue(s)', indexes'[s] = INVALID
        PROVE  \E u \in Threads : Storing(u)' /\ Slot(raw[u])' = s
    <3>1. s # h /\ InQueue(s) /\ indexes[s] = INVALID
      BY <1>6, <1>8, <1>13, <2>3
    <3>2. PICK u \in Threads : Storing(u) /\ Slot(raw[u]) = s
      BY <3>1 DEF RingInv, Ring
    <3>. QED
      BY <1>3, <1>4, <3>2 DEF Same
  <2>4. ASSUME NEW u \in Threads, Storing(u)'
        PROVE  InQueue(Slot(raw[u]))' /\ indexes'[Slot(raw[u])'] = INVALID
    <3>1. Storing(u) /\ Slot(raw[u])' = Slot(raw[u])
      BY <1>3, <1>4, <2>4 DEF Same
    <3>2. InQueue(Slot(raw[u])) /\ indexes'[Slot(raw[u])] = INVALID
      BY <1>5, <1>6, <3>1 DEF RingInv, Ring
    <3>. QED
      BY <1>12, <3>1, <3>2 DEF InQueue, Between
  <2>5. \A u, v \in Threads :
          (Storing(u) /\ Storing(v) /\ Slot(raw[u]) = Slot(raw[v]))' => u = v
    BY <1>3, <1>4 DEF RingInv, Ring, Same
  <2>. QED
    BY <2>1, <2>2, <2>3, <2>4, <2>5 DEF Ring, Slots
<1>17. Places'
  <2>1. \A u \in Threads : Clearing(u)' =>
          u # t /\ Clearing(u) /\ Slot(raw[u])' = Slot(raw[u]) /\ Slot(raw[u]) # h
    BY <1>3, <1>4, <1>9 DEF Same, Clearing, InRing
  <2>2. \A u \in Threads : Clearing(u)' => index[u] = indexes'[Slot(raw[u])']
    BY <1>5, <1>6, <2>1 DEF RingInv, Places
  <2>3. ASSUME NEW u \in Threads, NEW s \in Slots, index[u] = indexes'[s],
               index[u] # INVALID
        PROVE  Clearing(u)' /\ s = Slot(raw[u])'
    <3>1. s # h /\ indexes'[s] = indexes[s]
      BY <1>6, <2>3
    <3>2. Clearing(u) /\ s = Slot(raw[u])
      BY <2>3, <3>1 DEF RingInv, Places
    <3>3. u # t
      BY <3>1, <3>2 DEF h
    <3>. QED
      BY <1>3, <3>2, <3>3 DEF Same
  <2>4. \A r, s \in Slots : indexes'[r] = indexes'[s] /\ indexes'[r] # INVALID => r = s
    BY <1>6 DEF RingInv, Places
  <2>5. ASSUME NEW i \in Items
        PROVE  /\ users[i] = 1 => \A s \in Slots : indexes'[s] # i
               /\ \/ users[i] = 1
                  \/ \E s \in Slots : indexes'[s] = i
                  \/ \E u \in Threads : index[u] = i
    <3>1. i # INVALID
      BY DEF Items, INVALID
    <3>. QED
      BY <1>6, <1>7, <3>1 DEF RingInv, Places
  <2>. QED
    BY <1>1, <2>2, <2>3, <2>4, <2>5 DEF RingInv, Places, Slots, Items, INVALID
<1>. QED
  BY <1>14, <1>16, <1>17 DEF RingInv

LEMMA MarkKeeps ==
  ASSUME TypeInv, RingInv, NEW t \in Threads, Mark(t)
  PROVE  RingInv'
<1>. DEFINE i == index[t]
<1>1. pc[t] = "mark"
  BY DEF Mark
<1>2. i \in Items /\ i # INVALID
  BY <1>1 DEF TypeInv, PoolTypeOK, Carriers
<1>3. users[i] = 0 /\ i \notin allocated
  BY <1>2 DEF RingInv, Places
<1>. HIDE DEF i
<1>4. /\ failed' = failed /\ allocated' = allocated \cup {i}
      /\ users' = [users EXCEPT ![i] = @ + 1]
      /\ index' = [index EXCEPT ![t] = INVALID]
      /\ Goto(t, "idle") /\ UNCHANGED <<put, get, indexes, raw>>
  BY <1>3 DEF Mark, i, ringVars
<1>5. pc'[t] = "idle" /\ \A u \in Threads : u # t => Same(u)
  BY <1>4, OthersSame
<1>6. \A u \in Threads : index'[u] = IF u = t THEN INVALID ELSE index[u]
  BY <1>4 DEF TypeInv, PoolTypeOK
<1>7. \A j \in Items : users'[j] = IF j = i THEN 1 ELSE users[j]
  <2>1. users \in [Items -> Nat]
    BY DEF TypeInv, PoolTypeOK
  <2>2. users' = [users EXCEPT ![i] = 1]
    BY <1>2, <1>3, <1>4, <2>1
  <2>. QED
    BY <1>2, <2>1, <2>2
<1>8. /\ InRing(t)' <=> InRing(t)
      /\ Sees(t)
      /\ Storing(t)' <=> Storing(t)
      /\ Wrapping(t)' <=> Wrapping(t)
      /\ ~Clearing(t)' /\ ~Clearing(t)
  BY <1>1, <1>5
     DEF InRing, Sees, FindsNothing, Holds, Storing, Wrapping, Clearing
<1>9. Positions' /\ Ring'
  BY <1>1, <1>4, <1>8, LocalStep DEF RingInv
<1>10. Places'
  <2>1. \A u \in Threads : /\ Clearing(u)' <=> Clearing(u)
                           /\ Slot(raw[u])' = Slot(raw[u])
    BY <1>4, <1>5, <1>8 DEF Same, Slot, number_plus_one
  <2>2. \A u \in Threads : Clearing(u)' => index'[u] = indexes[Slot(raw[u])']
    BY <1>6, <1>8, <2>1 DEF RingInv, Places
  <2>3. \A u, v \in Threads : index'[u] = index'[v] /\ index'[u] # INVALID => u = v
    BY <1>6 DEF RingInv, Places
  <2>4. \A u \in Threads, s \in Slots : index'[u] = indexes[s] /\ index'[u] # INVALID =>
          Clearing(u)' /\ s = Slot(raw[u])'
    BY <1>6, <2>1 DEF RingInv, Places
  <2>5. \A s \in Slots : indexes[s] # i
    BY <1>2, <1>8 DEF RingInv, Places, i
  <2>6. \A u \in Threads : index'[u] # i
    BY <1>2, <1>6 DEF RingInv, Places, i
  <2>7. ASSUME NEW j \in Items
        PROVE  /\ users'[j] \in {0, 1}
               /\ users'[j] = 1 <=> j \in allocated'
               /\ users'[j] = 1 => /\ \A s \in Slots : indexes[s] # j
                                   /\ \A u \in Threads : index'[u] # j
    <3>1. j # INVALID
      BY DEF Items, INVALID
    <3>. QED
      BY <1>4, <1>6, <1>7, <2>5, <2>6, <3>1 DEF RingInv, Places
  <2>8. ASSUME NEW j \in Items
        PROVE  \/ users'[j] = 1
               \/ \E s \in Slots : indexes[s] = j
               \/ \E u \in Threads : index'[u] = j
    BY <1>6, <1>7 DEF RingInv, Places, i
  <2>. QED
    BY <1>4, <2>2, <2>3, <2>4, <2>7, <2>8 DEF RingInv, Places, Slots, Items, INVALID
<1>. QED
  BY <1>9, <1>10 DEF RingInv

\* Unless it overtakes another, the thread is alone at its slot.  When the slot
\* has an item the thread takes it off the queue.
LEMMA FetchAddGetKeeps ==
  ASSUME TypeInv, RingInv, NEW t \in Threads, FetchAddGet(t), ~overtaken'
  PROVE  RingInv'
<1>1. /\ pc[t] = "get" /\ get' = get + 1
      /\ raw' = [raw EXCEPT ![t] = get]
      /\ UNCHANGED <<put, indexes, allocated, users, index, failed>>
  BY DEF FetchAddGet
<1>2. PICK label \in {"restore", "read"} : Goto(t, label)
  BY DEF FetchAddGet
<1>3. \A u \in Threads : ~FindsNothing(u) /\ (InRing(u) => Slot(raw[u]) # Slot(get))
  BY DEF FetchAddGet, OvertakesAtGet
<1>4. raw'[t] = get /\ \A u \in Threads : u # t => raw'[u] = raw[u]
  BY <1>1 DEF TypeInv, PoolTypeOK
<1>5. pc'[t] = label /\ \A u \in Threads : u # t => Same(u) /\ Sees(u)
  BY <1>1, <1>2, <1>4, OthersSame
<1>6. /\ ~InRing(t) /\ ~Holds(t) /\ ~Storing(t) /\ ~Clearing(t) /\ ~Wrapping(t)
      /\ InRing(t)' /\ ~Storing(t)' /\ ~Clearing(t)' /\ pc'[t] # "wrap_get"
      /\ pc'[t] # "wrap_put" /\ pc[t] # "wrap_put"
      /\ Wrapping(t)' <=> get = M
      /\ Holds(t)' <=> ~FindsNothing(t)'
  BY <1>1, <1>4, <1>5
     DEF InRing, Holds, Storing, Clearing, Wrapping, M, number_plus_one
<1>7. Head = Slot(get) /\ Head \in Slots /\ Tail \in Slots
  BY <1>3, SlotsOfThreads DEF Head, RingInv
<1>8. get \in 0..(2 * M) /\ M \in Nat /\ M >= 2
  BY SizeOfRing DEF RingInv, Positions
\* Two rounds ahead is the slot of the thread that has still to wrap.
<1>9. get \in 0..(2 * M - 1)
  <2>. SUFFICES ASSUME get = 2 * M PROVE FALSE
    BY <1>8
  <2>1. PICK w \in Threads : Wrapping(w)
    BY <1>8 DEF RingInv, Positions
  <2>2. InRing(w) /\ raw[w] = M
    BY <2>1 DEF Wrapping, InRing
  <2>3. M \in 0..(2 * M) /\ 2 * M \in 0..(2 * M) /\ ~(2 * M < M) /\ M < 2 * M /\ M - M = 0
    BY <1>8
  <2>4. Slot(M) = 0 /\ Slot(2 * M) = 0
    BY <2>3, SlotOfPosition
  <2>. QED
    BY <1>3, <2>2, <2>4
<1>10. Slot(get') = After(Head) /\ Slot(get' - 1) = Head /\ Slot(raw[t])' = Head
  <2>1. get' - 1 = get /\ Slot(get') = After(Slot(get))
    BY <1>1, <1>9, NextPosition
  <2>2. Slot(raw[t])' = Slot(raw'[t])
    BY Ends
  <2>. QED
    BY <1>4, <1>7, <2>1, <2>2
<1>11. FindsNothing(t)' <=> label = "restore" \/ indexes[Head] = INVALID
  BY <1>1, <1>2, <1>5, <1>10 DEF FindsNothing, INVALID
<1>12. \A u \in Threads : u # t => ~FindsNothing(u)'
  BY <1>3, <1>5 DEF Sees
<1>13. get' \in 0..(2 * M) /\ (get' > M <=> \E u \in Threads : Wrapping(u)')
  <2>1. get' \in 0..(2 * M) /\ (get' > M <=> get = M \/ get > M)
    BY <1>1, <1>8, <1>9
  <2>2. get > M <=> \E u \in Threads : Wrapping(u)
    BY DEF RingInv, Positions
  <2>. QED
    BY <1>5, <1>6, <2>1, <2>2 DEF Same
<1>14. Positions'
  <2>1. \A u \in Threads :
          /\ pc'[u] = "wrap_get" => raw'[u] = M
          /\ InRing(u)' => raw'[u] \in 0..(2 * M - 1)
          /\ pc'[u] = "wrap_put" => raw'[u] = M /\ put' > M
          /\ Storing(u)' => raw'[u] \in 0..(2 * M - 1)
    BY <1>1, <1>4, <1>5, <1>6, <1>9 DEF RingInv, Positions, Same
  <2>2. \A u \in Threads :
          FindsNothing(u)' => get' >= 1 /\ Slot(get' - 1) = Slot(raw[u])'
    BY <1>1, <1>8, <1>10, <1>12
  <2>3. \A u, v \in Threads :
          (InRing(u) /\ InRing(v) /\ Slot(raw[u]) = Slot(raw[v]))' => u = v
    BY <1>3, <1>5, <1>6, <1>7, <1>10 DEF RingInv, Positions, Same
  <2>4. /\ put' > M => \E u \in Threads : pc'[u] = "wrap_put"
        /\ \A u, v \in Threads : pc'[u] = "wrap_put" /\ pc'[v] = "wrap_put" => u = v
    BY <1>1, <1>5, <1>6 DEF RingInv, Positions, Same
  <2>. QED
    BY <1>1, <1>13, <2>1, <2>2, <2>3, <2>4
       DEF RingInv, Positions, M, number_plus_one, Slot
<1>15. Places'
  BY <1>1, <1>2, <1>4, <1>6, PlacesOfStep DEF RingInv
<1>16. CASE FindsNothing(t)'
  <2>1. Head' = Head /\ Tail' = Tail
    BY <1>1, <1>10, <1>16, Ends DEF Tail
  <2>2. Ring'
    BY <1>1, <1>5, <1>6, <1>16, <2>1, RingFrame DEF RingInv, Same, Sees
  <2>. QED
    BY <1>14, <1>15, <2>2 DEF RingInv
<1>17. CASE ~FindsNothing(t)'
  <2>1. Head' = After(Head) /\ Tail' = Tail
    BY <1>1, <1>10, <1>12, <1>17, Ends DEF Tail
  <2>2. indexes[Head] # INVALID /\ Holds(t)'
    BY <1>6, <1>11, <1>17
  <2>3. InQueue(Head)
    <3>1. \A u \in Threads : Holds(u) => Slot(raw[u]) # Head
      BY <1>3, <1>7 DEF Holds
    <3>. QED
      BY <1>7, <2>2, <3>1 DEF RingInv, Ring
  <2>4. \A s \in Slots : InQueue(s)' <=> InQueue(s) /\ s # Head
    <3>1. ASSUME NEW s \in Slots
          PROVE  Between(After(Head), Tail, s) <=> Between(Head, Tail, s) /\ s # Head
      BY <1>7, <2>3, QueueMoves DEF InQueue
    <3>2. ASSUME NEW s PROVE InQueue(s)' <=> Between(Head', Tail', s)
      BY DEF InQueue, Between
    <3>. QED
      BY <2>1, <3>1, <3>2 DEF InQueue
  <2>5. \A u \in Threads : InQueue(Slot(raw[u]))' <=> Between(Head', Tail', Slot(raw[u])')
    BY DEF InQueue, Between
  <2>6. \A u \in Threads : Slot(raw[u]) \in Slots
    BY SlotsOfThreads DEF RingInv
  <2>7. \A s \in Slots : Between(Head', Tail', s) <=> InQueue(s) /\ s # Head
    BY <2>4 DEF InQueue, Between
  <2>8. Ring'
    <3>1. ASSUME NEW s \in Slots, ~InQueue(s)', indexes[s] # INVALID
          PROVE  \E u \in Threads : Holds(u)' /\ Slot(raw[u])' = s
      <4>1. CASE s = Head
        BY <1>10, <2>2, <4>1
      <4>2. CASE s # Head
        <5>1. PICK u \in Threads : Holds(u) /\ Slot(raw[u]) = s
          BY <2>4, <3>1, <4>2 DEF RingInv, Ring
        <5>. QED
          BY <1>5, <1>6, <5>1 DEF Same, Sees
      <4>. QED
        BY <4>1, <4>2
    <3>2. ASSUME NEW u \in Threads, Holds(u)' PROVE ~InQueue(Slot(raw[u]))'
      <4>1. CASE u = t
        BY <1>7, <1>10, <2>5, <2>7, <4>1
      <4>2. CASE u # t
        <5>1. Holds(u) /\ Slot(raw[u])' = Slot(raw[u])
          BY <1>5, <3>2, <4>2 DEF Same, Sees
        <5>. QED
          BY <2>5, <2>6, <2>7, <5>1 DEF RingInv, Ring
      <4>. QED
        BY <4>1, <4>2
    <3>3. ASSUME NEW s \in Slots, InQueue(s)', indexes[s] = INVALID
          PROVE  \E u \in Threads : Storing(u)' /\ Slot(raw[u])' = s
      <4>1. PICK u \in Threads : Storing(u) /\ Slot(raw[u]) = s
        BY <2>4, <3>3 DEF RingInv, Ring
      <4>. QED
        BY <1>5, <1>6, <4>1 DEF Same
    <3>4. ASSUME NEW u \in Threads, Storing(u)'
          PROVE  InQueue(Slot(raw[u]))' /\ indexes[Slot(raw[u])'] = INVALID
      <4>1. Storing(u) /\ Slot(raw[u])' = Slot(raw[u])
        BY <1>5, <1>6, <3>4 DEF Same
      <4>2. InQueue(Slot(raw[u])) /\ indexes[Slot(raw[u])] = INVALID
        BY <4>1 DEF RingInv, Ring
      <4>. QED
        BY <2>2, <2>5, <2>6, <2>7, <4>1, <4>2
    <3>5. \A u, v \in Threads :
            (Storing(u) /\ Storing(v) /\ Slot(raw[u]) = Slot(raw[v]))' => u = v
      BY <1>5, <1>6 DEF RingInv, Ring, Same
    <3>. QED
      BY <1>1, <3>1, <3>2, <3>3, <3>4, <3>5 DEF Ring, Slots
  <2>. QED
    BY <1>14, <1>15, <2>8 DEF RingInv
<1>. QED
  BY <1>16, <1>17

-----------------------------------------------------------------------------
(* The steps of memory_pools_free.                                         *)

LEMMA FreeKeeps ==
  ASSUME TypeInv, RingInv, NEW t \in Threads, NEW i \in Items, Free(t, i)
  PROVE  RingInv'
<1>1. pc[t] = "idle" /\ i # INVALID
  BY DEF Free, Items, INVALID
<1>2. users[i] = 1
  BY DEF Free, RingInv, Places
<1>3. /\ users' = [users EXCEPT ![i] = @ - 1] /\ allocated' = allocated \ {i}
      /\ index' = [index EXCEPT ![t] = i]
      /\ Goto(t, "put") /\ UNCHANGED <<put, get, indexes, raw, failed>>
  BY DEF Free, ringVars
<1>4. pc'[t] = "put" /\ \A u \in Threads : u # t => Same(u)
  BY <1>3, OthersSame
<1>5. \A u \in Threads : index'[u] = IF u = t THEN i ELSE index[u]
  BY <1>3 DEF TypeInv, PoolTypeOK
<1>6. \A j \in Items : users'[j] = IF j = i THEN 0 ELSE users[j]
  <2>1. users \in [Items -> Nat]
    BY DEF TypeInv, PoolTypeOK
  <2>2. users' = [users EXCEPT ![i] = 0]
    BY <1>2, <1>3, <2>1
  <2>. QED
    BY <2>1, <2>2
<1>7. /\ InRing(t)' <=> InRing(t)
      /\ Sees(t)
      /\ Storing(t)' <=> Storing(t)
      /\ Wrapping(t)' <=> Wrapping(t)
      /\ ~Clearing(t)' /\ ~Clearing(t)
  BY <1>1, <1>4
     DEF InRing, Sees, FindsNothing, Holds, Storing, Wrapping, Clearing
<1>8. Positions' /\ Ring'
  BY <1>1, <1>3, <1>7, LocalStep DEF RingInv
<1>9. Places'
  <2>1. \A u \in Threads : /\ Clearing(u)' <=> Clearing(u)
                           /\ Slot(raw[u])' = Slot(raw[u])
    BY <1>3, <1>4, <1>7 DEF Same, Slot, number_plus_one
  <2>2. index[t] = INVALID
    BY <1>1 DEF TypeInv, Carriers
  <2>3. (\A s \in Slots : indexes[s] # i) /\ (\A u \in Threads : index[u] # i)
    BY <1>2 DEF RingInv, Places
  <2>4. \A u, v \in Threads : index'[u] = index'[v] /\ index'[u] # INVALID => u = v
    BY <1>5, <2>3 DEF RingInv, Places
  <2>5. \A u \in Threads, s \in Slots :
          index'[u] = indexes[s] /\ index'[u] # INVALID =>
            Clearing(u)' /\ s = Slot(raw[u])'
    BY <1>5, <2>1, <2>3 DEF RingInv, Places
  <2>6. \A u \in Threads : Clearing(u)' => index'[u] = indexes[Slot(raw[u])']
    BY <1>5, <1>7, <2>1 DEF RingInv, Places
  <2>7. ASSUME NEW j \in Items
        PROVE  /\ users'[j] \in {0, 1}
               /\ users'[j] = 1 <=> j \in allocated'
               /\ users'[j] = 1 => /\ \A s \in Slots : indexes[s] # j
                                   /\ \A u \in Threads : index'[u] # j
    BY <1>3, <1>5, <1>6 DEF RingInv, Places
  <2>8. ASSUME NEW j \in Items
        PROVE  \/ users'[j] = 1
               \/ \E s \in Slots : indexes[s] = j
               \/ \E u \in Threads : index'[u] = j
    <3>1. j # INVALID
      BY DEF Items, INVALID
    <3>. QED
      BY <1>5, <1>6, <2>2, <3>1 DEF RingInv, Places
  <2>. QED
    BY <1>3, <2>4, <2>5, <2>6, <2>7, <2>8 DEF RingInv, Places, Slots, Items, INVALID
<1>. QED
  BY <1>8, <1>9 DEF RingInv

\* The thread that is about to store to a slot, and the item a slot stands for.
Storer(s) == CHOOSE t \in Threads : Storing(t) /\ Slot(raw[t]) = s
ItemOf(s) == IF indexes[s] # INVALID THEN indexes[s] ELSE index[Storer(s)]

\* The slots of the queue stand for different items, and for none that a thread
\* is still to find a slot for.
LEMMA ItemsOfQueue ==
  ASSUME TypeInv, RingInv, NEW t \in Threads, pc[t] = "put",
         NEW r \in Slots, InQueue(r), NEW s \in Slots, InQueue(s)
  PROVE  /\ ItemOf(r) \in Items \ {index[t]}
         /\ ItemOf(r) = ItemOf(s) => r = s
<1>1. ASSUME NEW q \in Slots, InQueue(q), indexes[q] = INVALID
      PROVE  /\ Storer(q) \in Threads /\ Storing(Storer(q))
             /\ Slot(raw[Storer(q)]) = q
  <2>1. \E u \in Threads : Storing(u) /\ Slot(raw[u]) = q
    BY <1>1 DEF RingInv, Ring
  <2>. QED
    BY <2>1 DEF Storer
<1>2. \A u \in Threads : Storing(u) => u # t /\ index[u] # INVALID /\ index[u] \in Items
                                       /\ ~Clearing(u)
  BY DEF Storing, TypeInv, PoolTypeOK, Carriers, Clearing
<1>3. index[t] # INVALID /\ ~Clearing(t)
  BY DEF TypeInv, Carriers, Clearing
<1>4. \A q \in Slots : indexes[q] # INVALID =>
        /\ indexes[q] \in Items /\ indexes[q] # index[t]
        /\ \A u \in Threads : Storing(u) => index[u] # indexes[q]
  BY <1>2, <1>3 DEF TypeInv, PoolTypeOK, RingInv, Places
<1>5. ItemOf(r) \in Items \ {index[t]}
  <2>1. CASE indexes[r] # INVALID
    BY <1>4, <2>1 DEF ItemOf
  <2>2. CASE indexes[r] = INVALID
    <3>1. Storer(r) \in Threads /\ Storing(Storer(r))
      BY <1>1, <2>2
    <3>2. index[Storer(r)] # index[t]
      BY <1>2, <1>3, <3>1 DEF RingInv, Places
    <3>. QED
      BY <1>2, <2>2, <3>1, <3>2 DEF ItemOf
  <2>. QED
    BY <2>1, <2>2
<1>6. ASSUME ItemOf(r) = ItemOf(s) PROVE r = s
  <2>1. CASE indexes[r] # INVALID /\ indexes[s] # INVALID
    BY <1>6, <2>1 DEF ItemOf, RingInv, Places
  <2>2. CASE indexes[r] # INVALID /\ indexes[s] = INVALID
    BY <1>1, <1>4, <1>6, <2>2 DEF ItemOf
  <2>3. CASE indexes[r] = INVALID /\ indexes[s] # INVALID
    BY <1>1, <1>4, <1>6, <2>3 DEF ItemOf
  <2>4. CASE indexes[r] = INVALID /\ indexes[s] = INVALID
    <3>1. /\ Storer(r) \in Threads /\ Storing(Storer(r)) /\ Slot(raw[Storer(r)]) = r
          /\ Storer(s) \in Threads /\ Storing(Storer(s)) /\ Slot(raw[Storer(s)]) = s
      BY <1>1, <2>4
    <3>2. index[Storer(r)] = index[Storer(s)]
      BY <1>6, <2>4 DEF ItemOf
    <3>3. Storer(r) = Storer(s)
      BY <1>2, <3>1, <3>2 DEF RingInv, Places
    <3>. QED
      BY <3>1, <3>3
  <2>. QED
    BY <2>1, <2>2, <2>3, <2>4
<1>. QED
  BY <1>5, <1>6

\* There is room for every item that is returned: the queue would hold all N of
\* them otherwise, and the returned one besides.
LEMMA RoomForReturned ==
  ASSUME TypeInv, RingInv, NEW t \in Threads, pc[t] = "put"
  PROVE  After(Tail) # Head
<1>. SUFFICES ASSUME After(Tail) = Head PROVE FALSE
  OBVIOUS
<1>. DEFINE Q == Slots \ {Tail}
            T == Items \ {index[t]}
            f == [s \in Q |-> ItemOf(s)]
<1>1. Tail \in Slots /\ Head \in Slots
  BY SlotsOfThreads DEF RingInv
<1>2. \A s \in Q : s \in Slots /\ InQueue(s)
  BY <1>1, QueueMoves DEF InQueue
<1>3. \A r, s \in Q : ItemOf(r) \in T /\ (ItemOf(r) = ItemOf(s) => r = s)
  BY <1>2, ItemsOfQueue
<1>4. f \in Injection(Q, T)
  <2>1. f \in [Q -> T]
    BY <1>3
  <2>2. \A r, s \in Q : f[r] = f[s] => r = s
    BY <1>3
  <2>. HIDE DEF f
  <2>. QED
    BY <2>1, <2>2 DEF Injection, IsInjective
<1>5. /\ IsFiniteSet(Slots) /\ Cardinality(Slots) = N + 1
      /\ IsFiniteSet(Items) /\ Cardinality(Items) = N
  <2>1. N \in Nat /\ N >= 1 /\ 0 \in Int /\ N \in Int /\ N - 1 \in Int
    BY MemoryPoolsAssumption
  <2>2. IsFiniteSet(0..N) /\ Cardinality(0..N) = IF 0 > N THEN 0 ELSE N - 0 + 1
    BY <2>1, FS_Interval, Zenon
  <2>3. /\ IsFiniteSet(0..(N - 1))
        /\ Cardinality(0..(N - 1)) = IF 0 > N - 1 THEN 0 ELSE (N - 1) - 0 + 1
    BY <2>1, FS_Interval, Zenon
  <2>4. Cardinality(0..N) = N + 1 /\ Cardinality(0..(N - 1)) = N
    BY <2>1, <2>2, <2>3
  <2>. QED
    BY <2>2, <2>3, <2>4 DEF Slots, Items
<1>6. index[t] \in Items
  BY DEF TypeInv, PoolTypeOK, Carriers
<1>7. IsFiniteSet(T) /\ Cardinality(Q) = N /\ Cardinality(T) = N - 1
  <2>1. /\ Cardinality(Q) = IF Tail \in Slots THEN Cardinality(Slots) - 1
                            ELSE Cardinality(Slots)
        /\ IsFiniteSet(T)
        /\ Cardinality(T) = IF index[t] \in Items THEN Cardinality(Items) - 1
                            ELSE Cardinality(Items)
    BY <1>5, FS_RemoveElement
  <2>. QED
    BY <1>1, <1>5, <1>6, <2>1, MemoryPoolsAssumption
<1>8. Cardinality(Q) <= Cardinality(T)
  <2>. HIDE DEF Q, T, f
  <2>. QED
    BY <1>4, <1>7, FS_Injection
<1>. QED
  BY <1>7, <1>8, MemoryPoolsAssumption

\* The slot taken was outside the queue and nobody is taking its item, so nobody
\* else stores to it.
LEMMA FetchAddPutKeeps ==
  ASSUME TypeInv, RingInv, NEW t \in Threads, FetchAddPut(t), ~overtaken'
  PROVE  RingInv'
<1>1. /\ pc[t] = "put" /\ raw' = [raw EXCEPT ![t] = put] /\ put' = put + 1
      /\ UNCHANGED <<get, indexes, allocated, users, index, failed>>
  BY DEF FetchAddPut
<1>2. PICK label : /\ Goto(t, label) /\ label \in {"wrap_put", "store"}
                   /\ label = "wrap_put" <=> put = M
  BY DEF FetchAddPut, M
<1>3. \A u \in Threads : Holds(u) => Slot(raw[u]) # Tail
  BY DEF FetchAddPut, OvertakesAtPut, Tail
<1>4. raw'[t] = put /\ \A u \in Threads : u # t => raw'[u] = raw[u]
  BY <1>1 DEF TypeInv, PoolTypeOK
<1>5. pc'[t] = label /\ \A u \in Threads : u # t => Same(u) /\ Sees(u)
  BY <1>1, <1>2, <1>4, OthersSame
<1>6. /\ ~InRing(t) /\ ~FindsNothing(t) /\ ~Holds(t) /\ ~Storing(t)
      /\ ~Clearing(t) /\ ~Wrapping(t)
      /\ ~InRing(t)' /\ ~FindsNothing(t)' /\ ~Holds(t)' /\ Storing(t)'
      /\ ~Clearing(t)' /\ ~Wrapping(t)'
      /\ pc'[t] # "wrap_get" /\ pc[t] # "wrap_put"
  BY <1>1, <1>2, <1>5
     DEF InRing, FindsNothing, Holds, Storing, Clearing, Wrapping
<1>7. After(Tail) # Head /\ Head \in Slots /\ Tail \in Slots
  BY <1>1, RoomForReturned, SlotsOfThreads DEF RingInv
<1>8. put \in 0..(2 * M - 1) /\ M \in Nat /\ M >= 2
  BY SizeOfRing DEF RingInv, Positions
\* While a wrap is pending the queue begins at slot 0 or after it.
<1>9. put # 2 * M - 1
  <2>. SUFFICES ASSUME put = 2 * M - 1 PROVE FALSE
    OBVIOUS
  <2>1. PICK u \in Threads : pc[u] = "wrap_put"
    BY <1>8 DEF RingInv, Positions
  <2>2. raw[u] = M /\ InQueue(Slot(raw[u]))
    BY <2>1 DEF RingInv, Positions, Ring, Storing
  <2>3. /\ M \in 0..(2 * M) /\ ~(M < M) /\ M < 2 * M /\ M - M = 0
        /\ put \in 0..(2 * M) /\ ~(put < M) /\ put < 2 * M /\ put - M = M - 1
    BY <1>8
  <2>4. Slot(M) = 0 /\ Slot(put) = M - 1
    BY <2>3, SlotOfPosition
  <2>5. InQueue(0) /\ Tail = M - 1
    BY <2>2, <2>4 DEF Tail
  <2>6. Head = 0
    BY <1>7, <1>8, <2>5, SizeOfRing DEF InQueue, Between
  <2>. QED
    BY <1>7, <1>8, <2>5, <2>6 DEF After
<1>10. put \in 0..(2 * M - 2) /\ put \in 0..(2 * M - 1) /\ put' \in 0..(2 * M - 1)
  BY <1>1, <1>8, <1>9
<1>11. Tail' = After(Tail) /\ Slot(raw[t])' = Tail
  <2>1. Slot(put') = After(Slot(put))
    BY <1>1, <1>10, NextPosition
  <2>. QED
    BY <1>4, <2>1, Ends DEF Tail
<1>12. \A u \in Threads : /\ FindsNothing(u)' <=> FindsNothing(u)
                          /\ Holds(u)' <=> Holds(u)
                          /\ Wrapping(u)' <=> Wrapping(u)
                          /\ InRing(u)' <=> InRing(u)
  BY <1>5, <1>6 DEF Same, Sees
<1>13. Head' = Head
  BY <1>1, <1>12, Ends DEF Head
<1>14. Positions'
  <2>1. \A u \in Threads :
          /\ pc'[u] = "wrap_get" => raw'[u] = M
          /\ InRing(u)' => raw'[u] \in 0..(2 * M - 1)
    BY <1>5, <1>6 DEF RingInv, Positions, Same
  <2>2. \A u \in Threads :
          FindsNothing(u)' => get' >= 1 /\ Slot(get' - 1) = Slot(raw[u])'
    BY <1>1, <1>5, <1>6, <1>12 DEF RingInv, Positions, Same
  <2>3. get' \in 0..(2 * M) /\ (get' > M <=> \E u \in Threads : Wrapping(u)')
    BY <1>1, <1>12 DEF RingInv, Positions
  <2>4. \A u, v \in Threads :
          (InRing(u) /\ InRing(v) /\ Slot(raw[u]) = Slot(raw[v]))' => u = v
    BY <1>5, <1>6 DEF RingInv, Positions, Same
  <2>5. ASSUME NEW u \in Threads
        PROVE  /\ pc'[u] = "wrap_put" => raw'[u] = M /\ put' > M
               /\ Storing(u)' => raw'[u] \in 0..(2 * M - 1)
    <3>1. CASE u = t
      BY <1>1, <1>2, <1>4, <1>5, <1>8, <1>10, <3>1
    <3>2. CASE u # t
      <4>1. pc[u] = "wrap_put" => put + 1 > M
        BY <1>8 DEF RingInv, Positions
      <4>. QED
        BY <1>1, <1>5, <3>2, <4>1 DEF RingInv, Positions, Same
    <3>. QED
      BY <3>1, <3>2
  <2>6. put' > M => \E u \in Threads : pc'[u] = "wrap_put"
    <3>1. CASE put = M
      BY <1>2, <1>5, <3>1
    <3>2. CASE put > M
      BY <1>5, <1>6, <3>2 DEF RingInv, Positions, Same
    <3>. QED
      BY <1>1, <1>8, <3>1, <3>2
  <2>7. \A u, v \in Threads : pc'[u] = "wrap_put" /\ pc'[v] = "wrap_put" => u = v
    <3>1. label = "wrap_put" => \A u \in Threads : pc[u] # "wrap_put"
      BY <1>2, <1>8 DEF RingInv, Positions
    <3>. QED
      BY <1>5, <3>1 DEF RingInv, Positions, Same
  <2>. QED
    BY <1>1, <1>10, <2>1, <2>2, <2>3, <2>4, <2>5, <2>6, <2>7
       DEF RingInv, Positions, M, number_plus_one, Slot
<1>15. Places'
  BY <1>1, <1>2, <1>4, <1>6, PlacesOfStep DEF RingInv
<1>16. \A s \in Slots : Between(Head', Tail', s) <=> InQueue(s) \/ s = Tail
  BY <1>7, <1>11, <1>13, QueueMoves DEF InQueue
<1>17. /\ \A s : InQueue(s)' <=> Between(Head', Tail', s)
       /\ \A u \in Threads : InQueue(Slot(raw[u]))' <=> Between(Head', Tail', Slot(raw[u])')
       /\ \A u \in Threads : Slot(raw[u]) \in Slots
  BY SlotsOfThreads DEF InQueue, Between, RingInv
<1>18. ~InQueue(Tail) /\ indexes[Tail] = INVALID
  <2>1. ~InQueue(Tail)
    BY <1>7, QueueMoves DEF InQueue
  <2>. QED
    BY <1>3, <1>7, <2>1 DEF RingInv, Ring
<1>19. Ring'
  <2>1. ASSUME NEW s \in Slots, ~InQueue(s)', indexes[s] # INVALID
        PROVE  \E u \in Threads : Holds(u)' /\ Slot(raw[u])' = s
    <3>1. PICK u \in Threads : Holds(u) /\ Slot(raw[u]) = s
      BY <1>16, <1>17, <2>1 DEF RingInv, Ring
    <3>. QED
      BY <1>5, <1>6, <3>1 DEF Same, Sees
  <2>2. ASSUME NEW u \in Threads, Holds(u)' PROVE ~InQueue(Slot(raw[u]))'
    <3>1. u # t /\ Holds(u) /\ Slot(raw[u])' = Slot(raw[u])
      BY <1>5, <1>6, <2>2 DEF Same, Sees
    <3>. QED
      BY <1>3, <1>16, <1>17, <3>1 DEF RingInv, Ring
  <2>3. ASSUME NEW s \in Slots, InQueue(s)', indexes[s] = INVALID
        PROVE  \E u \in Threads : Storing(u)' /\ Slot(raw[u])' = s
    <3>1. CASE s = Tail
      BY <1>6, <1>11, <3>1
    <3>2. CASE s # Tail
      <4>1. PICK u \in Threads : Storing(u) /\ Slot(raw[u]) = s
        BY <1>16, <1>17, <2>3, <3>2 DEF RingInv, Ring
      <4>. QED
        BY <1>5, <1>6, <4>1 DEF Same
    <3>. QED
      BY <3>1, <3>2
  <2>4. ASSUME NEW u \in Threads, Storing(u)'
        PROVE  InQueue(Slot(raw[u]))' /\ indexes[Slot(raw[u])'] = INVALID
    <3>1. CASE u = t
      BY <1>7, <1>11, <1>16, <1>17, <1>18, <3>1
    <3>2. CASE u # t
      <4>1. Storing(u) /\ Slot(raw[u])' = Slot(raw[u])
        BY <1>5, <2>4, <3>2 DEF Same
      <4>. QED
        BY <1>16, <1>17, <4>1 DEF RingInv, Ring
    <3>. QED
      BY <3>1, <3>2
  <2>5. \A u, v \in Threads :
          (Storing(u) /\ Storing(v) /\ Slot(raw[u]) = Slot(raw[v]))' => u = v
    <3>1. \A u \in Threads : Storing(u) => Slot(raw[u]) # Tail
      BY <1>18 DEF RingInv, Ring
    <3>. QED
      BY <1>5, <1>6, <1>11, <3>1 DEF RingInv, Ring, Same
  <2>. QED
    BY <1>1, <2>1, <2>2, <2>3, <2>4, <2>5 DEF Ring, Slots
<1>. QED
  BY <1>14, <1>15, <1>19 DEF RingInv

LEMMA WrapPutKeeps ==
  ASSUME TypeInv, RingInv, NEW t \in Threads, WrapPut(t)
  PROVE  RingInv'
<1>1. /\ pc[t] = "wrap_put" /\ Goto(t, "store") /\ put' = put - M
      /\ UNCHANGED <<get, indexes, allocated, users, raw, index, failed>>
  BY DEF WrapPut, localVars, M
<1>2. pc'[t] = "store" /\ \A u \in Threads : u # t => Same(u) /\ Sees(u)
  BY <1>1, OthersSame
<1>3. /\ ~InRing(t) /\ ~FindsNothing(t) /\ ~Holds(t) /\ Storing(t)
      /\ ~Clearing(t) /\ ~Wrapping(t)
      /\ ~InRing(t)' /\ ~FindsNothing(t)' /\ ~Holds(t)' /\ Storing(t)'
      /\ ~Clearing(t)' /\ ~Wrapping(t)'
  BY <1>1, <1>2 DEF InRing, FindsNothing, Holds, Storing, Clearing, Wrapping
<1>4. put > M /\ put \in 0..(2 * M - 1) /\ M \in Nat /\ M >= 2
  BY <1>1, SizeOfRing DEF RingInv, Positions
<1>5. put' \in 1..(M - 1) /\ put' \in 0..(2 * M - 1) /\ ~(put' > M)
  BY <1>1, <1>4
<1>6. \A u \in Threads : /\ FindsNothing(u)' <=> FindsNothing(u)
                         /\ Holds(u)' <=> Holds(u)
                         /\ Wrapping(u)' <=> Wrapping(u)
                         /\ InRing(u)' <=> InRing(u)
                         /\ Storing(u)' <=> Storing(u)
                         /\ Slot(raw[u])' = Slot(raw[u])
  BY <1>1, <1>2, <1>3 DEF Same, Sees, Slot, number_plus_one
<1>7. Head' = Head /\ Tail' = Tail
  <2>1. Slot(put') = Slot(put)
    <3>1. /\ put' \in 0..(2 * M) /\ put' < M
          /\ put \in 0..(2 * M) /\ ~(put < M) /\ put < 2 * M
      BY <1>4, <1>5
    <3>. QED
      BY <1>1, <3>1, SlotOfPosition
  <2>. QED
    BY <1>1, <1>6, <2>1, Ends DEF Head, Tail
<1>8. Positions'
  <2>1. \A u \in Threads : pc'[u] # "wrap_put"
    BY <1>1, <1>2 DEF RingInv, Positions, Same
  <2>2. \A u \in Threads :
          /\ pc'[u] = "wrap_get" => raw'[u] = M
          /\ InRing(u)' => raw'[u] \in 0..(2 * M - 1)
          /\ Storing(u)' => raw'[u] \in 0..(2 * M - 1)
          /\ FindsNothing(u)' => get' >= 1 /\ Slot(get' - 1) = Slot(raw[u])'
    BY <1>1, <1>2, <1>6 DEF RingInv, Positions, Same
  <2>3. get' \in 0..(2 * M) /\ (get' > M <=> \E u \in Threads : Wrapping(u)')
    BY <1>1, <1>6 DEF RingInv, Positions
  <2>4. \A u, v \in Threads :
          (InRing(u) /\ InRing(v) /\ Slot(raw[u]) = Slot(raw[v]))' => u = v
    BY <1>6 DEF RingInv, Positions
  <2>. QED
    BY <1>1, <1>5, <2>1, <2>2, <2>3, <2>4
       DEF RingInv, Positions, M, number_plus_one, Slot
<1>9. Ring'
  BY <1>1, <1>6, <1>7, RingFrame DEF RingInv
<1>10. Places'
  BY <1>1, <1>3, PlacesOfStep DEF RingInv
<1>. QED
  BY <1>8, <1>9, <1>10 DEF RingInv

\* The check on the slot holds, and the item becomes available: at once to the
\* thread that was at the empty slot and has not read it yet, if there is one.
LEMMA StoreKeeps ==
  ASSUME TypeInv, RingInv, NEW t \in Threads, Store(t)
  PROVE  RingInv'
<1>. DEFINE h == Slot(raw[t])
<1>1. pc[t] = "store" /\ Storing(t)
  BY DEF Store, Storing
<1>2. h \in Slots /\ InQueue(h) /\ indexes[h] = INVALID
  BY <1>1, SlotsOfThreads DEF RingInv, Ring
<1>3. /\ indexes' = [indexes EXCEPT ![h] = index[t]] /\ failed' = failed
      /\ index' = [index EXCEPT ![t] = INVALID] /\ Goto(t, "idle")
      /\ raw' = [raw EXCEPT ![t] = 0]
      /\ UNCHANGED <<put, get, allocated, users>>
  BY <1>2 DEF Store
<1>4. \A u \in Threads : u # t => raw'[u] = raw[u]
  BY <1>3 DEF TypeInv, PoolTypeOK
<1>5. pc'[t] = "idle" /\ \A u \in Threads : u # t => Same(u)
  BY <1>3, <1>4, OthersSame
<1>6. \A s \in Slots : indexes'[s] = IF s = h THEN index[t] ELSE indexes[s]
  BY <1>2, <1>3 DEF TypeInv, PoolTypeOK
<1>7. \A u \in Threads : index'[u] = IF u = t THEN INVALID ELSE index[u]
  BY <1>3 DEF TypeInv, PoolTypeOK
<1>8. index[t] # INVALID
  BY <1>1 DEF TypeInv, Carriers
<1>9. /\ ~InRing(t) /\ ~FindsNothing(t) /\ ~Holds(t) /\ ~Clearing(t) /\ ~Wrapping(t)
      /\ ~InRing(t)' /\ ~FindsNothing(t)' /\ ~Holds(t)' /\ ~Storing(t)'
      /\ ~Clearing(t)' /\ ~Wrapping(t)'
      /\ pc'[t] # "wrap_put" /\ pc[t] # "wrap_put"
  BY <1>1, <1>5 DEF InRing, FindsNothing, Holds, Storing, Clearing, Wrapping
<1>10. /\ \A u \in Threads : Slot(raw[u]) \in Slots
       /\ Head \in Slots /\ Tail \in Slots
  BY SlotsOfThreads DEF RingInv
<1>11. \A u \in Threads : Storing(u) /\ u # t => Slot(raw[u]) # h
  BY <1>1 DEF RingInv, Ring
<1>. HIDE DEF h
\* The thread that has landed on the slot now finds the item there.
<1>12. \A u \in Threads :
         FindsNothing(u)' <=> FindsNothing(u) /\ ~(pc[u] = "read" /\ Slot(raw[u]) = h)
  <2>. SUFFICES ASSUME NEW u \in Threads
                PROVE  FindsNothing(u)' <=>
                         FindsNothing(u) /\ ~(pc[u] = "read" /\ Slot(raw[u]) = h)
    OBVIOUS
  <2>1. CASE u = t
    BY <1>9, <2>1
  <2>2. CASE u # t
    <3>1. FindsNothing(u)' <=>
            pc[u] = "restore" \/ (pc[u] = "read" /\ indexes'[Slot(raw[u])] = INVALID)
      BY <1>5, <2>2 DEF FindsNothing, Same, INVALID
    <3>2. indexes'[Slot(raw[u])] =
            IF Slot(raw[u]) = h THEN index[t] ELSE indexes[Slot(raw[u])]
      BY <1>6, <1>10
    <3>. QED
      BY <1>8, <3>1, <3>2 DEF FindsNothing
  <2>. QED
    BY <2>1, <2>2
<1>13. \A u \in Threads :
         /\ InRing(u)' <=> InRing(u)
         /\ Wrapping(u)' <=> Wrapping(u)
         /\ Clearing(u)' <=> Clearing(u)
         /\ InRing(u) \/ (Storing(u) /\ u # t) => Slot(raw[u])' = Slot(raw[u])
         /\ Storing(u)' <=> Storing(u) /\ u # t
  BY <1>5, <1>9 DEF Same
<1>14. \A u \in Threads :
         Holds(u)' <=> Holds(u) \/ (FindsNothing(u) /\ pc[u] = "read" /\ Slot(raw[u]) = h)
  BY <1>12, <1>13 DEF Holds, FindsNothing, InRing
<1>15. Positions'
  <2>1. \A u \in Threads :
          /\ pc'[u] = "wrap_get" => raw'[u] = M
          /\ InRing(u)' => raw'[u] \in 0..(2 * M - 1)
          /\ pc'[u] = "wrap_put" => raw'[u] = M /\ put' > M
          /\ Storing(u)' => raw'[u] \in 0..(2 * M - 1)
    BY <1>3, <1>5, <1>9 DEF RingInv, Positions, Same
  <2>2. \A u \in Threads :
          FindsNothing(u)' => get' >= 1 /\ Slot(get' - 1) = Slot(raw[u])'
    <3>1. \A u \in Threads : FindsNothing(u) => InRing(u)
      BY DEF FindsNothing, InRing
    <3>. QED
      BY <1>3, <1>12, <1>13, <3>1 DEF RingInv, Positions
  <2>3. get' \in 0..(2 * M) /\ (get' > M <=> \E u \in Threads : Wrapping(u)')
    BY <1>3, <1>13 DEF RingInv, Positions
  <2>4. \A u, v \in Threads :
          (InRing(u) /\ InRing(v) /\ Slot(raw[u]) = Slot(raw[v]))' => u = v
    BY <1>13 DEF RingInv, Positions
  <2>5. /\ put' > M => \E u \in Threads : pc'[u] = "wrap_put"
        /\ \A u, v \in Threads : pc'[u] = "wrap_put" /\ pc'[v] = "wrap_put" => u = v
    BY <1>3, <1>5, <1>9 DEF RingInv, Positions, Same
  <2>6. put' \in 0..(2 * M - 1)
    BY <1>3 DEF RingInv, Positions
  <2>. QED
    BY <2>1, <2>2, <2>3, <2>4, <2>5, <2>6 DEF Positions, M, number_plus_one, Slot
\* The item is taken at once, or it is in the queue.
<1>16. \/ /\ \A u \in Threads : Holds(u)' <=> Holds(u)
          /\ \A s \in Slots : InQueue(s)' <=> InQueue(s)
       \/ \E f \in Threads :
            /\ Slot(raw[f]) = h /\ Holds(f)'
            /\ \A u \in Threads : u # f => (Holds(u)' <=> Holds(u))
            /\ \A s \in Slots : InQueue(s)' <=> InQueue(s) /\ s # h
  <2>1. ASSUME NEW s \in Slots PROVE InQueue(s)' <=> Between(Head', Tail', s)
    BY DEF InQueue, Between
  <2>2. Tail' = Tail
    BY <1>3, Ends DEF Tail
  <2>3. CASE \E f \in Threads : FindsNothing(f) /\ pc[f] = "read" /\ Slot(raw[f]) = h
    <3>1. PICK f \in Threads : FindsNothing(f) /\ pc[f] = "read" /\ Slot(raw[f]) = h
      BY <2>3
    <3>2. /\ Slot(get - 1) = h /\ get >= 1 /\ Head = h
          /\ \A u \in Threads : FindsNothing(u) => u = f
      BY <3>1, OneFindsNothing DEF RingInv
    <3>3. \A u \in Threads : ~FindsNothing(u)'
      BY <1>12, <3>1, <3>2
    <3>4. Slot(get) = After(h)
      <4>1. get \in 0..(2 * M) /\ M \in Nat /\ M >= 2
        BY SizeOfRing DEF RingInv, Positions
      <4>2. get - 1 \in 0..(2 * M - 1) /\ get = (get - 1) + 1
        BY <3>2, <4>1
      <4>. QED
        BY <3>2, <4>2, NextPosition
    <3>5. Head' = After(h)
      BY <1>3, <3>3, <3>4, Ends
    <3>6. \A s \in Slots : InQueue(s)' <=> InQueue(s) /\ s # h
      <4>1. ASSUME NEW s \in Slots
            PROVE  Between(After(h), Tail, s) <=> Between(h, Tail, s) /\ s # h
        BY <1>2, <1>10, <3>2, QueueMoves DEF InQueue
      <4>. QED
        BY <2>1, <2>2, <3>2, <3>5, <4>1 DEF InQueue
    <3>7. Holds(f)' /\ \A u \in Threads : u # f => (Holds(u)' <=> Holds(u))
      BY <1>14, <3>1, <3>2
    <3>. QED
      BY <3>1, <3>6, <3>7
  <2>4. CASE \A f \in Threads : ~(FindsNothing(f) /\ pc[f] = "read" /\ Slot(raw[f]) = h)
    <3>1. \A u \in Threads : /\ FindsNothing(u)' <=> FindsNothing(u)
                             /\ Holds(u)' <=> Holds(u)
      BY <1>12, <1>14, <2>4
    <3>2. Head' = Head
      BY <1>3, <3>1, Ends DEF Head
    <3>. QED
      BY <2>1, <2>2, <3>1, <3>2 DEF InQueue
  <2>. QED
    BY <2>3, <2>4
<1>17. \A u \in Threads : (Holds(u) \/ Holds(u)' => InRing(u))
  BY <1>13 DEF Holds
<1>18. \A u \in Threads : InQueue(Slot(raw[u]))' <=> Between(Head', Tail', Slot(raw[u])')
  BY DEF InQueue, Between
<1>19. \A s \in Slots : InQueue(s)' <=> Between(Head', Tail', s)
  BY DEF InQueue, Between
<1>20. Ring'
  <2>1. ASSUME NEW s \in Slots, ~InQueue(s)', indexes'[s] # INVALID
        PROVE  \E u \in Threads : Holds(u)' /\ Slot(raw[u])' = s
    <3>1. CASE s = h
      <4>1. PICK f \in Threads : Slot(raw[f]) = h /\ Holds(f)'
        BY <1>2, <1>16, <2>1, <3>1
      <4>. QED
        BY <1>13, <1>17, <3>1, <4>1
    <3>2. CASE s # h
      <4>1. ~InQueue(s) /\ indexes[s] # INVALID
        BY <1>6, <1>16, <2>1, <3>2
      <4>2. PICK u \in Threads : Holds(u) /\ Slot(raw[u]) = s
        BY <4>1 DEF RingInv, Ring
      <4>. QED
        BY <1>13, <1>14, <1>17, <4>2
    <3>. QED
      BY <3>1, <3>2
  <2>2. ASSUME NEW u \in Threads, Holds(u)' PROVE ~InQueue(Slot(raw[u]))'
    <3>1. Slot(raw[u])' = Slot(raw[u]) /\ Slot(raw[u]) \in Slots
      BY <1>10, <1>13, <1>17, <2>2
    <3>2. Holds(u) => ~InQueue(Slot(raw[u]))
      BY DEF RingInv, Ring
    <3>3. ~Between(Head', Tail', Slot(raw[u]))
      BY <1>16, <1>19, <2>2, <3>1, <3>2
    <3>. QED
      BY <1>18, <3>1, <3>3
  <2>3. ASSUME NEW s \in Slots, InQueue(s)', indexes'[s] = INVALID
        PROVE  \E u \in Threads : Storing(u)' /\ Slot(raw[u])' = s
    <3>1. s # h /\ indexes[s] = INVALID /\ InQueue(s)
      BY <1>6, <1>8, <1>16, <2>3
    <3>2. PICK u \in Threads : Storing(u) /\ Slot(raw[u]) = s
      BY <3>1 DEF RingInv, Ring
    <3>3. u # t
      BY <3>1, <3>2 DEF h
    <3>. QED
      BY <1>13, <3>2, <3>3
  <2>4. ASSUME NEW u \in Threads, Storing(u)'
        PROVE  InQueue(Slot(raw[u]))' /\ indexes'[Slot(raw[u])'] = INVALID
    <3>1. Storing(u) /\ u # t /\ Slot(raw[u])' = Slot(raw[u]) /\ Slot(raw[u]) # h
          /\ Slot(raw[u]) \in Slots
      BY <1>10, <1>11, <1>13, <2>4
    <3>2. InQueue(Slot(raw[u])) /\ indexes[Slot(raw[u])] = INVALID
      BY <3>1 DEF RingInv, Ring
    <3>3. Between(Head', Tail', Slot(raw[u]))
      BY <1>16, <1>19, <3>1, <3>2
    <3>. QED
      BY <1>6, <1>18, <3>1, <3>2, <3>3
  <2>5. \A u, v \in Threads :
          (Storing(u) /\ Storing(v) /\ Slot(raw[u]) = Slot(raw[v]))' => u = v
    BY <1>13 DEF RingInv, Ring
  <2>. QED
    BY <2>1, <2>2, <2>3, <2>4, <2>5 DEF Ring, Slots
<1>21. Places'
  <2>1. \A u \in Threads : Clearing(u) => u # t /\ InRing(u) /\ Holds(u)
    BY <1>9 DEF Clearing, InRing, Holds, FindsNothing
  <2>2. \A u \in Threads : Clearing(u) => Slot(raw[u]) # h
    BY <1>2, <2>1 DEF RingInv, Ring
  <2>3. \A u \in Threads : Clearing(u)' => index'[u] = indexes'[Slot(raw[u])']
    BY <1>6, <1>7, <1>10, <1>13, <2>1, <2>2 DEF RingInv, Places
  <2>4. \A s \in Slots : indexes[s] # index[t]
    BY <1>8, <1>9 DEF RingInv, Places
  <2>5. \A r, s \in Slots : indexes'[r] = indexes'[s] /\ indexes'[r] # INVALID => r = s
    BY <1>6, <2>4 DEF RingInv, Places
  <2>6. \A u, v \in Threads : index'[u] = index'[v] /\ index'[u] # INVALID => u = v
    BY <1>7 DEF RingInv, Places
  <2>7. \A u \in Threads : u # t => index[u] # index[t]
    BY <1>8 DEF RingInv, Places
  <2>8. \A u \in Threads, s \in Slots :
          index'[u] = indexes'[s] /\ index'[u] # INVALID =>
            Clearing(u)' /\ s = Slot(raw[u])'
    BY <1>6, <1>7, <1>13, <2>1, <2>7 DEF RingInv, Places
  <2>9. ASSUME NEW j \in Items
        PROVE  /\ users[j] = 1 => /\ \A s \in Slots : indexes'[s] # j
                                  /\ \A u \in Threads : index'[u] # j
               /\ \/ users[j] = 1
                  \/ \E s \in Slots : indexes'[s] = j
                  \/ \E u \in Threads : index'[u] = j
    <3>1. j # INVALID
      BY DEF Items, INVALID
    <3>2. users[j] = 1 => /\ \A s \in Slots : indexes'[s] # j
                          /\ \A u \in Threads : index'[u] # j
      BY <1>6, <1>7, <3>1 DEF RingInv, Places
    <3>3. ASSUME NEW s \in Slots, indexes[s] = j PROVE indexes'[s] = j
      BY <1>2, <1>6, <3>1, <3>3
    <3>4. ASSUME NEW u \in Threads, index[u] = j
          PROVE  index'[u] = j \/ indexes'[h] = j
      BY <1>2, <1>6, <1>7, <3>4
    <3>. QED
      BY <1>2, <3>2, <3>3, <3>4 DEF RingInv, Places
  <2>. QED
    BY <1>3, <2>3, <2>5, <2>6, <2>8, <2>9 DEF RingInv, Places, Slots, Items, INVALID
<1>. QED
  BY <1>15, <1>20, <1>21 DEF RingInv

-----------------------------------------------------------------------------
(* The invariant.                                                          *)

\* Overtaking is not forgotten.
LEMMA OvertakenStays ==
  ASSUME [PoolNext]_poolVars, overtaken
  PROVE  overtaken'
BY DEF PoolNext, AllocateStep, FreeStep, ReadPut, FetchAddGet, ReadIndex, Restore,
       WrapGet, Clear, Mark, Free, FetchAddPut, WrapPut, Store, poolVars

LEMMA PoolInvKept ==
  ASSUME PoolInv, [PoolNext]_poolVars
  PROVE  PoolInv'
<1>1. TypeInv'
  BY TypesKept DEF PoolInv
<1>. SUFFICES ASSUME ~overtaken' PROVE RingInv'
  BY <1>1 DEF PoolInv
<1>2. TypeInv /\ RingInv
  BY OvertakenStays DEF PoolInv
<1>3. CASE UNCHANGED poolVars
  <2>1. UNCHANGED <<put, get, indexes, allocated, users, pc, raw, index, failed>>
    BY <1>3 DEF poolVars, ringVars, localVars
  <2>2. ASSUME NEW u \in Threads
        PROVE  /\ Slot(raw[u])' = Slot(raw[u])
               /\ InRing(u)' <=> InRing(u)
               /\ FindsNothing(u)' <=> FindsNothing(u)
               /\ Storing(u)' <=> Storing(u)
               /\ Clearing(u)' <=> Clearing(u)
               /\ Wrapping(u)' <=> Wrapping(u)
    BY <2>1 DEF InRing, FindsNothing, Storing, Clearing, Wrapping, Slot, number_plus_one, M
  <2>3. \A u \in Threads : Holds(u)' <=> Holds(u)
    BY <2>2 DEF Holds
  <2>4. Head' = Head /\ Tail' = Tail
    BY <2>1, <2>2, Ends DEF Head, Tail
  <2>5. Positions'
    BY <1>2, <2>1, <2>2 DEF RingInv, Positions, M, number_plus_one, Slot
  <2>6. Ring' /\ Places'
    BY <1>2, <2>1, <2>2, <2>3, <2>4, RingFrame, PlacesFrame DEF RingInv
  <2>. QED
    BY <2>5, <2>6 DEF RingInv
<1>4. ASSUME NEW t \in Threads,
             \/ ReadPut(t) \/ AllocateStep(t)
             \/ (\E i \in Items : Free(t, i)) \/ FreeStep(t)
      PROVE  RingInv'
  BY <1>2, <1>4, ReadPutKeeps, FetchAddGetKeeps, ReadIndexKeeps, RestoreKeeps,
     WrapGetKeeps, ClearKeeps, MarkKeeps, FreeKeeps, FetchAddPutKeeps, WrapPutKeeps,
     StoreKeeps DEF AllocateStep, FreeStep
<1>. QED
  BY <1>3, <1>4 DEF PoolNext

\* A pool begins with every item in the ring.
LEMMA PoolInvInitially ==
  ASSUME PoolInit
  PROVE  PoolInv
<1>1. N \in Nat /\ N >= 1 /\ M \in Nat /\ M = N + 1
  BY SizeOfRing, MemoryPoolsAssumption
<1>2. /\ put = N /\ get = 0
      /\ indexes = [s \in Slots |-> IF s < N THEN s ELSE INVALID]
      /\ allocated = {} /\ users = [i \in Items |-> 0]
      /\ pc = [t \in Threads |-> "idle"]
      /\ raw = [t \in Threads |-> 0] /\ stale = [t \in Threads |-> 0]
      /\ index = [t \in Threads |-> INVALID]
      /\ failed = {} /\ overtaken = FALSE
  BY DEF PoolInit
<1>3. \A t \in Threads : pc[t] = "idle" /\ index[t] = INVALID
  BY <1>2
<1>4. \A t \in Threads : /\ ~InRing(t) /\ ~FindsNothing(t) /\ ~Holds(t)
                         /\ ~Storing(t) /\ ~Clearing(t) /\ ~Wrapping(t)
                         /\ pc[t] \notin {"wrap_get", "wrap_put"}
  BY <1>3 DEF InRing, FindsNothing, Holds, Storing, Clearing, Wrapping
<1>5. \A s \in Slots : s \in 0..N /\ indexes[s] = IF s < N THEN s ELSE INVALID
  BY <1>2 DEF Slots
<1>6. PoolTypeOK
  <2>1. indexes \in [Slots -> Items \cup {INVALID}]
    BY <1>1, <1>2 DEF Slots, Items, INVALID
  <2>2. 0 \in Slots /\ 0 \in Nat /\ N \in Int /\ 0 \in Int
    BY <1>1 DEF Slots
  <2>. QED
    BY <1>2, <2>1, <2>2 DEF PoolTypeOK, Labels
<1>7. Carriers
  BY <1>3 DEF Carriers
<1>8. Positions
  <2>1. put \in 0..(2 * M - 1) /\ get \in 0..(2 * M) /\ ~(get > M) /\ ~(put > M)
    BY <1>1, <1>2
  <2>. QED
    BY <1>4, <2>1 DEF Positions
<1>9. Head = 0 /\ Tail = N
  <2>1. N \in 0..(2 * M) /\ N < M /\ 0 \in 0..(2 * M) /\ 0 < M
    BY <1>1
  <2>2. Slot(N) = N /\ Slot(0) = 0
    BY <2>1, SlotOfPosition
  <2>. QED
    BY <1>2, <1>4, <2>2 DEF Head, Tail
<1>10. Ring
  <2>1. \A s \in Slots : InQueue(s) <=> s < N
    BY <1>1, <1>5, <1>9 DEF InQueue, Between
  <2>2. \A s \in Slots : indexes[s] # INVALID <=> s < N
    BY <1>1, <1>5 DEF INVALID
  <2>. QED
    BY <1>4, <2>1, <2>2 DEF Ring
<1>11. Places
  <2>1. \A i \in Items : i \in Slots /\ indexes[i] = i /\ users[i] = 0
    BY <1>1, <1>2, <1>5 DEF Items, Slots
  <2>2. \A r, s \in Slots : indexes[r] = indexes[s] /\ indexes[r] # INVALID => r = s
    BY <1>5
  <2>. QED
    BY <1>2, <1>3, <1>4, <2>1, <2>2 DEF Places
<1>. QED
  BY <1>6, <1>7, <1>8, <1>10, <1>11 DEF PoolInv, TypeInv, RingInv

LEMMA PoolInvHolds == PoolSpec => []PoolInv
<1>1. PoolInit => PoolInv
  BY PoolInvInitially
<1>2. PoolInv /\ [PoolNext]_poolVars => PoolInv'
  BY PoolInvKept
<1>. QED
  BY <1>1, <1>2, PTL DEF PoolSpec

-----------------------------------------------------------------------------
(* The theorems.                                                           *)

LEMMA TakenByClearing ==
  ASSUME NEW s
  PROVE  s \in Taken <=> \E t \in Threads : Clearing(t) /\ Slot(raw[t]) = s
BY DEF Taken, Clearing

\* A set all of whose elements are equal has one, unless it is empty.
LEMMA OneOrNone ==
  ASSUME NEW S
  PROVE  /\ S = {} => Cardinality(S) = 0
         /\ \A x \in S : (\A y \in S : y = x) => Cardinality(S) = 1
<1>1. ASSUME NEW x \in S, \A y \in S : y = x PROVE Cardinality(S) = 1
  <2>1. S = {x}
    BY <1>1
  <2>. QED
    BY <2>1, FS_Singleton
<1>. QED
  BY <1>1, FS_EmptySet

\* The invariant counts every item once.
LEMMA CountedOnce ==
  ASSUME PoolInv
  PROVE  EveryItemInOnePlace
<1>1. PoolTypeOK
  BY DEF PoolInv, TypeInv
<1>. SUFFICES ASSUME ~overtaken, NEW i \in Items
              PROVE  LET places == {s \in Slots \ Taken : indexes[s] = i}
                         threads == {t \in Threads : <<t, i>> \in Carried}
                     IN Cardinality(places) + Cardinality(threads) + users[i] = 1
  BY <1>1 DEF EveryItemInOnePlace, PoolInv, RingInv, Places
<1>. DEFINE places == {s \in Slots \ Taken : indexes[s] = i}
            threads == {t \in Threads : <<t, i>> \in Carried}
<1>2. i # INVALID /\ RingInv
  BY DEF Items, INVALID, PoolInv
<1>3. threads = {t \in Threads : index[t] = i}
  BY <1>2 DEF Carried
<1>4. \A s \in Slots : indexes[s] = i /\ s \in Taken => \E t \in Threads : index[t] = i
  BY <1>2, TakenByClearing DEF RingInv, Places
<1>5. \A t \in Threads, s \in Slots : index[t] = i /\ indexes[s] = i => s \in Taken
  BY <1>2, TakenByClearing DEF RingInv, Places
<1>6. \A r, s \in Slots : indexes[r] = i /\ indexes[s] = i => r = s
  BY <1>2 DEF RingInv, Places
<1>7. \A t, u \in Threads : index[t] = i /\ index[u] = i => t = u
  BY <1>2 DEF RingInv, Places
<1>8. CASE users[i] = 1
  <2>1. places = {} /\ threads = {}
    BY <1>2, <1>3, <1>8 DEF RingInv, Places
  <2>2. Cardinality(places) = 0 /\ Cardinality(threads) = 0
    BY <2>1, OneOrNone
  <2>. QED
    BY <1>8, <2>2
<1>9. CASE \E t \in Threads : index[t] = i
  <2>1. users[i] = 0
    BY <1>2, <1>9 DEF RingInv, Places
  <2>2. places = {} /\ Cardinality(places) = 0
    BY <1>5, <1>9, OneOrNone
  <2>3. Cardinality(threads) = 1
    BY <1>3, <1>7, <1>9, OneOrNone
  <2>. QED
    BY <2>1, <2>2, <2>3
<1>10. CASE users[i] # 1 /\ \A t \in Threads : index[t] # i
  <2>1. users[i] = 0 /\ \E s \in Slots : indexes[s] = i
    BY <1>2, <1>10 DEF RingInv, Places
  <2>2. threads = {} /\ Cardinality(threads) = 0
    BY <1>3, <1>10, OneOrNone
  <2>3. Cardinality(places) = 1
    <3>1. PICK s \in Slots : indexes[s] = i
      BY <2>1
    <3>2. s \in places /\ \A r \in places : r = s
      BY <1>4, <1>6, <1>10, <3>1
    <3>. QED
      BY <3>2, OneOrNone
  <2>. QED
    BY <2>1, <2>2, <2>3
<1>. QED
  BY <1>8, <1>9, <1>10

\* memory_pools_allocate and memory_pools_free keep every item in one place, in a
\* pool of any size and with any number of threads, until one that allocates is
\* overtaken: no slot is read twice, none is overwritten while it is in use, and
\* neither check of the ring fails.
THEOREM ItemsInOnePlace == PoolSpec => []EveryItemInOnePlace
<1>1. PoolInv => EveryItemInOnePlace
  BY CountedOnce
<1>. QED
  BY <1>1, PoolInvHolds, PTL

Held == {i \in Items : users[i] > 0}

\* What is available is what no caller and no thread has.
Lists ==
  /\ Available = {i \in Items : users[i] = 0 /\ \A t \in Threads : index[t] # i}
  /\ Held = {i \in Items : users[i] = 1}

LEMMA AvailableItems == ASSUME PoolInv, ~overtaken PROVE Lists
<1>. USE DEF PoolInv
<1>1. Available = {i \in Items : \E s \in Slots \ Taken : indexes[s] = i}
  <2>1. \A s \in Slots \ Taken : indexes[s] \in Items \cup {INVALID}
    BY DEF TypeInv, PoolTypeOK
  <2>2. \A i \in Items : i # INVALID
    BY DEF Items, INVALID
  <2>. QED
    BY <2>1, <2>2 DEF Available
<1>2. ASSUME NEW i \in Items
      PROVE  (\E s \in Slots \ Taken : indexes[s] = i) <=>
               users[i] = 0 /\ \A t \in Threads : index[t] # i
  <2>1. i # INVALID
    BY DEF Items, INVALID
  <2>2. \A t \in Threads, s \in Slots : index[t] = i /\ indexes[s] = i => s \in Taken
    BY <2>1, TakenByClearing DEF RingInv, Places
  <2>3. \A s \in Slots : indexes[s] = i /\ s \in Taken => \E t \in Threads : index[t] = i
    BY TakenByClearing DEF RingInv, Places
  <2>. QED
    BY <2>2, <2>3 DEF RingInv, Places
<1>3. Held = {i \in Items : users[i] = 1}
  BY DEF Held, RingInv, Places
<1>. QED
  BY <1>1, <1>2, <1>3 DEF Lists

\* Reading an index takes an item off the list, marking it hands it to the caller;
\* freeing takes it back and storing its index puts it on the list again.
LEMMA PoolStep ==
  ASSUME TypeInv, RingInv, Lists, Lists', [PoolNext]_poolVars
  PROVE  [Abstract!Next]_<<Available, Held>>
<1>1. ASSUME users' = users, index' = index
      PROVE  UNCHANGED <<Available, Held>>
  BY <1>1 DEF Lists, Items, Threads
<1>2. index \in [Threads -> Items \cup {INVALID}] /\ users \in [Items -> Nat]
  BY DEF TypeInv, PoolTypeOK
<1>3. \A i \in Items : i # INVALID
  BY DEF Items, INVALID
<1>4. ASSUME NEW t \in Threads, ReadIndex(t)
      PROVE  Abstract!Next \/ UNCHANGED <<Available, Held>>
  <2>. DEFINE s == Slot(raw[t])
              i == indexes[s]
  <2>1. pc[t] = "read" /\ s \in Slots
    BY <1>4, SlotsOfThreads DEF ReadIndex, RingInv
  <2>2. index' = [index EXCEPT ![t] = i] /\ users' = users
    BY <1>4 DEF ReadIndex
  <2>3. index[t] = INVALID
    BY <2>1 DEF TypeInv, Carriers
  <2>4. \A u \in Threads : Clearing(u) => Slot(raw[u]) # s
    <3>1. InRing(t) /\ ~Clearing(t) /\ \A u \in Threads : Clearing(u) => InRing(u)
      BY <2>1 DEF InRing, Clearing
    <3>. QED
      BY <3>1 DEF RingInv, Positions
  <2>. HIDE DEF s
  <2>5. CASE i = INVALID
    BY <1>1, <1>2, <2>2, <2>3, <2>5
  <2>6. CASE i # INVALID
    <3>1. i \in Items
      BY <2>1, <2>6 DEF TypeInv, PoolTypeOK
    <3>2. users[i] = 0 /\ \A u \in Threads : index[u] # i
      BY <2>1, <2>4, <3>1, <1>3 DEF RingInv, Places
    <3>. HIDE DEF i
    <3>3. i \in Available /\ Available' = Available \ {i} /\ Held' = Held
      BY <1>2, <1>3, <2>2, <2>3, <3>1, <3>2 DEF Lists, Items, Threads
    <3>. QED
      BY <3>1, <3>3 DEF Abstract!Next, Abstract!Take, Held
  <2>. QED
    BY <2>5, <2>6
<1>5. ASSUME NEW t \in Threads, Mark(t) PROVE Abstract!Next
  <2>. DEFINE i == index[t]
  <2>1. pc[t] = "mark"
    BY <1>5 DEF Mark
  <2>2. i \in Items /\ i # INVALID
    BY <1>2, <2>1 DEF TypeInv, Carriers
  <2>3. users[i] = 0 /\ i \notin allocated
    BY <2>2 DEF RingInv, Places
  <2>4. index' = [index EXCEPT ![t] = INVALID] /\ users' = [users EXCEPT ![i] = 1]
    BY <1>2, <1>5, <2>2, <2>3 DEF Mark
  <2>5. \A u \in Threads : u # t => index[u] # i
    BY <2>2 DEF RingInv, Places
  <2>6. i \notin Available /\ i \notin Held
    BY <2>3 DEF Lists
  <2>7. \A u \in Threads : index'[u] = IF u = t THEN INVALID ELSE index[u]
    BY <1>2, <2>4
  <2>. HIDE DEF i
  <2>8. \A j \in Items : users'[j] = IF j = i THEN 1 ELSE users[j]
    BY <1>2, <2>4
  <2>9. Held' = Held \cup {i}
    BY <2>2, <2>8 DEF Lists
  <2>10. \A j \in Items :
           (users'[j] = 0 /\ \A u \in Threads : index'[u] # j) <=>
             (users[j] = 0 /\ \A u \in Threads : index[u] # j)
    <3>1. \A j \in Items : j # i =>
            ((\A u \in Threads : index'[u] # j) <=> \A u \in Threads : index[u] # j)
      BY <1>3, <2>7 DEF i
    <3>. QED
      BY <2>8, <3>1 DEF i
  <2>11. Available' = Available
    BY <2>10 DEF Lists
  <2>. QED
    BY <2>2, <2>6, <2>9, <2>11 DEF Abstract!Next, Abstract!Hand, Held
<1>6. ASSUME NEW t \in Threads, NEW i \in Items, Free(t, i) PROVE Abstract!Next
  <2>1. index[t] = INVALID
    BY <1>6 DEF Free, TypeInv, Carriers
  <2>2. users[i] = 1
    BY <1>6 DEF Free, RingInv, Places
  <2>3. index' = [index EXCEPT ![t] = i] /\ users' = [users EXCEPT ![i] = 0]
    BY <1>2, <1>6, <2>2 DEF Free
  <2>4. \A u \in Threads : index'[u] = IF u = t THEN i ELSE index[u]
    BY <1>2, <2>3
  <2>5. \A j \in Items : users'[j] = IF j = i THEN 0 ELSE users[j]
    BY <1>2, <2>3
  <2>6. i \in Held /\ Held' = Held \ {i}
    BY <2>2, <2>5 DEF Lists
  <2>7. \A j \in Items :
          (users'[j] = 0 /\ \A u \in Threads : index'[u] # j) <=>
            (users[j] = 0 /\ \A u \in Threads : index[u] # j)
    <3>1. \A j \in Items : j # i =>
            ((\A u \in Threads : index'[u] # j) <=> \A u \in Threads : index[u] # j)
      BY <1>3, <2>1, <2>4
    <3>. QED
      BY <2>2, <2>4, <2>5, <3>1
  <2>8. Available' = Available
    BY <2>7 DEF Lists
  <2>. QED
    BY <2>6, <2>8 DEF Abstract!Next, Abstract!Return, Held
<1>7. ASSUME NEW t \in Threads, Store(t) PROVE Abstract!Next
  <2>. DEFINE i == index[t]
  <2>1. pc[t] = "store"
    BY <1>7 DEF Store
  <2>2. i \in Items /\ i # INVALID
    BY <1>2, <2>1 DEF TypeInv, Carriers
  <2>3. users[i] = 0 /\ \A u \in Threads : u # t => index[u] # i
    BY <2>2 DEF RingInv, Places
  <2>4. users' = users /\ index' = [index EXCEPT ![t] = INVALID]
    BY <1>7 DEF Store
  <2>5. \A u \in Threads : index'[u] = IF u = t THEN INVALID ELSE index[u]
    BY <1>2, <2>4
  <2>6. i \notin Available /\ i \notin Held
    BY <2>3 DEF Lists
  <2>7. Held' = Held
    BY <2>4 DEF Lists
  <2>8. \A j \in Items :
          (users[j] = 0 /\ \A u \in Threads : index'[u] # j) <=>
            j = i \/ (users[j] = 0 /\ \A u \in Threads : index[u] # j)
    BY <1>3, <2>2, <2>3, <2>5
  <2>9. Available' = Available \cup {i}
    BY <2>2, <2>4, <2>8 DEF Lists
  <2>. QED
    BY <2>2, <2>6, <2>7, <2>9 DEF Abstract!Next, Abstract!Keep, Held
<1>8. ASSUME NEW t \in Threads,
             \/ ReadPut(t) \/ FetchAddGet(t) \/ Restore(t) \/ WrapGet(t) \/ Clear(t)
             \/ FetchAddPut(t) \/ WrapPut(t)
      PROVE  UNCHANGED <<Available, Held>>
  BY <1>1, <1>8
     DEF ReadPut, FetchAddGet, Restore, WrapGet, Clear, FetchAddPut, WrapPut, localVars
<1>9. CASE UNCHANGED poolVars
  BY <1>1, <1>9 DEF poolVars, localVars
<1>. QED
  BY <1>4, <1>5, <1>6, <1>7, <1>8, <1>9 DEF PoolNext, AllocateStep, FreeStep

\* Until an allocating thread is overtaken a pool implements the free list its
\* callers assume, whatever its size and however many threads allocate and free:
\* an item goes from the list to one caller and back.
THEOREM PoolImplementsFreeList == PoolSpec => IsFreeList
<1>1. PoolSpec => []PoolInv
  BY PoolInvHolds
<1>2. PoolInv /\ ~overtaken => Lists
  BY AvailableItems
<1>3. PoolInit => Abstract!Init
  <2>. SUFFICES ASSUME PoolInit PROVE Abstract!Init
    OBVIOUS
  <2>1. Lists
    BY PoolInvInitially, AvailableItems DEF PoolInit
  <2>2. \A i \in Items : users[i] = 0 /\ \A t \in Threads : index[t] # i
    BY DEF PoolInit, Items, INVALID
  <2>. QED
    BY <2>1, <2>2 DEF Lists, Abstract!Init, Held
<1>4. PoolInv /\ PoolInv' /\ [PoolNext]_poolVars
        => [~overtaken' => Abstract!Next]_<<Available, {i \in Items : users[i] > 0}>>
  <2>. SUFFICES ASSUME PoolInv, PoolInv', [PoolNext]_poolVars, ~overtaken'
                PROVE  [Abstract!Next]_<<Available, {i \in Items : users[i] > 0}>>
    BY Zenon
  <2>1. ~overtaken
    BY OvertakenStays
  <2>2. Lists /\ TypeInv /\ RingInv
    BY <2>1, AvailableItems DEF PoolInv
  <2>3. (PoolInv /\ ~overtaken)'
    OBVIOUS
  <2>4. Lists'
    BY <1>2, <2>3, PTL
  <2>. QED
    BY <2>2, <2>4, PoolStep DEF Held
<1>. QED
  BY <1>1, <1>3, <1>4, PTL DEF PoolSpec, IsFreeList
=============================================================================
