------------------------------ MODULE FreeList ------------------------------
(* Abstract: a pool hands an item to one caller at a time. *)
CONSTANT Items

VARIABLES free, held

TypeOK == free \subseteq Items /\ held \subseteq Items

Init == free = Items /\ held = {}

Take(i) == i \in free /\ free' = free \ {i} /\ UNCHANGED held
Hand(i) == i \notin free \cup held /\ held' = held \cup {i} /\ UNCHANGED free
Return(i) == i \in held /\ held' = held \ {i} /\ UNCHANGED free
Keep(i) == i \notin free \cup held /\ free' = free \cup {i} /\ UNCHANGED held

Next == \E i \in Items : Take(i) \/ Hand(i) \/ Return(i) \/ Keep(i)

Spec == Init /\ [][Next]_<<free, held>>
=============================================================================
