----------------------------- MODULE MCUlSlicing -----------------------------
(* Uplink slicing on carriers of 1.4 and 5 MHz. *)
EXTENDS UlSlicingProps

PlainOnly == {Plain}
WithMsg3 == {Plain, [prach |-> FALSE, msg3 |-> TRUE]}
WithPrach == {Plain, [prach |-> TRUE, msg3 |-> FALSE]}
AnyOccasion == [prach : BOOLEAN, msg3 : BOOLEAN]
=============================================================================
