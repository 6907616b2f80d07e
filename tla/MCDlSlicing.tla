---------------------------- MODULE MCDlSlicing ----------------------------
(* Downlink slicing on carriers of 10 MHz and 20 MHz. *)
EXTENDS DlSlicingProps

\* Nothing is reserved, or the groups SF0_LIMIT protects and some of a SIB.
Reservations10MHz == {{}, {0, 1}}
Reservations20MHz == {{}, 11..13, {0, 1}}
=============================================================================
