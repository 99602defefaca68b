------------------------------ MODULE MCSerial ------------------------------
(***************************************************************************)
(* Serial for TLC: two-bit bytes and a ring of three slots, with one byte  *)
(* more than it holds between two resets.                                  *)
(***************************************************************************)
EXTENDS Serial
=============================================================================
