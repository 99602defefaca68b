-------------------------------- MODULE MCEnc --------------------------------
(***************************************************************************)
(* The Ethernet controller by itself, with a ring of more than LowSize     *)
(* bytes, in which a pointer half written names another place.             *)
(***************************************************************************)
EXTENDS Enc28j60

MCFrames == {[to |-> "unicast", len |-> 1], [to |-> "broadcast", len |-> 9]}

=============================================================================
