------------------------------- MODULE MCCore -------------------------------
(***************************************************************************)
(* Values of Core's constants for TLC, and bounds on the code addresses    *)
(* used and on the steps that move the stack: entries, pushes, pops,       *)
(* calls, moves into RAM or SP.                                            *)
(***************************************************************************)
EXTENDS Core

CONSTANTS
  MaxStackOps,   \* steps that move the stack, other than a RETI
  MaxPC          \* highest code address

VARIABLE stackOps

MCInit == Init /\ stackOps = 0

MCNext ==
  /\ Next
  /\ stackOps' = IF mem' = mem \/ Len(frames') < Len(frames)
                 THEN stackOps ELSE stackOps + 1
  /\ stackOps' <= MaxStackOps
  /\ pc' <= MaxPC

MCSpec == MCInit /\ [][MCNext]_<<vars, stackOps>>

(* Urgency: five requests, all priorities, both sleep modes; addresses *)
(* and stack contents are immaterial (a two-byte RAM, always wrapping).    *)
OneAddress   == [s \in Source |-> 0]
UrgencyOps   == {"Run", "Reti", "WriteIE", "WriteIP", "WriteTCON", "WritePCON"}
UrgencyIE    == {Source \cup {"EA"}, Source}
UrgencyIP    == SUBSET Source

(* Stack: two requests of different priority on five bytes of RAM, which   *)
(* two nested services fill; any further push runs off its end.            *)
HandlerAddr  == [s \in Source |-> IF s = "TF0" THEN 1 ELSE 2]
StackIE      == {{"EA", "TF0", "SR"}}
StackIP      == {{"SR"}}
StackOps     == {"Reti", "Ret", "Call", "Push", "Pop", "SetSP", "Store",
                 "WriteIE", "WriteIP"}
=============================================================================
