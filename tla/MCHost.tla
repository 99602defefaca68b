------------------------------- MODULE MCHost -------------------------------
(***************************************************************************)
(* The host runtime's parts side by side: the bus registry, the pins, the  *)
(* step loops, the plugin host and the loader.  They share no state that   *)
(* the models keep, so a behaviour runs one of them: "part" says which.    *)
(***************************************************************************)
EXTENDS Bus, Pins, StepLoop, PluginHost, HexLoad

VARIABLE part

mcvars == <<part, busvars, pinvars, stepvars, hostvars, hexvars>>

\* Two bits of P0, one a device answers for, and one of P1.
MCPortPins == {<<0, 0>>, <<0, 1>>, <<16, 0>>}
MCDevicePins == {<<0, 1>>}

MCWanted == {<<>>, <<"a">>, <<"a", 2>>}
MCFilters == {[c \in Codes |-> IF c = 1 THEN Drop ELSE c]}
MCRanges == {[lo |-> 0, hi |-> 1, rd |-> TRUE, wr |-> TRUE],
             [lo |-> 1, hi |-> 1, rd |-> TRUE, wr |-> FALSE]}

\* Two programs over the same addresses; the first's second record overwrites
\* a byte of its first, the second's first record sums to 256.
MCPrograms ==
  {<<[addr |-> 258, data |-> <<1, 0>>], [addr |-> 259, data |-> <<2>>]>>,
   <<[addr |-> 256, data |-> <<16, 237>>]>>}

MCInit ==
  /\ part \in {"bus", "pins", "steps", "plugins", "loader"}
  /\ BusInit /\ PinsInit /\ StepInit /\ HostInit /\ HexInit

MCNext ==
  /\ UNCHANGED part
  /\ \/ part = "bus" /\ BusNext
     \/ part = "pins" /\ PinsNext
     \/ part = "steps" /\ StepNext
     \/ part = "plugins" /\ HostNext
     \/ part = "loader" /\ HexNext
  /\ part # "bus" => UNCHANGED busvars
  /\ part # "pins" => UNCHANGED pinvars
  /\ part # "steps" => UNCHANGED stepvars
  /\ part # "plugins" => UNCHANGED hostvars
  /\ part # "loader" => UNCHANGED hexvars

MCSpec == MCInit /\ [][MCNext]_mcvars /\ (part = "steps" => StepFairness)

=============================================================================
