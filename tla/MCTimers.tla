------------------------------ MODULE MCTimers ------------------------------
(***************************************************************************)
(* Timers for TLC: bytes of four values, of which mode 0 counts two, so    *)
(* that the carry, the reload and the overflow of every mode happen within *)
(* sixteen ticks of any setting.  A write to TMOD leaves both timers       *)
(* running, or stops both; timer 0's mode 3, the only one that timer 1     *)
(* sees, is paired with all modes of timer 1, the others with 2 and equal. *)
(***************************************************************************)
EXTENDS Timers

PairedModes == {p \in (0..3) \X (0..3) : p[1] = 3 \/ p[2] \in {p[1], 2}}
SomeModes ==
  {<<p[1], p[2], TRUE, TRUE>> : p \in PairedModes} \cup {<<0, 0, FALSE, FALSE>>}
=============================================================================
