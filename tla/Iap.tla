-------------------------------- MODULE Iap --------------------------------
(***************************************************************************)
(* The flash programming registers of devices/iap.c: a command runs when   *)
(* the firmware writes the two trigger bytes one after the other, and a    *)
(* software reset is noted by the register write and carried out by the    *)
(* tick hook, once the instruction has updated the PC.                     *)
(*                                                                         *)
(* An action Writes is one instruction and the tick it ends in.            *)
(***************************************************************************)
EXTENDS Integers

CONSTANTS
  Sector,           \* bytes of a sector (512)
  Lo, Hi,           \* the profile's writable range, whole sectors
  FlashAddrs,       \* addresses the firmware asks for
  FlashBytes        \* bytes it programs

ASSUME IapAssumption ==
  /\ Sector \in Nat \ {0} /\ Lo \in Nat /\ Hi \in Nat
  /\ FlashAddrs \subseteq Nat
  /\ FlashBytes \subseteq [0..1 -> {0, 1}]      \* a byte of two bits

VARIABLES
  sfr,        \* DATA, ADDR, CMD, and of CONTR the bits ISPEN and SWBS
  iap,        \* last_trig, pending_reset, keep_contr, stats of resets
  flash,
  place,      \* where the PC is: 0 at the reset vector, 1 past it
  trigs       \* TRIG bytes written since the last command or reset (history)

iapvars == <<sfr, iap, flash, place, trigs>>

Erased == [b \in {0, 1} |-> 1]
Trig1 == 70
Trig2 == 185

Off == [en |-> FALSE, bs |-> FALSE]
Cold == [data |-> [b \in {0, 1} |-> 0], addr |-> 0, cmd |-> 0, contr |-> Off]

Writable(a) == a >= Lo /\ a < Hi

SectorOf(a) == LET start == a - (a % Sector) IN start..start + Sector - 1

-----------------------------------------------------------------------------
Programmed(old, new) == [b \in {0, 1} |-> old[b] * new[b]]

Reads == sfr.cmd = 1

FlashAfter ==
  CASE sfr.cmd = 2 -> [flash EXCEPT ![sfr.addr] = Programmed(@, sfr.data)]
    [] sfr.cmd = 3 /\ (\A a \in SectorOf(sfr.addr) : Writable(a)) ->
         [a \in Lo..Hi - 1 |-> IF a \in SectorOf(sfr.addr) THEN Erased ELSE flash[a]]
    [] OTHER -> flash

Accepted == sfr.contr.en /\ sfr.cmd # 0 /\ Writable(sfr.addr)

\* The tick hook that leaves the first trigger byte standing.
PostTickArmed(i, s, p) ==
  IF i.pending = 0 THEN [iap |-> i, sfr |-> s, place |-> p]
  ELSE [iap |-> [i EXCEPT !.pending = 0], sfr |-> [Cold EXCEPT !.contr = i.keep], place |-> 0]

(* iap_post_tick: the host's reset_cpu, then ISPEN and SWBS put back.      *)
PostTick(i, s, p) ==
  IF i.pending = 0 THEN [iap |-> i, sfr |-> s, place |-> p]
  ELSE [iap |-> [i EXCEPT !.pending = 0, !.last = 0],
        sfr |-> [Cold EXCEPT !.contr = i.keep],
        place |-> 0]

Ends(i, s) ==
  LET t == PostTick(i, s, 1)
  IN  iap' = t.iap /\ sfr' = t.sfr /\ place' = t.place

WriteTrig(v) ==
  /\ IF iap.last = Trig1 /\ v = Trig2
     THEN /\ Ends([iap EXCEPT !.last = 0],
                  IF Accepted /\ Reads THEN [sfr EXCEPT !.data = flash[sfr.addr]] ELSE sfr)
          /\ flash' = IF Accepted THEN FlashAfter ELSE flash
     ELSE Ends([iap EXCEPT !.last = v], sfr) /\ UNCHANGED flash
  /\ trigs' = <<trigs[2], v>>

WriteContr(en, bs, reset) ==
  /\ Ends([iap EXCEPT !.keep = [en |-> en, bs |-> bs],
                      !.pending = IF ~reset THEN @ ELSE IF bs THEN 2 ELSE 1],
          [sfr EXCEPT !.contr = [en |-> en, bs |-> bs]])
  /\ trigs' = IF reset THEN <<0, 0>> ELSE trigs
  /\ UNCHANGED flash

WriteOther(s) == Ends(iap, s) /\ UNCHANGED <<flash, trigs>>

SetData == \E v \in FlashBytes : WriteOther([sfr EXCEPT !.data = v])
SetAddr == \E a \in FlashAddrs : WriteOther([sfr EXCEPT !.addr = a])
SetCmd  == \E c \in 0..3 : WriteOther([sfr EXCEPT !.cmd = c])

IapSimReset ==       \* the CPU's reset, then iap_power_on
  /\ sfr' = Cold /\ place' = 0 /\ trigs' = <<0, 0>>
  /\ iap' = [last |-> 0, pending |-> 0, keep |-> Off]
  /\ UNCHANGED flash

IapInit ==
  /\ sfr = Cold /\ place = 0 /\ trigs = <<0, 0>>
  /\ iap = [last |-> 0, pending |-> 0, keep |-> Off]
  /\ flash = [a \in Lo..Hi - 1 |-> Erased]

IapNext ==
  \/ \E v \in {Trig1, Trig2, 1} : WriteTrig(v)
  \/ \E en, bs, reset \in BOOLEAN : WriteContr(en, bs, reset)
  \/ SetData \/ SetAddr \/ SetCmd
  \/ IapSimReset

IapSpec == IapInit /\ [][IapNext]_iapvars

-----------------------------------------------------------------------------
(***************************************************************************)
(* Flash changes only when programming is enabled and the two trigger      *)
(* bytes follow one another with no reset between, and then as NOR flash   *)
(* does: bits of the addressed byte are cleared, or one sector is erased.  *)
(***************************************************************************)
FlashObeysTheTrigger ==
  [][flash' # flash =>
       /\ trigs' = <<Trig1, Trig2>> /\ sfr.contr.en
       /\ \A a \in Lo..Hi - 1 : flash'[a] # flash[a] =>
            \/ sfr.cmd = 2 /\ a = sfr.addr /\ \A b \in {0, 1} : flash'[a][b] <= flash[a][b]
            \/ sfr.cmd = 3 /\ a \in SectorOf(sfr.addr) /\ flash'[a] = Erased]_iapvars

=============================================================================
