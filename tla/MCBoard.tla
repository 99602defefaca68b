------------------------------ MODULE MCBoard ------------------------------
(***************************************************************************)
(* The devices of the HC6800-ES side by side.  They share no state, so a   *)
(* behaviour runs one of them: "device" says which, chosen at the start.   *)
(* "calendar" is the DS1302 with nobody talking to it, from every date at  *)
(* which a field rolls over and from files that are no date; "rtc" is the  *)
(* protocol, from one busy moment.                                         *)
(***************************************************************************)
EXTENDS Hd44780, Ds1302, Iap, Xpt2046, Pwm, DigitDisplay, Enc28j60, Hc6800Es

VARIABLE device

mcvars == <<device, lcdvars, rtcvars, iapvars, xptvars, pwmvars, digitvars, encvars, boardvars>>

\* Clear, home, an entry mode, a shift, a cursor move, both addresses, data.
MCLcdBytes ==
  {<<0, 1>>, <<0, 2>>, <<0, 5>>, <<0, 20>>, <<0, 28>>, <<0, 70>>, <<0, 196>>, <<1, 178>>}

Files(s, i, h, d, m, w, y) ==
  [r \in 0..7 |-> <<s, i, h, ToBcd(d), ToBcd(m), w, ToBcd(y), 0>>[r + 1]]

Busy == Files(89, 89, 35, 28, 2, 7, 0)

LastOf(m, y) ==
  IF m = 2 /\ y % 4 = 0 THEN 29
  ELSE IF m = 2 THEN 28 ELSE IF m \in {4, 6, 9, 11} THEN 30 ELSE 31

\* What firmware may write: FFh, digits that are none, a 12-hour mode bit.
Disordered ==
  {Files(s, i, h, d, m, w, 99) :
     s \in {37, 89, 255}, i \in {0, 88, 165, 255}, h \in {35, 133, 255},
     d \in {0, 31, 99}, m \in {0, 2, 19}, w \in {0, 7, 255}}

MCMoments ==
  {Busy} \cup Disordered \cup
  UNION {{Files(s, 89, h, d, m, w, y) :
            d \in {1, 9, 10, 28, LastOf(m, y) - 1, LastOf(m, y)},
            s \in {89, 9}, h \in {35, 25}, w \in {3, 7}} : m \in 1..12, y \in {0, 1, 3, 4, 99}}

MCFlashBytes == {[b \in 0..1 |-> 0], [b \in 0..1 |-> b]}
MCRxFrames == {[to |-> "unicast", len |-> 1], [to |-> "broadcast", len |-> 2]}
MCTxFrames == {[len |-> 3]}

MCInit ==
  /\ device \in {"lcd", "rtc", "calendar", "iap", "xpt", "pwm", "digits", "enc", "board"}
  /\ LcdInit /\ RtcInit /\ IapInit /\ XptInit /\ PwmInit /\ DisplayInit /\ EncInit /\ BoardInit
  /\ (device = "calendar") # (rtc.regs = Busy)
  /\ device # "pwm" => pwmpin = 1

MCNext ==
  /\ UNCHANGED device
  /\ \/ device = "lcd" /\ LcdNext
     \/ device = "rtc" /\ RtcNext
     \/ device = "calendar" /\ RtcStep
     \/ device = "iap" /\ IapNext
     \/ device = "xpt" /\ XptNext
     \/ device = "pwm" /\ PwmNext
     \/ device = "digits" /\ DisplayNext
     \/ device = "enc" /\ EncNext
     \/ device = "board" /\ BoardNext
  /\ device # "lcd" => UNCHANGED lcdvars
  /\ device \notin {"rtc", "calendar"} => UNCHANGED rtcvars
  /\ device # "iap" => UNCHANGED iapvars
  /\ device # "xpt" => UNCHANGED xptvars
  /\ device # "pwm" => UNCHANGED pwmvars
  /\ device # "digits" => UNCHANGED digitvars
  /\ device # "enc" => UNCHANGED encvars
  /\ device # "board" => UNCHANGED boardvars

MCSpec == MCInit /\ [][MCNext]_mcvars

=============================================================================
