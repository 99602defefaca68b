-------------------------------- MODULE Pwm --------------------------------
(***************************************************************************)
(* What a servo and a fan make of a pulse-width signal: devices/servo.c    *)
(* and devices/fan.c watch one pin, told of each write of its port and of  *)
(* each tick, and the fan answers on its tachometer line.                  *)
(***************************************************************************)
EXTENDS Integers, Sequences

CONSTANTS
  FanTicks,         \* ticks_per_second
  Micros, UsSpan,   \* microseconds in a second; values of a uint16_t
  MaxRpm, MinDuty,  \* FAN_MAX_RPM and FAN_MIN_START_DUTY_PERCENT
  PulsesPerRev,     \* FAN_PULSES_PER_REV
  MaxTicks          \* bound: ticks run

ASSUME PwmAssumption ==
  /\ FanTicks \in Nat /\ MaxRpm \in Nat \ {0} /\ MinDuty \in 0..99
  /\ PulsesPerRev \in Nat \ {0} /\ MaxTicks \in Nat
  /\ Micros \in Nat /\ UsSpan \in Nat \ {0}

VARIABLES
  pwmpin,     \* the pin, driven by the firmware
  servo,      \* last_level, ticks_since_rising, and the last pulse in us
  fan,        \* the same of the PWM side, and rpm, tach_accum, tach_level
  clock,      \* ticks run
  marks       \* the ticks of the edges heard, latest first (history)

pwmvars == <<pwmpin, servo, fan, clock, marks>>

TicksToUs(n) == IF FanTicks = 0 THEN 0 ELSE ((n * Micros) \div FanTicks) % UsSpan

ServoHears(level) ==
  CASE level = 1 /\ servo.level = 0 -> [servo EXCEPT !.level = 1, !.since = 0]
    [] level = 0 /\ servo.level = 1 -> [servo EXCEPT !.level = 0, !.pulse = TicksToUs(servo.since)]
    [] OTHER -> servo

\* A period timed from the falling edge.
FanHearsFalling(level) ==
  CASE level = 1 /\ fan.level = 0 ->
         [fan EXCEPT !.level = 1, !.since = 0, !.period = IF fan.since > 0 THEN fan.since ELSE @]
    [] level = 0 /\ fan.level = 1 -> [fan EXCEPT !.level = 0, !.high = fan.since, !.since = 0]
    [] OTHER -> fan

FanHears(level) ==
  CASE level = 1 /\ fan.level = 0 ->
         [fan EXCEPT !.level = 1, !.since = 0, !.period = IF fan.since > 0 THEN fan.since ELSE @]
    [] level = 0 /\ fan.level = 1 -> [fan EXCEPT !.level = 0, !.high = fan.since]
    [] OTHER -> fan

Duty(f) == IF f.period = 0 THEN 0 ELSE (f.high * 100) \div f.period

TargetRpm(f) ==
  IF Duty(f) < MinDuty THEN 0 ELSE (MaxRpm * (Duty(f) - MinDuty)) \div (100 - MinDuty)

HalfPeriod(rpm) ==
  LET ticks == (FanTicks * 60) \div (rpm * PulsesPerRev * 2) IN IF ticks = 0 THEN 1 ELSE ticks

FanStep ==
  LET timed == [fan EXCEPT !.since = @ + 1, !.rpm = TargetRpm(fan)]
      n     == fan.accum + 1
  IN  IF timed.rpm = 0 \/ FanTicks = 0 THEN [timed EXCEPT !.accum = 0]
      ELSE IF n >= HalfPeriod(timed.rpm)
      THEN [timed EXCEPT !.accum = 0, !.tach = 1 - @] ELSE [timed EXCEPT !.accum = n]

WritePwm(level) ==   \* any write of the port, an edge or not
  /\ pwmpin' = level
  /\ servo' = ServoHears(level) /\ fan' = FanHears(level)
  /\ marks' = IF level = servo.level THEN marks
              ELSE IF level = 1 THEN [marks EXCEPT !.up = IF @ = <<>> THEN <<clock>> ELSE <<clock, @[1]>>]
              ELSE [marks EXCEPT !.high = IF marks.up = <<>> THEN @ ELSE clock - marks.up[1]]
  /\ UNCHANGED clock

PwmTick ==
  /\ clock < MaxTicks
  /\ clock' = clock + 1
  /\ servo' = [servo EXCEPT !.since = @ + 1] /\ fan' = FanStep
  /\ UNCHANGED <<pwmpin, marks>>

PwmCpuReset ==       \* the port goes high, and nobody is told
  /\ pwmpin' = 1 /\ UNCHANGED <<servo, fan, clock, marks>>

PwmInit ==
  /\ pwmpin \in {0, 1}
  /\ servo = [level |-> pwmpin, since |-> 0, pulse |-> 0]
  /\ fan = [level |-> pwmpin, since |-> 0, period |-> 0, high |-> 0, rpm |-> 0, accum |-> 0, tach |-> 0]
  /\ clock = 0 /\ marks = [up |-> <<>>, high |-> 0]

PwmNext == (\E level \in {0, 1} : WritePwm(level)) \/ PwmTick \/ PwmCpuReset

PwmSpec == PwmInit /\ [][PwmNext]_pwmvars

-----------------------------------------------------------------------------
(***************************************************************************)
(* Once two rising edges were heard, the fan's high time and period are    *)
(* the differences of the ticks of the last edges, and the servo's pulse,  *)
(* when 16 bits hold it, is that time to the microsecond, whatever writes  *)
(* of the port that were no edges came between.                            *)
(***************************************************************************)
PulsesAreTimed ==
  Len(marks.up) = 2 =>
    /\ fan.high = marks.high
    /\ LET us == marks.high * Micros
       IN  us < UsSpan * FanTicks =>
             us \in servo.pulse * FanTicks..servo.pulse * FanTicks + FanTicks - 1
    /\ marks.up[1] > marks.up[2] => fan.period = marks.up[1] - marks.up[2]

=============================================================================
