------------------------ MODULE StepperMotionProofs ------------------------
(* Proofs about the motion controller, for every value of the constants.   *)
EXTENDS StepperMotion, FiniteSetTheorems, SequenceTheorems, TLAPS

----------------------------------------------------------------------------
(* The half-period word.                                                   *)

\* hz_to_half_period() always yields a word the PIO can take.
LEMMA HalfPeriodType ==
  ASSUME NEW s \in Float
  PROVE  hz_to_half_period(s) \in Nat
<1>1. IsFiniteSet(1 .. PIO_F_SYS)
  BY FS_Interval, Hardware
<1>2. IsFiniteSet({h \in 1 .. PIO_F_SYS : Fits(h, s)})
  BY <1>1, FS_Subset
<1> QED
  BY <1>2, FS_CardinalityType DEF hz_to_half_period

\* hz_to_half_period() is antitone: a faster step never gets a longer period.
LEMMA HalfPeriodAntitone ==
  ASSUME NEW s \in Nat, NEW t \in Nat, s <= t
  PROVE  hz_to_half_period(t) <= hz_to_half_period(s)
<1> DEFINE H(x) == {h \in 1 .. PIO_F_SYS : Fits(h, x)}
<1>1. IsFiniteSet(H(s))
  <2>1. IsFiniteSet(1 .. PIO_F_SYS)
    BY FS_Interval, Hardware
  <2> QED
    BY <2>1, FS_Subset
<1>2. \A h \in 1 .. PIO_F_SYS : Fits(h, t) => Fits(h, s)
  <2> SUFFICES ASSUME NEW h \in 1 .. PIO_F_SYS, Fits(h, t)
               PROVE  Fits(h, s)
    OBVIOUS
  <2> DEFINE k == (2 * (h + 3)) * (2 * (h + 3))
  <2>1. h \in Nat
    BY Hardware
  <2>2. k \in Nat
    BY <2>1
  <2>3. ASSUME NEW q \in Nat PROVE q * s <= q * t
    BY SMT
  <2>4. k * s <= k * t
    BY <2>2, <2>3
  <2>5. k * s \in Int /\ k * t \in Int /\ PIO_F_SYS * PIO_F_SYS \in Int
    BY <2>2, Hardware
  <2>6. k * t <= PIO_F_SYS * PIO_F_SYS
    BY DEF Fits
  <2> QED
    BY <2>4, <2>5, <2>6 DEF Fits
<1>3. H(t) \in SUBSET H(s)
  BY <1>2
<1>4. Cardinality(H(t)) <= Cardinality(H(s))
  BY <1>1, <1>3, FS_Subset
<1>5. s # NaN /\ t # NaN
  BY Hardware
<1> QED
  BY <1>4, <1>5 DEF hz_to_half_period

----------------------------------------------------------------------------
(* Type correctness.                                                       *)

\* next_speed() returns a float.
LEMMA NextSpeedType ==
  ASSUME TypeOK
  PROVE  next_speed \in Float
<1>1. MustBrake => BrakeTo \in Float
  BY SpeedLimits, Hardware DEF MustBrake, BrakeTo, TypeOK, Float, FLess
<1>2. FLess(speed, max_speed) => AccelTo \in Float
  BY SpeedLimits, Hardware DEF AccelTo, TypeOK, Float, FLess
<1>3. max_speed \in Float
  BY DEF TypeOK
<1> QED
  BY <1>1, <1>2, <1>3 DEF next_speed

\* Whatever the payloads, the settings stay floats.
LEMMA ClampTypes ==
  /\ \A v \in SpeedInputs : clamp_speed(v) \in Float
  /\ \A v \in AccelInputs : clamp_accel(v, DEF_ACCEL) \in Float
  /\ \A v \in AccelInputs : clamp_accel(v, DEF_DECEL) \in Float
<1>1. ASSUME NEW v \in SpeedInputs PROVE clamp_speed(v) \in Float
  BY SpeedLimits, Inputs, Hardware DEF clamp_speed, FLess, Float
<1>2. ASSUME NEW v \in AccelInputs
      PROVE  clamp_accel(v, DEF_ACCEL) \in Float /\ clamp_accel(v, DEF_DECEL) \in Float
  BY AccelLimits, Inputs, Hardware DEF clamp_accel, Float
<1> QED
  BY <1>1, <1>2

\* Pushing a step keeps the FIFO a sequence of steps, one longer.
LEMMA PushType ==
  ASSUME TypeOK, ~pio_tx_full, pio_push_step(next_speed)
  PROVE  txf' \in Seq(Step) /\ Len(txf') = Len(txf) + 1 /\ Len(txf') <= TxDepth
<1> DEFINE w == [half |-> hz_to_half_period(next_speed), dir |-> dir]
<1>1. hz_to_half_period(next_speed) \in Nat
  BY NextSpeedType, HalfPeriodType
<1>2. w \in Step
  BY <1>1 DEF Step, TypeOK
<1>3. txf \in Seq(Step) /\ txf' = Append(txf, w)
  BY DEF TypeOK, pio_push_step
<1> HIDE DEF w
<1>4. txf' \in Seq(Step) /\ Len(txf') = Len(txf) + 1
  BY <1>2, <1>3
<1> QED
  BY <1>4, Hardware DEF pio_tx_full, TypeOK

LEMMA TypeOKInit == Init => TypeOK
<1> SUFFICES ASSUME Init PROVE TypeOK
  OBVIOUS
<1>1. <<>> \in Seq(Step) /\ Len(<<>>) = 0
  OBVIOUS
<1>2. DEF_MAX_SPEED2 \in Float /\ DEF_ACCEL \in Float /\ DEF_DECEL \in Float /\ 0 \in Float
  BY SpeedLimits, AccelLimits DEF Float
<1>3. Len(txf) <= TxDepth /\ Len(osr) <= 1
  BY <1>1, Hardware DEF Init
<1>4. stop_req \in BOOLEAN /\ detuned \in BOOLEAN /\ halting \in BOOLEAN
  BY Zenon DEF Init
<1>5. remaining \in Int /\ owed \in Int /\ overshoot \in Nat
  BY DEF Init
<1> QED
  BY <1>1, <1>2, <1>3, <1>4, <1>5 DEF Init, TypeOK

LEMMA TypeOKStep == TypeOK /\ [Next]_vars => TypeOK'
<1> SUFFICES ASSUME TypeOK, [Next]_vars PROVE TypeOK'
  OBVIOUS
<1>1. CASE FeedPush
  <2>1. txf' \in Seq(Step) /\ Len(txf') <= TxDepth
    BY <1>1, PushType DEF FeedPush
  <2>2. speed' \in Float
    BY <1>1, NextSpeedType DEF FeedPush
  <2> QED
    BY <1>1, <2>1, <2>2 DEF FeedPush, TypeOK, profile, history
<1>2. CASE FeedHalt
  <2>1. owed' \in Int /\ speed' \in Float
    BY <1>2 DEF FeedHalt, TypeOK, Float
  <2> QED
    BY <1>2, <2>1 DEF FeedHalt, TypeOK, profile, pins
<1>3. CASE FeedDone
  BY <1>3 DEF FeedDone, TypeOK, profile, pins, history
<1>4. CASE NoCommand
  BY <1>4 DEF NoCommand, Poll, TypeOK, profile, pins, history
<1>5. ASSUME NEW v \in SpeedInputs, CmdSpeed(v) PROVE TypeOK'
  BY <1>5, ClampTypes DEF CmdSpeed, Poll, TypeOK, pins, history
<1>6. ASSUME NEW v \in AccelInputs, CmdAccel(v) PROVE TypeOK'
  BY <1>6, ClampTypes DEF CmdAccel, Poll, TypeOK, pins, Detune
<1>7. ASSUME NEW v \in AccelInputs, CmdDecel(v) PROVE TypeOK'
  BY <1>7, ClampTypes DEF CmdDecel, Poll, TypeOK, pins, Detune
<1>8. ASSUME NEW n \in StepInputs, CmdMove(n) PROVE TypeOK'
  <2>1. n \in Int
    BY Inputs, Hardware
  <2>2. MIN_SPEED2 \in Float
    BY SpeedLimits DEF Float
  <2>3. CASE state = "MOVING" \/ n = 0
    BY <1>8, <2>3 DEF CmdMove, motion_start, Poll, TypeOK, pins, profile, history
  <2>4. CASE state # "MOVING" /\ n # 0
    <3>1. remaining' \in Int /\ owed' \in Int
      BY <1>8, <2>1, <2>4, Hardware DEF CmdMove, motion_start, Negate, TypeOK
    <3>2. dir' \in {0, 1}
      BY <1>8, <2>4 DEF CmdMove, motion_start
    <3>3. stop_req' = FALSE /\ detuned' = FALSE /\ halting' = FALSE /\ overshoot' = 0
      BY <1>8, <2>4, Zenon DEF CmdMove, motion_start
    <3>4. stop_req' \in BOOLEAN /\ detuned' \in BOOLEAN /\ halting' \in BOOLEAN
      BY <3>3, Zenon
    <3>5. overshoot' \in Nat
      BY <3>3
    <3> QED
      BY <1>8, <2>2, <2>4, <3>1, <3>2, <3>4, <3>5
      DEF CmdMove, motion_start, Poll, TypeOK, profile
  <2> QED
    BY <2>3, <2>4
<1>9. CASE CmdStop
  <2>1. overshoot' \in Nat
    BY <1>9 DEF CmdStop, TypeOK
  <2>2. stop_req' \in BOOLEAN /\ halting' \in BOOLEAN
    BY <1>9 DEF CmdStop, TypeOK
  <2> QED
    BY <1>9, <2>1, <2>2 DEF CmdStop, Poll, TypeOK, profile, pins
<1>10. CASE PioPull
  <2>1. Head(txf) \in Step /\ Tail(txf) \in Seq(Step) /\ Len(Tail(txf)) = Len(txf) - 1
    BY <1>10 DEF PioPull, TypeOK
  <2>2. osr' \in Seq(Step) /\ Len(osr') <= 1
    BY <1>10, <2>1 DEF PioPull
  <2>3. txf' \in Seq(Step) /\ Len(txf') <= TxDepth
    BY <1>10, <2>1, Hardware DEF PioPull, TypeOK
  <2> QED
    BY <1>10, <2>2, <2>3 DEF PioPull, TypeOK, profile, history
<1>11. CASE PioPulse
  BY <1>11 DEF PioPulse, TypeOK, profile
<1>12. CASE UNCHANGED vars
  BY <1>12 DEF vars, TypeOK, profile, pins, history
<1> QED
  BY <1>1, <1>2, <1>3, <1>4, <1>5, <1>6, <1>7, <1>8, <1>9, <1>10, <1>11, <1>12
  DEF Next, Core1, Commands, Pio

\* The types of core1's state and of the PIO FIFO, and the FIFO's capacity,
\* are respected by every step of the controller, NaN settings included.
THEOREM TypeCorrect == Spec => []TypeOK
BY TypeOKInit, TypeOKStep, PTL DEF Spec

----------------------------------------------------------------------------
(* Every accepted step is accounted for.                                   *)

\* The strengthening of StepAccounting: a move in progress has no negative
\* count of remaining steps.
AccountingInv ==
  /\ TypeOK
  /\ StepAccounting
  /\ state = "MOVING" => remaining >= 0

\* A pull moves a step from the FIFO to the shift register, a push adds one.
LEMMA InFlightSteps ==
  ASSUME TypeOK
  PROVE  /\ InFlight \in Nat
         /\ FeedPush => InFlight' = InFlight + 1
         /\ PioPull => InFlight' = InFlight
         /\ PioPulse => InFlight' = InFlight - 1
         /\ UNCHANGED <<txf, osr>> => InFlight' = InFlight
<1>1. InFlight \in Nat
  BY DEF InFlight, TypeOK
<1>2. ASSUME FeedPush PROVE InFlight' = InFlight + 1
  <2>1. Len(txf') = Len(txf) + 1
    BY <1>2, PushType DEF FeedPush
  <2>2. osr' = osr
    BY <1>2 DEF FeedPush
  <2> QED
    BY <2>1, <2>2 DEF InFlight, TypeOK
<1>3. ASSUME PioPull PROVE InFlight' = InFlight
  <2>1. Len(txf') = Len(txf) - 1 /\ Len(osr) = 0
    BY <1>3 DEF PioPull, TypeOK
  <2>2. Len(osr') = 1
    BY <1>3 DEF PioPull
  <2> QED
    BY <2>1, <2>2 DEF InFlight, TypeOK
<1>4. ASSUME PioPulse PROVE InFlight' = InFlight - 1
  <2>1. Len(osr) \in Nat \ {0}
    BY <1>4, EmptySeq DEF PioPulse, TypeOK
  <2>2. txf' = txf /\ Len(osr') = 0
    BY <1>4 DEF PioPulse
  <2>3. Len(osr) <= 1
    BY DEF TypeOK
  <2>4. Len(osr) = 1
    BY <2>1, <2>3
  <2> QED
    BY <2>2, <2>4 DEF InFlight, TypeOK
<1>5. UNCHANGED <<txf, osr>> => InFlight' = InFlight
  BY DEF InFlight
<1> QED
  BY <1>1, <1>2, <1>3, <1>4, <1>5

LEMMA AccountingInit == Init => AccountingInv
<1> SUFFICES ASSUME Init PROVE AccountingInv
  OBVIOUS
<1>1. TypeOK
  BY TypeOKInit
<1>2. InFlight = 0
  BY DEF Init, InFlight
<1> QED
  BY <1>1, <1>2 DEF Init, AccountingInv, StepAccounting

LEMMA AccountingStep ==
  ASSUME INT_MIN \notin StepInputs
  PROVE  AccountingInv /\ [Next]_vars => AccountingInv'
<1> SUFFICES ASSUME AccountingInv, [Next]_vars PROVE AccountingInv'
  OBVIOUS
<1>t. TypeOK /\ TypeOK'
  BY TypeOKStep DEF AccountingInv
<1> DEFINE Owed == owed = InFlight + (IF state = "MOVING" THEN remaining ELSE 0)
<1>i. Owed /\ (state = "MOVING" => remaining >= 0)
  BY DEF AccountingInv, StepAccounting
<1> SUFFICES Owed' /\ (state = "MOVING" => remaining >= 0)'
  BY <1>t DEF AccountingInv, StepAccounting
<1>n. InFlight \in Nat /\ owed \in Int /\ remaining \in Int
  BY <1>t, InFlightSteps DEF TypeOK
<1>1. CASE FeedPush
  <2>1. InFlight' = InFlight + 1
    BY <1>1, <1>t, InFlightSteps
  <2>2. /\ state = "MOVING" /\ state' = "MOVING"
        /\ remaining > 0 /\ remaining' = remaining - 1 /\ owed' = owed
    BY <1>1, <1>n DEF FeedPush, Finished, history
  <2> QED
    BY <1>i, <1>n, <2>1, <2>2
<1>2. CASE FeedHalt
  <2>1. InFlight' = InFlight
    BY <1>2, <1>t, InFlightSteps DEF FeedHalt, pins
  <2>2. /\ state = "MOVING" /\ state' = "IDLE"
        /\ stop_req \/ remaining <= 0
        /\ owed' = IF stop_req THEN owed - remaining ELSE owed
    BY <1>2 DEF FeedHalt, Finished
  <2> QED
    BY <1>i, <1>n, <2>1, <2>2
<1>3. CASE UNCHANGED <<state, remaining, owed, txf, osr>>
  BY <1>i, <1>3, InFlightSteps, <1>t
<1>4. CASE FeedDone \/ NoCommand \/ CmdStop \/ UNCHANGED vars
  BY <1>3, <1>4 DEF FeedDone, NoCommand, CmdStop, vars, pins, history
<1>5. ASSUME NEW v \in SpeedInputs, CmdSpeed(v) PROVE UNCHANGED <<state, remaining, owed, txf, osr>>
  BY <1>5 DEF CmdSpeed, pins, history
<1>6. ASSUME NEW v \in AccelInputs, CmdAccel(v) \/ CmdDecel(v)
      PROVE  UNCHANGED <<state, remaining, owed, txf, osr>>
  BY <1>6 DEF CmdAccel, CmdDecel, pins
<1>7. ASSUME NEW n \in StepInputs, CmdMove(n)
      PROVE  Owed' /\ (state = "MOVING" => remaining >= 0)'
  <2>1. CASE state = "MOVING" \/ n = 0
    BY <1>3, <1>7, <2>1 DEF CmdMove, motion_start, pins, history
  <2>2. CASE state # "MOVING" /\ n # 0
    <3>1. n \in Int /\ n # INT_MIN
      BY Inputs, Hardware
    <3>2. /\ state' = "MOVING" /\ txf' = txf /\ osr' = osr
          /\ remaining' = IF n > 0 THEN n ELSE -n
          /\ owed' = owed + (IF n > 0 THEN n ELSE -n)
      BY <1>7, <2>2, <3>1 DEF CmdMove, motion_start, Negate
    <3>3. InFlight' = InFlight
      BY <3>2, <1>t, InFlightSteps
    <3> QED
      BY <1>i, <1>n, <2>2, <3>1, <3>2, <3>3
  <2> QED
    BY <2>1, <2>2
<1>8. CASE PioPull
  <2>1. InFlight' = InFlight /\ UNCHANGED <<state, remaining, owed>>
    BY <1>8, <1>t, InFlightSteps DEF PioPull, history
  <2> QED
    BY <1>i, <2>1
<1>9. CASE PioPulse
  <2>1. /\ InFlight' = InFlight - 1 /\ owed' = owed - 1
        /\ UNCHANGED <<state, remaining>>
    BY <1>9, <1>t, InFlightSteps DEF PioPulse
  <2> QED
    BY <1>i, <1>n, <2>1
<1> QED
  BY <1>1, <1>2, <1>3, <1>4, <1>5, <1>6, <1>7, <1>8, <1>9
  DEF Next, Core1, Commands, Pio

\* For every FIFO depth, profile and sequence of commands, each accepted step
\* is still to be pushed, queued in the PIO, or pulsed, provided no move asks
\* for INT32_MIN steps, whose count motion_start() cannot negate.
THEOREM StepsAccounted ==
  ASSUME INT_MIN \notin StepInputs
  PROVE  Spec => []StepAccounting
<1>1. AccountingInv => StepAccounting
  BY DEF AccountingInv
<1> QED
  BY <1>1, AccountingInit, AccountingStep, PTL DEF Spec

----------------------------------------------------------------------------
(* What happens after a stop.                                              *)

\* The strengthening of StopBound: while a stop is pending the move cannot
\* push, because the request is still set.
StopInv ==
  /\ TypeOK
  /\ StopBound
  /\ halting /\ state = "MOVING" => stop_req

LEMMA StopInit == Init => StopInv
<1> SUFFICES ASSUME Init PROVE StopInv
  OBVIOUS
<1>1. TypeOK
  BY TypeOKInit
<1> QED
  BY <1>1 DEF Init, StopInv, StopBound

LEMMA StopStep == StopInv /\ [Next]_vars => StopInv'
<1> SUFFICES ASSUME StopInv, [Next]_vars PROVE StopInv'
  OBVIOUS
<1>t. TypeOK /\ TypeOK'
  BY TypeOKStep DEF StopInv
<1> DEFINE Bound == halting => overshoot + InFlight <= TxDepth + 1
           Req   == halting /\ state = "MOVING" => stop_req
<1>i. Bound /\ Req
  BY DEF StopInv, StopBound
<1> SUFFICES Bound' /\ Req'
  BY <1>t DEF StopInv, StopBound
<1>n. /\ InFlight \in Nat /\ overshoot \in Nat /\ TxDepth \in Nat
      /\ InFlight <= TxDepth + 1
  BY <1>t, InFlightSteps, Hardware DEF TypeOK, InFlight
<1>1. CASE FeedPush
  <2>1. ~halting
    BY <1>1, <1>i DEF FeedPush, Finished
  <2>2. halting' = halting
    BY <1>1 DEF FeedPush, history
  <2> QED
    BY <2>1, <2>2
<1>2. CASE FeedHalt
  <2>1. InFlight' = InFlight
    BY <1>2, <1>t, InFlightSteps DEF FeedHalt, pins
  <2>2. state' = "IDLE" /\ halting' = halting /\ overshoot' = overshoot
    BY <1>2 DEF FeedHalt
  <2> QED
    BY <1>i, <2>1, <2>2
<1>3. CASE UNCHANGED <<state, stop_req, halting, overshoot, txf, osr>>
  BY <1>i, <1>3, InFlightSteps, <1>t
<1>4. CASE FeedDone \/ NoCommand \/ UNCHANGED vars
  BY <1>3, <1>4 DEF FeedDone, NoCommand, vars, pins, history
<1>5. ASSUME NEW v \in SpeedInputs, CmdSpeed(v)
      PROVE  UNCHANGED <<state, stop_req, halting, overshoot, txf, osr>>
  BY <1>5 DEF CmdSpeed, pins, history
<1>6. ASSUME NEW v \in AccelInputs, CmdAccel(v) \/ CmdDecel(v)
      PROVE  UNCHANGED <<state, stop_req, halting, overshoot, txf, osr>>
  BY <1>6 DEF CmdAccel, CmdDecel, pins
<1>7. ASSUME NEW n \in StepInputs, CmdMove(n) PROVE Bound' /\ Req'
  <2>1. CASE state = "MOVING" \/ n = 0
    BY <1>3, <1>7, <2>1 DEF CmdMove, motion_start, pins, history
  <2>2. CASE state # "MOVING" /\ n # 0
    <3>1. halting' = FALSE
      BY <1>7, <2>2 DEF CmdMove, motion_start
    <3> QED
      BY <3>1
  <2> QED
    BY <2>1, <2>2
<1>8. CASE CmdStop
  <2>1. CASE state # "MOVING"
    BY <1>3, <1>8, <2>1 DEF CmdStop, pins
  <2>2. CASE state = "MOVING"
    <3>1. /\ stop_req' = TRUE /\ txf' = txf /\ osr' = osr
          /\ overshoot' = IF halting THEN overshoot ELSE 0
      BY <1>8, <2>2 DEF CmdStop, pins
    <3>2. InFlight' = InFlight
      BY <3>1, <1>t, InFlightSteps
    <3>3. overshoot' + InFlight' <= TxDepth + 1
      BY <1>i, <1>n, <3>1, <3>2
    <3> QED
      BY <3>1, <3>3
  <2> QED
    BY <2>1, <2>2
<1>9. CASE PioPull
  <2>1. InFlight' = InFlight /\ UNCHANGED <<state, stop_req, halting, overshoot>>
    BY <1>9, <1>t, InFlightSteps DEF PioPull, history
  <2> QED
    BY <1>i, <2>1
<1>10. CASE PioPulse
  <2>1. /\ InFlight' = InFlight - 1 /\ UNCHANGED <<state, stop_req, halting>>
        /\ overshoot' = IF halting THEN overshoot + 1 ELSE overshoot
    BY <1>10, <1>t, InFlightSteps DEF PioPulse
  <2> QED
    BY <1>i, <1>n, <2>1
<1> QED
  BY <1>1, <1>2, <1>3, <1>4, <1>5, <1>6, <1>7, <1>8, <1>9, <1>10
  DEF Next, Core1, Commands, Pio

\* After an acknowledged stop the motor makes at most the pulses that were in
\* the PIO when the stop was accepted, for every FIFO depth and settings.
THEOREM StopsWithinFifo == Spec => []StopBound
<1>1. StopInv => StopBound
  BY DEF StopInv
<1> QED
  BY <1>1, StopInit, StopStep, PTL DEF Spec

----------------------------------------------------------------------------
(* The speed profile, for settings that are numbers.                       *)

\* The settings and the current speed within their limits.
ProfileRanges ==
  /\ max_speed \in MIN_SPEED2 .. ABS_MAX_SPEED2
  /\ accel \in 1 .. ABS_MAX_ACCEL
  /\ decel \in 1 .. ABS_MAX_ACCEL
  /\ speed \in Int
  /\ state = "MOVING" => speed \in MIN_SPEED2 .. ABS_MAX_SPEED2

\* The strengthening of BrakeBound and RateLimits: the ranges the clamps give.
ProfileInv ==
  /\ TypeOK
  /\ ProfileRanges
  /\ BrakeBound
  /\ RateLimits

\* next_speed() stays between the minimum and the absolute maximum, and
\* keeps the braking bound with one step less to go.
LEMMA NextSpeedBounds ==
  ASSUME ProfileRanges, state = "MOVING", remaining \in Int, remaining > 0
  PROVE  /\ next_speed \in MIN_SPEED2 .. ABS_MAX_SPEED2
         /\ speed - MIN_SPEED2 < remaining * (2 * decel) + 2 * accel =>
              next_speed - MIN_SPEED2 < (remaining - 1) * (2 * decel) + 2 * accel
<1> DEFINE q == (remaining - 1) * (2 * decel)
<1>1. /\ speed \in Int /\ MIN_SPEED2 <= speed /\ speed <= ABS_MAX_SPEED2
      /\ max_speed \in Int /\ MIN_SPEED2 <= max_speed /\ max_speed <= ABS_MAX_SPEED2
      /\ accel \in Int /\ accel > 0 /\ decel \in Int /\ decel > 0
      /\ MIN_SPEED2 \in Int /\ ABS_MAX_SPEED2 \in Int
      /\ NaN \notin Int
  BY SpeedLimits, AccelLimits, Hardware DEF ProfileRanges
<1>2. q \in Int /\ q >= 0
  <2>1. ASSUME NEW x \in Nat, NEW y \in Nat PROVE x * y \in Nat
    BY SMT
  <2>2. remaining - 1 \in Nat /\ 2 * decel \in Nat
    BY <1>1
  <2> QED
    BY <2>1, <2>2
<1>3. remaining * (2 * decel) = q + 2 * decel
  BY <1>1
<1> HIDE DEF q
<1>4. MustBrake <=> q <= speed - MIN_SPEED2
  BY <1>1 DEF MustBrake, q
<1>5. CASE MustBrake
  <2>1. next_speed = IF MIN_SPEED2 < speed - 2 * decel THEN speed - 2 * decel ELSE MIN_SPEED2
    BY <1>1, <1>5 DEF next_speed, BrakeTo, FLess
  <2> QED
    BY <1>1, <1>2, <1>3, <2>1 DEF q
<1>6. CASE ~MustBrake
  <2>1. speed - MIN_SPEED2 < q
    BY <1>1, <1>2, <1>4, <1>6
  <2>2. next_speed \in Int /\ next_speed <= max_speed
        /\ next_speed >= MIN_SPEED2
        /\ next_speed <= speed + 2 * accel
    BY <1>1, <1>6 DEF next_speed, AccelTo, FLess
  <2> QED
    BY <1>1, <1>2, <2>1, <2>2 DEF q
<1> QED
  BY <1>5, <1>6

\* The clamps of handle_command() keep numeric payloads in range.
LEMMA ClampRanges ==
  ASSUME NaN \notin SpeedInputs, NaN \notin AccelInputs
  PROVE  /\ \A v \in SpeedInputs : clamp_speed(v) \in MIN_SPEED2 .. ABS_MAX_SPEED2
         /\ \A v \in AccelInputs : clamp_accel(v, DEF_ACCEL) \in 1 .. ABS_MAX_ACCEL
         /\ \A v \in AccelInputs : clamp_accel(v, DEF_DECEL) \in 1 .. ABS_MAX_ACCEL
<1>1. ASSUME NEW v \in SpeedInputs PROVE clamp_speed(v) \in MIN_SPEED2 .. ABS_MAX_SPEED2
  <2>1. v \in Int
    BY Inputs
  <2> QED
    BY <2>1, SpeedLimits, Hardware DEF clamp_speed, FLess
<1>2. ASSUME NEW v \in AccelInputs
      PROVE  /\ clamp_accel(v, DEF_ACCEL) \in 1 .. ABS_MAX_ACCEL
             /\ clamp_accel(v, DEF_DECEL) \in 1 .. ABS_MAX_ACCEL
  <2>1. v \in Int
    BY Inputs
  <2> QED
    BY <2>1, AccelLimits, Hardware DEF clamp_accel
<1> QED
  BY <1>1, <1>2

LEMMA ProfileInit == Init => ProfileInv
<1> SUFFICES ASSUME Init PROVE ProfileInv
  OBVIOUS
<1>1. TypeOK
  BY TypeOKInit
<1>2. ProfileRanges
  BY SpeedLimits, AccelLimits DEF Init, ProfileRanges
<1>3. BrakeBound /\ RateLimits
  BY DEF Init, BrakeBound, RateLimits
<1> QED
  BY <1>1, <1>2, <1>3 DEF ProfileInv

\* A pushed word is within the limits when the speed is.
LEMMA PushRate ==
  ASSUME TypeOK, RateLimits, pio_push_step(next_speed),
         next_speed \in MIN_SPEED2 .. ABS_MAX_SPEED2
  PROVE  RateLimits'
<1> DEFINE h == hz_to_half_period(next_speed)
           lo == hz_to_half_period(ABS_MAX_SPEED2)
           hi == hz_to_half_period(MIN_SPEED2)
           w  == [half |-> h, dir |-> dir]
<1>1. lo <= h /\ h <= hi
  BY HalfPeriodAntitone, SpeedLimits
<1>2. txf \in Seq(Step) /\ txf' = Append(txf, w)
  BY DEF TypeOK, pio_push_step
<1>3. w.half = h
  OBVIOUS
<1>4. \A i \in 1 .. Len(txf) : lo <= txf[i].half /\ txf[i].half <= hi
  BY DEF RateLimits
<1> HIDE DEF h, lo, hi, w
<1>5. Len(txf') = Len(txf) + 1 /\ txf'[Len(txf) + 1] = w
      /\ \A i \in 1 .. Len(txf) : txf'[i] = txf[i]
  BY <1>2
<1>6. \A i \in 1 .. Len(txf') : lo <= txf'[i].half /\ txf'[i].half <= hi
  BY <1>1, <1>2, <1>3, <1>4, <1>5
<1> QED
  BY <1>6 DEF RateLimits, lo, hi

LEMMA ProfileStep ==
  ASSUME NaN \notin SpeedInputs, NaN \notin AccelInputs
  PROVE  ProfileInv /\ [Next]_vars => ProfileInv'
<1> SUFFICES ASSUME ProfileInv, [Next]_vars PROVE ProfileInv'
  OBVIOUS
<1>t. TypeOK /\ TypeOK'
  BY TypeOKStep DEF ProfileInv
<1>i. ProfileRanges /\ BrakeBound /\ RateLimits
  BY DEF ProfileInv
<1> SUFFICES ProfileRanges' /\ BrakeBound' /\ RateLimits'
  BY <1>t DEF ProfileInv
<1>1. CASE FeedPush
  <2>1. /\ state = "MOVING" /\ remaining \in Int /\ remaining > 0
        /\ speed' = next_speed /\ remaining' = remaining - 1
        /\ UNCHANGED <<state, max_speed, accel, decel, detuned>>
    BY <1>1, <1>t DEF FeedPush, Finished, TypeOK, profile, history
  <2>2. next_speed \in MIN_SPEED2 .. ABS_MAX_SPEED2
    BY <1>i, <2>1, NextSpeedBounds
  <2>3. ProfileRanges'
    BY <1>i, <2>1, <2>2, SpeedLimits DEF ProfileRanges
  <2>4. BrakeBound'
    <3>1. speed - MIN_SPEED2 < remaining * (2 * decel) + 2 * accel =>
              next_speed - MIN_SPEED2 < (remaining - 1) * (2 * decel) + 2 * accel
      BY <1>i, <2>1, NextSpeedBounds
    <3>2. ~detuned => speed - MIN_SPEED2 < remaining * (2 * decel) + 2 * accel
      BY <1>i, <2>1 DEF BrakeBound
    <3> QED
      BY <2>1, <3>1, <3>2 DEF BrakeBound
  <2>5. RateLimits'
    BY <1>1, <1>t, <1>i, <2>2, PushRate DEF FeedPush
  <2> QED
    BY <2>3, <2>4, <2>5
<1>2. CASE FeedHalt
  BY <1>i, <1>2 DEF FeedHalt, profile, pins, ProfileRanges, BrakeBound, RateLimits
<1>3. CASE UNCHANGED <<state, profile, speed, remaining, txf, detuned>>
  BY <1>i, <1>3 DEF profile, ProfileRanges, BrakeBound, RateLimits
<1>4. CASE FeedDone \/ NoCommand \/ CmdStop \/ PioPulse \/ UNCHANGED vars
  BY <1>3, <1>4 DEF FeedDone, NoCommand, CmdStop, PioPulse, vars, pins, history
<1>5. ASSUME NEW v \in SpeedInputs, CmdSpeed(v)
      PROVE  ProfileRanges' /\ BrakeBound' /\ RateLimits'
  <2>1. max_speed' \in MIN_SPEED2 .. ABS_MAX_SPEED2
    BY <1>5, ClampRanges DEF CmdSpeed
  <2> QED
    BY <1>i, <1>5, <2>1 DEF CmdSpeed, pins, history, ProfileRanges, BrakeBound, RateLimits
<1>6. ASSUME NEW v \in AccelInputs, CmdAccel(v)
      PROVE  ProfileRanges' /\ BrakeBound' /\ RateLimits'
  <2>1. /\ accel' \in 1 .. ABS_MAX_ACCEL
        /\ detuned' = (detuned \/ (state = "MOVING" /\ (accel = NaN \/ FLess(accel', accel))))
        /\ UNCHANGED <<state, max_speed, decel, speed, remaining, txf>>
    BY <1>6, ClampRanges DEF CmdAccel, Detune, pins
  <2>2. ProfileRanges' /\ RateLimits'
    BY <1>i, <2>1 DEF ProfileRanges, RateLimits
  <2>3. BrakeBound'
    <3> SUFFICES ASSUME state' = "MOVING", ~detuned', remaining' >= 0
                 PROVE  (speed - MIN_SPEED2 < remaining * (2 * decel) + 2 * accel)'
      BY DEF BrakeBound
    <3>1. ~detuned /\ ~FLess(accel', accel) /\ state = "MOVING"
      BY <2>1
    <3>2. accel' >= accel
      BY <3>1, <2>1, <1>i, AccelLimits, Hardware DEF FLess, ProfileRanges
    <3>3. speed - MIN_SPEED2 < remaining * (2 * decel) + 2 * accel
      BY <3>1, <2>1, <1>i DEF BrakeBound
    <3>4. remaining * (2 * decel) \in Int
      BY <1>i, <1>t, AccelLimits DEF ProfileRanges, TypeOK
    <3> QED
      BY <2>1, <3>2, <3>3, <3>4, <1>i, AccelLimits, SpeedLimits DEF ProfileRanges
  <2> QED
    BY <2>2, <2>3
<1>7. ASSUME NEW v \in AccelInputs, CmdDecel(v)
      PROVE  ProfileRanges' /\ BrakeBound' /\ RateLimits'
  <2>1. /\ decel' \in 1 .. ABS_MAX_ACCEL
        /\ detuned' = (detuned \/ (state = "MOVING" /\ (decel = NaN \/ FLess(decel', decel))))
        /\ UNCHANGED <<state, max_speed, accel, speed, remaining, txf>>
    BY <1>7, ClampRanges DEF CmdDecel, Detune, pins
  <2>2. ProfileRanges' /\ RateLimits'
    BY <1>i, <2>1 DEF ProfileRanges, RateLimits
  <2>3. BrakeBound'
    <3> SUFFICES ASSUME state' = "MOVING", ~detuned', remaining' >= 0
                 PROVE  (speed - MIN_SPEED2 < remaining * (2 * decel) + 2 * accel)'
      BY DEF BrakeBound
    <3>1. ~detuned /\ ~FLess(decel', decel) /\ state = "MOVING"
      BY <2>1
    <3>2. decel' >= decel /\ decel \in Int /\ decel' \in Int /\ accel \in Int
      BY <3>1, <2>1, <1>i, AccelLimits, Hardware DEF FLess, ProfileRanges
    <3>3. speed - MIN_SPEED2 < remaining * (2 * decel) + 2 * accel
      BY <3>1, <2>1, <1>i DEF BrakeBound
    <3>4. ASSUME NEW r \in Nat, NEW x \in Int, NEW y \in Int, x <= y
          PROVE  r * x <= r * y /\ r * x \in Int /\ r * y \in Int
      <4>1. ASSUME NEW a \in Nat, NEW b \in Nat PROVE a * b \in Nat
        BY SMT
      <4>2. y - x \in Nat
        BY <3>4
      <4>3. r * (y - x) \in Nat
        BY <4>1, <4>2
      <4>4. r * (y - x) = r * y - r * x /\ r * x \in Int /\ r * y \in Int
        BY <3>4
      <4> QED
        BY <4>3, <4>4
    <3>5. remaining \in Nat
      BY <2>1, <1>t DEF TypeOK
    <3>6. remaining * (2 * decel) <= remaining * (2 * decel')
          /\ remaining * (2 * decel) \in Int /\ remaining * (2 * decel') \in Int
      BY <3>2, <3>4, <3>5
    <3> QED
      BY <2>1, <3>2, <3>3, <3>6, <1>i, SpeedLimits DEF ProfileRanges
  <2> QED
    BY <2>2, <2>3
<1>8. ASSUME NEW n \in StepInputs, CmdMove(n)
      PROVE  ProfileRanges' /\ BrakeBound' /\ RateLimits'
  <2>1. CASE state = "MOVING" \/ n = 0
    BY <1>3, <1>8, <2>1 DEF CmdMove, motion_start, pins, history
  <2>2. CASE state # "MOVING" /\ n # 0
    <3>1. /\ speed' = MIN_SPEED2 /\ txf' = txf
          /\ UNCHANGED <<max_speed, accel, decel>>
      BY <1>8, <2>2 DEF CmdMove, motion_start, profile
    <3>2. ProfileRanges' /\ RateLimits'
      BY <1>i, <3>1, SpeedLimits DEF ProfileRanges, RateLimits
    <3>3. BrakeBound'
      <4> SUFFICES ASSUME remaining' >= 0
                   PROVE  (speed - MIN_SPEED2 < remaining * (2 * decel) + 2 * accel)'
        BY DEF BrakeBound
      <4>1. ASSUME NEW x \in Nat, NEW y \in Nat PROVE x * y \in Nat
        BY SMT
      <4>2. remaining' \in Nat
        BY <1>t DEF TypeOK
      <4>3. /\ 2 * decel \in Nat /\ accel \in Nat /\ accel > 0 /\ MIN_SPEED2 \in Nat
            /\ decel' = decel /\ accel' = accel /\ speed' = MIN_SPEED2
        BY <1>i, <3>1, AccelLimits, SpeedLimits DEF ProfileRanges
      <4>4. remaining' * (2 * decel) \in Nat
        BY <4>1, <4>2, <4>3
      <4> QED
        BY <4>3, <4>4
    <3> QED
      BY <3>2, <3>3
  <2> QED
    BY <2>1, <2>2
<1>9. CASE PioPull
  <2>1. UNCHANGED <<state, profile, speed, remaining, detuned>>
    BY <1>9 DEF PioPull, history
  <2>2. ProfileRanges' /\ BrakeBound'
    BY <1>i, <2>1 DEF profile, ProfileRanges, BrakeBound
  <2>3. txf \in Seq(Step) /\ txf # <<>> /\ txf' = Tail(txf)
    BY <1>9, <1>t DEF PioPull, TypeOK
  <2>4. Len(txf') = Len(txf) - 1 /\ \A i \in 1 .. Len(txf') : txf'[i] = txf[i + 1]
    BY <2>3
  <2>5. Len(txf) \in Nat
    BY <2>3
  <2>6. \A i \in 1 .. Len(txf') : i + 1 \in 1 .. Len(txf)
    BY <2>4, <2>5
  <2>7. RateLimits'
    BY <1>i, <2>4, <2>6 DEF RateLimits
  <2> QED
    BY <2>2, <2>7
<1> QED
  BY <1>1, <1>2, <1>3, <1>4, <1>5, <1>6, <1>7, <1>8, <1>9
  DEF Next, Core1, Commands, Pio

\* The last step of a move is within one step of acceleration of the minimum
\* speed, for all settings and all step counts, as long as no payload is NaN
\* and neither accel nor decel is lowered while the move runs.
THEOREM BrakesInTime ==
  ASSUME NaN \notin SpeedInputs, NaN \notin AccelInputs
  PROVE  Spec => []BrakeBound
<1>1. ProfileInv => BrakeBound
  BY DEF ProfileInv
<1> QED
  BY <1>1, ProfileInit, ProfileStep, PTL DEF Spec

\* Every queued word asks for a rate between MIN_SPEED_HZ and ABS_MAX_SPEED,
\* whatever is changed during a move, as long as no payload is NaN.
THEOREM RateWithinLimits ==
  ASSUME NaN \notin SpeedInputs, NaN \notin AccelInputs
  PROVE  Spec => []RateLimits
<1>1. ProfileInv => RateLimits
  BY DEF ProfileInv
<1> QED
  BY <1>1, ProfileInit, ProfileStep, PTL DEF Spec
=============================================================================
