--------------------------- MODULE StepperMotion ---------------------------
(***************************************************************************)
(* The motion controller that runs bare-metal on core1                     *)
(* (core1/core1_main.c) and the PIO program that turns its output into     *)
(* STEP pulses (core1/stepper.pio).                                        *)
(*                                                                         *)
(* core1 repeats two phases for ever: while a move is active it tops up    *)
(* the PIO TX FIFO with one word per step, then it polls the mailbox for   *)
(* one command.  The PIO state machine runs beside it: it pulls a word,    *)
(* makes one pulse, and stalls when the FIFO is empty.                     *)
(*                                                                         *)
(* Speeds are represented by their squares, in which the profile of        *)
(* next_speed() is linear and its comparisons keep their meaning; the      *)
(* squares are exact integers where the code has floats, and NaN stands    *)
(* for the float that every comparison rejects.  A negative speed is       *)
(* represented by a negative number.                                       *)
(***************************************************************************)
EXTENDS Integers, Sequences, FiniteSets

CONSTANTS
  MIN_SPEED2,      \* MIN_SPEED_HZ squared
  ABS_MAX_SPEED2,  \* ABS_MAX_SPEED squared
  ABS_MAX_ACCEL,
  DEF_MAX_SPEED2,  \* DEF_MAX_SPEED squared
  DEF_ACCEL,
  DEF_DECEL,
  PIO_F_SYS,       \* PIO clock, the numerator of the half-period formula
  TxDepth,         \* entries of the PIO TX FIFO
  INT_MIN,         \* the least int32_t
  NaN,             \* the float that is not a number
  SpeedInputs,     \* payloads of CMD_SPEED (squared, sign kept)
  AccelInputs,     \* payloads of CMD_ACCEL and CMD_DECEL
  StepInputs       \* payloads of CMD_MOVE

ASSUME SpeedLimits ==
  /\ MIN_SPEED2 \in Nat \ {0}
  /\ ABS_MAX_SPEED2 \in Nat
  /\ DEF_MAX_SPEED2 \in MIN_SPEED2 .. ABS_MAX_SPEED2

ASSUME AccelLimits ==
  /\ ABS_MAX_ACCEL \in Nat
  /\ DEF_ACCEL \in 1 .. ABS_MAX_ACCEL
  /\ DEF_DECEL \in 1 .. ABS_MAX_ACCEL

ASSUME Hardware ==
  /\ PIO_F_SYS \in Nat
  /\ TxDepth \in Nat \ {0}
  /\ INT_MIN \in Int
  /\ INT_MIN < 0
  /\ NaN \notin Int

ASSUME Inputs ==
  /\ SpeedInputs \subseteq Int \cup {NaN}
  /\ AccelInputs \subseteq Int \cup {NaN}
  /\ StepInputs \subseteq INT_MIN .. (-INT_MIN - 1)

VARIABLES
  (* struct M *)
  state,      \* "IDLE" or "MOVING"
  max_speed,  \* squared
  accel,
  decel,
  speed,      \* squared; 0 when idle
  remaining,  \* steps left to push into the PIO FIFO
  stop_req,
  (* hardware *)
  dir,        \* level of the DIR pin: 1 forward, 0 reverse
  txf,        \* the PIO TX FIFO, with the direction each step was meant for
  osr,        \* <<>> or the one step the PIO program is executing
  (* control *)
  pc,         \* "feed" or "poll", the phase of the main loop
  (* history, never read by the program *)
  owed,       \* steps of accepted moves, less those pulsed or aborted
  detuned,    \* accel or decel was lowered during the current move
  halting,    \* a stop was accepted and no move since
  overshoot   \* pulses made while halting

profile == <<max_speed, accel, decel>>
pins    == <<dir, txf, osr>>
history == <<owed, detuned, halting, overshoot>>
vars    == <<state, profile, speed, remaining, stop_req, pins, pc, history>>

Float == Int \cup {NaN}
Step  == [half : Nat, dir : {0, 1}]

TypeOK ==
  /\ state \in {"IDLE", "MOVING"}
  /\ max_speed \in Float
  /\ accel \in Float
  /\ decel \in Float
  /\ speed \in Float
  /\ remaining \in Int
  /\ stop_req \in BOOLEAN
  /\ dir \in {0, 1}
  /\ txf \in Seq(Step)
  /\ osr \in Seq(Step)
  /\ Len(txf) <= TxDepth
  /\ Len(osr) <= 1
  /\ pc \in {"feed", "poll"}
  /\ owed \in Int
  /\ detuned \in BOOLEAN
  /\ halting \in BOOLEAN
  /\ overshoot \in Nat

----------------------------------------------------------------------------
(* Conversions and the speed profile.                                      *)

\* x < y on floats: false when either operand is NaN.
FLess(x, y) == x # NaN /\ y # NaN /\ x < y

\* The half-period word of a step: PIO_F_SYS / (2 * hz) - 3, truncated, and
\* 0 when that is not positive or not a number.  In squares, h + 3 fits in
\* PIO_F_SYS / (2 * hz) iff (2 * (h + 3))^2 * hz^2 <= PIO_F_SYS^2, and the
\* word is the number of positive h that fit.
Fits(h, hz2) == (2 * (h + 3)) * (2 * (h + 3)) * hz2 <= PIO_F_SYS * PIO_F_SYS

hz_to_half_period(hz2) ==
  IF hz2 = NaN THEN 0
  ELSE Cardinality({h \in 1 .. PIO_F_SYS : Fits(h, hz2)})

\* Mutant: the brake distance without the + 1 step.
MustBrakeLate ==
  /\ speed # NaN
  /\ decel # NaN
  /\ remaining * (2 * decel) <= speed - MIN_SPEED2

\* remaining <= (int32_t)(brake_steps + 1).  The cast of a NaN gives 0 on
\* this core, below every remaining the function is called with.
MustBrake ==
  /\ speed # NaN
  /\ decel # NaN
  /\ (remaining - 1) * (2 * decel) <= speed - MIN_SPEED2

BrakeTo ==
  IF FLess(MIN_SPEED2, speed - 2 * decel) THEN speed - 2 * decel ELSE MIN_SPEED2

AccelTo ==
  IF accel # NaN /\ FLess(speed + 2 * accel, max_speed)
  THEN speed + 2 * accel
  ELSE max_speed

next_speed ==
  CASE MustBrake -> BrakeTo
    [] ~MustBrake /\ FLess(speed, max_speed) -> AccelTo
    [] OTHER -> max_speed

----------------------------------------------------------------------------
(* Feeding the PIO: the inner loop of core1_main().                        *)

\* Mutant: full one entry too late.
pio_tx_fullLate == Len(txf) > TxDepth

pio_tx_full == Len(txf) >= TxDepth

pio_push_step(hz2) ==
  txf' = Append(txf, [half |-> hz_to_half_period(hz2), dir |-> dir])

\* Mutant: the count is let go one below zero.
FinishedLate == stop_req \/ remaining < 0

\* Mutant: a stop request is not looked at.
FinishedDeaf == remaining <= 0

\* feed_step() has no step to push: a stop is requested or none is left.
Finished == stop_req \/ remaining <= 0

\* feed_step() pushes the next step of the move.
FeedPush ==
  /\ pc = "feed" /\ state = "MOVING" /\ ~pio_tx_full
  /\ ~Finished
  /\ speed' = next_speed
  /\ pio_push_step(next_speed)
  /\ remaining' = remaining - 1
  /\ UNCHANGED <<state, profile, stop_req, dir, osr, pc, history>>

\* Mutant: the end of the move is not recorded.
FeedHaltForgets ==
  /\ pc = "feed" /\ state = "MOVING" /\ ~pio_tx_full
  /\ Finished
  /\ speed' = 0
  /\ pc' = "poll"
  /\ UNCHANGED <<state, profile, remaining, stop_req, pins, history>>

\* feed_step() ends the move.  The steps a stop leaves unpushed are no longer
\* owed.
FeedHalt ==
  /\ pc = "feed" /\ state = "MOVING" /\ ~pio_tx_full
  /\ Finished
  /\ state' = "IDLE"
  /\ speed' = 0
  /\ stop_req' = FALSE
  /\ pc' = "poll"
  /\ owed' = IF stop_req THEN owed - remaining ELSE owed
  /\ UNCHANGED <<profile, remaining, pins, detuned, halting, overshoot>>

\* The main loop goes on to the mailbox: there is nothing to feed, or no room.
FeedDone ==
  /\ pc = "feed"
  /\ state = "IDLE" \/ pio_tx_full
  /\ pc' = "poll"
  /\ UNCHANGED <<state, profile, speed, remaining, stop_req, pins, history>>

----------------------------------------------------------------------------
(* The commands, handle_command(): each is one poll of the mailbox.        *)

\* Mutant: the upper limit is missing.
clamp_speedLow(v) == IF FLess(v, MIN_SPEED2) THEN MIN_SPEED2 ELSE v

clamp_speed(v) ==
  CASE FLess(v, MIN_SPEED2)     -> MIN_SPEED2
    [] FLess(ABS_MAX_SPEED2, v) -> ABS_MAX_SPEED2
    [] OTHER                    -> v

clamp_accel(v, default) ==
  IF v # NaN /\ (v <= 0 \/ v > ABS_MAX_ACCEL) THEN default ELSE v

\* One visit of the main loop to the mailbox.
Poll == pc = "poll" /\ pc' = "feed"

\* The mailbox is empty, or holds a command that changes nothing core1 keeps:
\* CMD_STATUS and unknown opcodes.
NoCommand ==
  /\ Poll
  /\ UNCHANGED <<state, profile, speed, remaining, stop_req, pins, history>>

CmdSpeed(v) ==
  /\ Poll
  /\ max_speed' = clamp_speed(v)
  /\ UNCHANGED <<state, accel, decel, speed, remaining, stop_req, pins, history>>

\* The move in progress is detuned when new, a bound its profile relied on,
\* is below the old one.
Detune(old, new) ==
  detuned' = (detuned \/ (state = "MOVING" /\ (old = NaN \/ FLess(new, old))))

CmdAccel(v) ==
  /\ Poll
  /\ accel' = clamp_accel(v, DEF_ACCEL)
  /\ Detune(accel, clamp_accel(v, DEF_ACCEL))
  /\ UNCHANGED <<state, max_speed, decel, speed, remaining, stop_req, pins,
                 owed, halting, overshoot>>

CmdDecel(v) ==
  /\ Poll
  /\ decel' = clamp_accel(v, DEF_DECEL)
  /\ Detune(decel, clamp_accel(v, DEF_DECEL))
  /\ UNCHANGED <<state, max_speed, accel, speed, remaining, stop_req, pins,
                 owed, halting, overshoot>>

\* -steps on an int32_t, which wraps at the least one.
Negate(n) == IF n = INT_MIN THEN INT_MIN ELSE -n

\* motion_start(): the DIR pin first, then the move.  It does not look at
\* what the PIO still has queued from the move before.
motion_start(steps) ==
  IF steps = 0
  THEN UNCHANGED <<state, speed, remaining, stop_req, pins, history>>
  ELSE /\ dir' = IF steps > 0 THEN 1 ELSE 0
       /\ remaining' = IF steps > 0 THEN steps ELSE Negate(steps)
       /\ speed' = MIN_SPEED2
       /\ stop_req' = FALSE
       /\ state' = "MOVING"
       /\ owed' = owed + (IF steps > 0 THEN steps ELSE -steps)
       /\ detuned' = FALSE
       /\ halting' = FALSE
       /\ overshoot' = 0
       /\ UNCHANGED <<txf, osr>>

CmdMove(steps) ==
  /\ Poll
  /\ IF state = "MOVING"
     THEN UNCHANGED <<state, speed, remaining, stop_req, pins, history>>
     ELSE motion_start(steps)
  /\ UNCHANGED profile

CmdStop ==
  /\ Poll
  /\ IF state = "MOVING"
     THEN /\ stop_req' = TRUE
          /\ halting' = TRUE
          /\ overshoot' = IF halting THEN overshoot ELSE 0
     ELSE UNCHANGED <<stop_req, halting, overshoot>>
  /\ UNCHANGED <<state, profile, speed, remaining, pins, owed, detuned>>

Commands ==
  \/ \E v \in SpeedInputs : CmdSpeed(v)
  \/ \E v \in AccelInputs : CmdAccel(v)
  \/ \E v \in AccelInputs : CmdDecel(v)
  \/ \E n \in StepInputs : CmdMove(n)
  \/ CmdStop

----------------------------------------------------------------------------
(* The PIO program.                                                        *)

\* pull block; mov y, osr.
PioPull ==
  /\ osr = <<>> /\ txf # <<>>
  /\ osr' = <<Head(txf)>>
  /\ txf' = Tail(txf)
  /\ UNCHANGED <<state, profile, speed, remaining, stop_req, dir, pc, history>>

\* STEP goes high for half a period and low for the other half, and the
\* program wraps to the next pull.
PioPulse ==
  /\ osr # <<>>
  /\ osr' = <<>>
  /\ owed' = owed - 1
  /\ overshoot' = IF halting THEN overshoot + 1 ELSE overshoot
  /\ UNCHANGED <<state, profile, speed, remaining, stop_req, dir, txf, pc,
                 detuned, halting>>

----------------------------------------------------------------------------
Init ==
  /\ state = "IDLE"
  /\ max_speed = DEF_MAX_SPEED2
  /\ accel = DEF_ACCEL
  /\ decel = DEF_DECEL
  /\ speed = 0
  /\ remaining = 0
  /\ stop_req = FALSE
  /\ dir = 1                \* enable_dir_init(): forward
  /\ txf = <<>>
  /\ osr = <<>>
  /\ pc = "feed"
  /\ owed = 0
  /\ detuned = FALSE
  /\ halting = FALSE
  /\ overshoot = 0

Core1 == FeedPush \/ FeedHalt \/ FeedDone \/ NoCommand \/ Commands
Pio   == PioPull \/ PioPulse
Next  == Core1 \/ Pio

\* core1 is a busy loop and the PIO a clocked state machine: neither stops.
Spec == Init /\ [][Next]_vars /\ WF_vars(Core1) /\ WF_vars(Pio)

----------------------------------------------------------------------------
(* Correctness.                                                            *)

InFlight == Len(txf) + Len(osr)

\* Every accepted step is accounted for: it is still to be pushed, or queued
\* in the PIO, or it has been pulsed (core1_main.c, feed_step and motion_start).
\* So when core1 is idle and the PIO drained, exactly the requested number of
\* pulses has been made.
StepAccounting ==
  owed = InFlight + (IF state = "MOVING" THEN remaining ELSE 0)

\* Whatever numbers the settings were changed to during a move (NaN is not
\* one), every word handed to the PIO asks for a rate between MIN_SPEED_HZ and
\* ABS_MAX_SPEED.
RateLimits ==
  \A i \in 1 .. Len(txf) :
    /\ hz_to_half_period(ABS_MAX_SPEED2) <= txf[i].half
    /\ txf[i].half <= hz_to_half_period(MIN_SPEED2)

\* The braking rule of next_speed() keeps the excess over the minimum speed
\* within what the remaining steps can shed plus one step of acceleration, so
\* the last step of a move is within one acceleration step of MIN_SPEED_HZ.
\* Lowering accel or decel during the move voids it.
BrakeBound ==
  (state = "MOVING" /\ ~detuned /\ remaining >= 0) =>
    speed - MIN_SPEED2 < remaining * (2 * decel) + 2 * accel

\* After an acknowledged stop the motor makes at most the pulses that were in
\* the PIO when it was accepted: no step is pushed any more.
StopBound == halting => overshoot + InFlight <= TxDepth + 1

\* Every move ends, by itself or by a stop: core1 becomes idle again.
MoveTerminates == (state = "MOVING") ~> (state = "IDLE")

\* Once core1 stays idle every accepted step is eventually pulsed or aborted.
Settles == <>[](state = "IDLE") => <>[](owed = 0)

(* What the documentation says and the code does not do.                   *)

\* A step is pulsed with the DIR pin as its move set it.
PulsesInMoveDirection == [][PioPulse => dir = osr[1].dir]_vars
=============================================================================
