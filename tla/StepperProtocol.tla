-------------------------- MODULE StepperProtocol --------------------------
(***************************************************************************)
(* The vocabulary core0 and core1 share (core1/mailbox_proto.h): words,    *)
(* opcodes and requests, and what core1 does and answers for a complete    *)
(* request (handle_command() in core1/core1_main.c).                       *)
(***************************************************************************)
EXTENDS StepperMotion

CONSTANTS
  FloatBits,  \* what the bits of a positive float are as an int32_t
  Denormal    \* what the bits of a small positive int are as a float

ASSUME WordAssumption ==
  /\ FloatBits \in Nat \ {0}
  /\ Denormal \in Nat \ {0}

----------------------------------------------------------------------------
(* Words.  A 32-bit word is tagged with the type it was packed from; the   *)
(* receiver reinterprets the bits.                                         *)

IntWord(n) == [t |-> "int", v |-> n]

mbox_pack_float(x) == IF x = 0 THEN IntWord(0) ELSE [t |-> "float", v |-> x]

\* Small positive ints are denormal floats, small negative ones are NaNs.
mbox_unpack_float(w) ==
  CASE w.t = "float"              -> w.v
    [] w.t = "int" /\ w.v = 0     -> 0
    [] w.t = "int" /\ w.v < 0     -> NaN
    [] w.t = "int" /\ w.v > 0     -> Denormal

ToInt32(w) ==
  CASE w.t = "int" -> w.v
    [] w.t = "float" /\ FLess(w.v, 0) -> -FloatBits
    [] OTHER -> FloatBits

CMD_SPEED  == 0
CMD_ACCEL  == 1
CMD_DECEL  == 2
CMD_MOVE   == 3
CMD_STOP   == 4
CMD_STATUS == 5
HasPayload == {CMD_SPEED, CMD_ACCEL, CMD_DECEL, CMD_MOVE, CMD_STATUS}

STEPPER_ACK_OK   == 0
STEPPER_ACK_BUSY == 1

\* A request is an opcode and its payload word (CMD_STOP has none); the client
\* that sent it is kept for the properties.
Request(op, w, c) == [op |-> op, payload |-> w, by |-> c]
NoPayload == IntWord(0)

\* The payload words core0 can send.
Payloads ==
       {mbox_pack_float(v) : v \in SpeedInputs \cup AccelInputs}
  \cup {IntWord(n) : n \in StepInputs \cup 0 .. 5}

----------------------------------------------------------------------------
(* A complete request at core1.                                            *)

status_reply(field) ==
  CASE field = 0 -> IntWord(IF state = "MOVING" THEN 1 ELSE 0)
    [] field = 1 -> mbox_pack_float(max_speed)
    [] field = 2 -> mbox_pack_float(accel)
    [] field = 3 -> mbox_pack_float(decel)
    [] field = 4 -> mbox_pack_float(speed)
    [] field = 5 -> IntWord(remaining)
    [] OTHER     -> IntWord(0)

\* The effect of opcode op with payload word w on core1's state.
Perform(op, w) ==
  LET v == mbox_unpack_float(w) IN
  \/ op = CMD_SPEED  /\ CmdSpeed(v)
  \/ op = CMD_ACCEL  /\ CmdAccel(v)
  \/ op = CMD_DECEL  /\ CmdDecel(v)
  \/ op = CMD_MOVE   /\ CmdMove(ToInt32(w))
  \/ op = CMD_STOP   /\ CmdStop
  \/ op = CMD_STATUS /\ NoCommand

\* The reply word.  The settings are echoed as accepted.
ReplyTo(op, w) ==
  LET v == mbox_unpack_float(w) IN
  CASE op = CMD_SPEED  -> mbox_pack_float(clamp_speed(v))
    [] op = CMD_ACCEL  -> mbox_pack_float(clamp_accel(v, DEF_ACCEL))
    [] op = CMD_DECEL  -> mbox_pack_float(clamp_accel(v, DEF_DECEL))
    [] op = CMD_MOVE   -> IntWord(IF state = "MOVING" THEN STEPPER_ACK_BUSY ELSE STEPPER_ACK_OK)
    [] op = CMD_STOP   -> IntWord(STEPPER_ACK_OK)
    [] op = CMD_STATUS -> status_reply(ToInt32(w))
=============================================================================
