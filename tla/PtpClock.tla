------------------------------ MODULE PtpClock ------------------------------
(***************************************************************************)
(* The LAN9250's IEEE 1588 clock (drivers/eth_lan9250/eth_lan9250.c, the   *)
(* ptp_clock API over it in ptp_clock_lan9250.c, and its users in          *)
(* src/ptp_shell.c and main()): snapshot read, load, adjustment as a       *)
(* read-modify-write, rate trim, and the 1PPS output.                      *)
(*                                                                         *)
(* Every SPI transfer is a step.  CLOCK_SEC and CLOCK_NS are one pair of   *)
(* registers, filled by CLOCK_READ and loaded by CLOCK_LOAD, and no lock   *)
(* covers a call: the PTP thread, main() and the shells interleave at any  *)
(* transfer.  The clock ticks in between; a tick is a nanosecond, of which *)
(* there are NSEC in a second, and seconds count modulo WRAP.              *)
(***************************************************************************)
EXTENDS Integers

CONSTANTS
  Threads,
  Calls,        \* the calls each thread makes
  NSEC,         \* nanoseconds in a second (10^9)
  WRAP,         \* 2^32
  Times,        \* [second, nanosecond] given to set()
  Increments,   \* given to adjust()
  Trims,        \* rates given to rate_adjust(), in units of the register
  RATE_MASK,    \* LAN9250_1588_CLOCK_RATE_ADJ_VALUE_MASK
  Latency       \* ticks a call may last from its snapshot

ASSUME ClockAssumption ==
  /\ {NSEC, WRAP} \subseteq Nat \ {0} /\ RATE_MASK \in Nat
  /\ Latency \in 0 .. NSEC
  /\ Calls \in [Threads -> SUBSET {"get", "set", "adjust", "rate_adjust", "pps"}]
  /\ Times \subseteq [second : Nat, nanosecond : 0 .. NSEC - 1]
  /\ Increments \subseteq Int /\ Trims \subseteq Int

VARIABLES
  (* the chip *)
  clock,                     \* the running clock, in ticks
  CLOCK_SEC, CLOCK_NS,       \* the registers behind CLOCK_READ and CLOCK_LOAD
  TARGET_SEC, TARGET_NS,     \* Clock Target A
  pulsing,                   \* event channel A and its pin are set up
  RATE_ADJ,
  (* the calls: a thread's place, its argument, its locals *)
  pc, arg, sec, ns,
  (* ghosts *)
  age,          \* ticks since the thread's call, or its snapshot, began
  touched,      \* what others did to the registers since: 0 nothing, 1 a snapshot, 2 a write
  armed, stepped, \* pps_enable() returned; its target is not of a time the clock has now:
                  \* the clock was loaded, or the registers written as it read them
  quiet         \* ticks since the last pulse, or since the target was written

chip   == <<clock, CLOCK_SEC, CLOCK_NS>>
target == <<TARGET_SEC, TARGET_NS, pulsing>>
calls  == <<pc, arg, sec, ns>>
ghosts == <<age, touched, armed, stepped, quiet>>
vars   == <<chip, target, RATE_ADJ, calls, ghosts>>

Day == WRAP * NSEC     \* all the times the clock can show

Args == [call : {"get", "pps"}] \cup [call : {"set"}, tm : Times]
          \cup [call : {"adjust"}, inc : Increments]
NoArg == [call |-> "get"]

TypeOK ==
  /\ clock \in 0 .. Day - 1
  /\ CLOCK_SEC \in 0 .. WRAP - 1 /\ CLOCK_NS \in 0 .. NSEC - 1
  /\ TARGET_SEC \in 0 .. WRAP - 1 /\ TARGET_NS \in 0 .. NSEC - 1 /\ pulsing \in BOOLEAN
  /\ RATE_ADJ \in [faster : BOOLEAN, value : 0 .. RATE_MASK]
  /\ pc \in [Threads -> {"idle", "wait", "setup", "snap", "rsec", "rns", "done",
                         "wsec", "wns", "load", "tsec", "tns"}]
  /\ arg \in [Threads -> Args]
  /\ sec \in [Threads -> 0 .. WRAP - 1] /\ ns \in [Threads -> 0 .. NSEC - 1]
  /\ age \in [Threads -> 0 .. Latency] /\ touched \in [Threads -> 0 .. 2]
  /\ armed \in BOOLEAN /\ stepped \in BOOLEAN /\ quiet \in 0 .. 2 * NSEC + 1

----------------------------------------------------------------------------
(* The chip (external).                                                    *)

\* A thread between its snapshot and its last use of what it read.
Holding(t) == \/ pc[t] \in {"rsec", "rns", "done", "tsec", "tns"}
              \/ arg[t].call = "adjust" /\ pc[t] \in {"wsec", "wns", "load"}

\* The clock ticks.  When it reaches the target, the pin pulses and the target
\* advances by the reload value, one second.
Tick ==
  /\ \A t \in Threads : Holding(t) => age[t] < Latency
  /\ clock' = (clock + 1) % Day
  /\ LET hit == pulsing /\ clock' = TARGET_SEC * NSEC + TARGET_NS IN
     /\ TARGET_SEC' = IF hit THEN (TARGET_SEC + 1) % WRAP ELSE TARGET_SEC
     /\ quiet' = IF hit \/ ~armed THEN 0 ELSE IF quiet <= 2 * NSEC THEN quiet + 1 ELSE quiet
  /\ age' = [t \in Threads |-> IF Holding(t) THEN age[t] + 1 ELSE 0]
  /\ UNCHANGED <<CLOCK_SEC, CLOCK_NS, TARGET_NS, pulsing, RATE_ADJ, calls, touched, armed, stepped>>

----------------------------------------------------------------------------
Goto(t, label) == pc' = [pc EXCEPT ![t] = label]

\* The other threads with a call under way see what t does to the registers.
Touch(t, what) ==
  touched' = [u \in Threads |-> IF u = t \/ pc[u] \in {"idle", "wait", "setup", "snap"} THEN touched[u]
                                ELSE IF touched[u] < what THEN what ELSE touched[u]]

\* A call returns; its locals are gone.
Return(t) ==
  /\ Goto(t, "idle")
  /\ arg' = [arg EXCEPT ![t] = NoArg]
  /\ sec' = [sec EXCEPT ![t] = 0] /\ ns' = [ns EXCEPT ![t] = 0]
  /\ age' = [age EXCEPT ![t] = 0]

Start(t, a, label) ==
  /\ pc[t] = "idle" /\ a.call \in Calls[t]
  /\ Goto(t, label)
  /\ arg' = [arg EXCEPT ![t] = a]
  /\ touched' = [touched EXCEPT ![t] = 0]
  /\ UNCHANGED <<chip, target, RATE_ADJ, age, armed, stepped, quiet>>

\* lan9250_ptp_clock_api_get() and cmd_ptp_clock(), which calls it twice.
Get(t) == Start(t, [call |-> "get"], "snap") /\ UNCHANGED <<sec, ns>>

\* lan9250_ptp_clock_api_set(): the second is cut to 32 bits.
Set(t, tm) ==
  /\ Start(t, [call |-> "set", tm |-> tm], "wsec")
  /\ sec' = [sec EXCEPT ![t] = tm.second % WRAP]
  /\ ns' = [ns EXCEPT ![t] = tm.nanosecond]

Adjust(t, inc) == Start(t, [call |-> "adjust", inc |-> inc], "snap") /\ UNCHANGED <<sec, ns>>

\* Mutant: a rate out of range is cut to the width of the register field.
rate_adjustNoCheck(t, r) ==
  /\ pc[t] = "idle" /\ "rate_adjust" \in Calls[t]
  /\ RATE_ADJ' = [faster |-> r >= 0, value |-> IF r < 0 THEN -r ELSE r]
  /\ UNCHANGED <<chip, target, calls, ghosts>>

\* lan9250_ptp_clock_rate_adjust(): one transfer, or -ERANGE.
rate_adjust(t, r) ==
  /\ pc[t] = "idle" /\ "rate_adjust" \in Calls[t]
  /\ LET magnitude == IF r < 0 THEN -r ELSE r IN
       magnitude <= RATE_MASK /\ RATE_ADJ' = [faster |-> r >= 0, value |-> magnitude]
  /\ UNCHANGED <<chip, target, calls, ghosts>>

----------------------------------------------------------------------------
(* lan9250_ptp_clock_read().                                               *)

\* Mutant: the registers are read without a snapshot.
SnapshotNot(t) ==
  /\ pc[t] = "snap"
  /\ touched' = [touched EXCEPT ![t] = 0] /\ age' = [age EXCEPT ![t] = 0]
  /\ Goto(t, "rsec")
  /\ UNCHANGED <<chip, target, RATE_ADJ, arg, sec, ns, armed, stepped, quiet>>

Snapshot(t) ==
  /\ pc[t] = "snap"
  /\ CLOCK_SEC' = clock \div NSEC /\ CLOCK_NS' = clock % NSEC
  /\ touched' = [u \in Threads |-> IF u = t THEN 0
                                   ELSE IF pc[u] \in {"idle", "wait", "setup", "snap"} \/ touched[u] = 2
                                        THEN touched[u] ELSE 1]
  /\ age' = [age EXCEPT ![t] = 0]
  /\ Goto(t, "rsec")
  /\ UNCHANGED <<clock, target, RATE_ADJ, arg, sec, ns, armed, stepped, quiet>>

ReadSec(t) ==
  /\ pc[t] = "rsec"
  /\ sec' = [sec EXCEPT ![t] = CLOCK_SEC]
  /\ Goto(t, "rns")
  /\ UNCHANGED <<chip, target, RATE_ADJ, arg, ns, ghosts>>

ReadNs(t) ==
  /\ pc[t] = "rns"
  /\ ns' = [ns EXCEPT ![t] = CLOCK_NS]
  /\ Goto(t, "done")
  /\ UNCHANGED <<chip, target, RATE_ADJ, arg, sec, ghosts>>

\* C's / and %, which truncate toward zero.
CDiv(a, b) == IF a >= 0 THEN a \div b ELSE -((-a) \div b)
CRem(a, b) == a - b * CDiv(a, b)

\* Mutant: no borrow for a negative remainder.
adjustedNoBorrow(s, n, inc) ==
  [sec |-> (s + CDiv(n + inc, NSEC)) % WRAP, ns |-> CRem(n + inc, NSEC) % NSEC]

\* The arithmetic of lan9250_ptp_clock_adjust().
adjusted(s, n, inc) ==
  LET whole == CDiv(n + inc, NSEC)
      rest  == CRem(n + inc, NSEC)
  IN  IF rest < 0 THEN [sec |-> (s + whole - 1) % WRAP, ns |-> rest + NSEC]
      ELSE [sec |-> (s + whole) % WRAP, ns |-> rest]

\* The read is over: get() returns it, adjust() computes, pps_enable() goes on.
ReadDone(t) ==
  /\ pc[t] = "done"
  /\ \/ arg[t].call = "get" /\ Return(t)
     \/ /\ arg[t].call = "adjust"
        /\ LET new == adjusted(sec[t], ns[t], arg[t].inc) IN
           sec' = [sec EXCEPT ![t] = new.sec] /\ ns' = [ns EXCEPT ![t] = new.ns]
        /\ Goto(t, "wsec")
        /\ UNCHANGED <<arg, age>>
     \/ arg[t].call = "pps" /\ Goto(t, "tsec") /\ UNCHANGED <<arg, sec, ns, age>>
  /\ UNCHANGED <<chip, target, RATE_ADJ, touched, armed, stepped, quiet>>

----------------------------------------------------------------------------
(* lan9250_ptp_clock_set().                                                *)

WriteSec(t) ==
  /\ pc[t] = "wsec"
  /\ CLOCK_SEC' = sec[t]
  /\ Touch(t, 2)
  /\ Goto(t, "wns")
  /\ UNCHANGED <<clock, CLOCK_NS, target, RATE_ADJ, arg, sec, ns, age, armed, stepped, quiet>>

WriteNs(t) ==
  /\ pc[t] = "wns"
  /\ CLOCK_NS' = ns[t]
  /\ Touch(t, 2)
  /\ Goto(t, "load")
  /\ UNCHANGED <<clock, CLOCK_SEC, target, RATE_ADJ, arg, sec, ns, age, armed, stepped, quiet>>

Load(t) ==
  /\ pc[t] = "load"
  /\ clock' = CLOCK_SEC * NSEC + CLOCK_NS
  /\ stepped' = TRUE
  /\ Touch(t, 2)
  /\ Return(t)
  /\ UNCHANGED <<CLOCK_SEC, CLOCK_NS, target, RATE_ADJ, armed, quiet>>

----------------------------------------------------------------------------
(* ptp_pps_arm_when_synced() and lan9250_1588_pps_enable().                *)

\* main() after boot, or the shell's `ptp pps`.
Arm(t) == Start(t, [call |-> "pps"], "wait") /\ UNCHANGED <<sec, ns>>

\* The port is the reference or calibrated, or the time is up: either ends it.
WaitOver(t) ==
  /\ pc[t] = "wait"
  /\ Goto(t, "setup")
  /\ UNCHANGED <<chip, target, RATE_ADJ, arg, sec, ns, ghosts>>

\* The pin, the event channel and its reload value of one second.
SetUp(t) ==
  /\ pc[t] = "setup"
  /\ pulsing' = TRUE
  /\ Goto(t, "snap")
  /\ UNCHANGED <<chip, TARGET_SEC, TARGET_NS, RATE_ADJ, arg, sec, ns, ghosts>>

\* Mutant: the next second, instead of the one after it.
first_pulseNext(s) == (s + 1) % WRAP

first_pulse(s) == (s + 2) % WRAP

WriteTargetSec(t) ==
  /\ pc[t] = "tsec"
  /\ TARGET_SEC' = first_pulse(sec[t])
  /\ stepped' = (touched[t] = 2) /\ quiet' = 0
  /\ Goto(t, "tns")
  /\ UNCHANGED <<chip, TARGET_NS, pulsing, RATE_ADJ, arg, sec, ns, age, touched, armed>>

WriteTargetNs(t) ==
  /\ pc[t] = "tns"
  /\ TARGET_NS' = 0
  /\ armed' = TRUE
  /\ Return(t)
  /\ UNCHANGED <<chip, TARGET_SEC, pulsing, RATE_ADJ, touched, stepped, quiet>>

\* A transfer fails, and the call returns an error.
Fail(t) ==
  /\ pc[t] \notin {"idle", "wait", "done"}
  /\ Return(t)
  /\ UNCHANGED <<chip, target, RATE_ADJ, touched, armed, stepped, quiet>>

----------------------------------------------------------------------------
Init ==
  /\ clock = 0 /\ CLOCK_SEC = 0 /\ CLOCK_NS = 0
  /\ TARGET_SEC = 0 /\ TARGET_NS = 0 /\ pulsing = FALSE
  /\ RATE_ADJ = [faster |-> FALSE, value |-> 0]
  /\ pc = [t \in Threads |-> "idle"] /\ arg = [t \in Threads |-> NoArg]
  /\ sec = [t \in Threads |-> 0] /\ ns = [t \in Threads |-> 0]
  /\ age = [t \in Threads |-> 0] /\ touched = [t \in Threads |-> 0]
  /\ armed = FALSE /\ stepped = FALSE /\ quiet = 0

Call(t) == \/ Get(t) \/ Arm(t)
           \/ \E tm \in Times : Set(t, tm)
           \/ \E inc \in Increments : Adjust(t, inc)
           \/ \E r \in Trims : rate_adjust(t, r)
Step(t) == \/ Snapshot(t) \/ ReadSec(t) \/ ReadNs(t) \/ ReadDone(t)
           \/ WriteSec(t) \/ WriteNs(t) \/ Load(t)
           \/ WaitOver(t) \/ SetUp(t) \/ WriteTargetSec(t) \/ WriteTargetNs(t) \/ Fail(t)

Next == Tick \/ \E t \in Threads : Call(t) \/ Step(t)

Spec == Init /\ [][Next]_vars

----------------------------------------------------------------------------
(* Properties.                                                             *)

\* What lan9250_ptp_clock_read() returns is a time the clock showed, both
\* halves of the same instant, although the clock ticks between the transfers
\* ("so they can be read back consistently"), if no other thread took a
\* snapshot or loaded the clock in the meantime.
ReadConsistent ==
  \A t \in Threads :
    pc[t] = "done" /\ touched[t] = 0 => (sec[t] * NSEC + ns[t] + age[t]) % Day = clock

\* A call that had the registers for itself sets the clock to what was asked:
\* set() to its argument, adjust() to the clock at its snapshot plus the
\* increment, of either sign and any size, also across the wrap of the seconds
\* ("trivially correct for any increment_ns value").
LoadExact ==
  [][\A t \in Threads :
       Load(t) /\ touched[t] = 0 =>
         clock' = IF arg[t].call = "set"
                  THEN (arg[t].tm.second * NSEC + arg[t].tm.nanosecond) % Day
                  ELSE (clock - age[t] + arg[t].inc) % Day]_vars

\* Once armed, the output pulses within two seconds and every second after,
\* "self-sustains forever once armed", until the clock is loaded: the target
\* was still ahead when it was written, also when the channel was armed again,
\* or an attempt to do so failed half-way, while it was pulsing.  The exception
\* is wider than a loaded clock: another call that only wrote CLOCK_SEC or
\* CLOCK_NS while arming read them leaves arming a time the clock never showed,
\* whether it went on to the load or failed.
PulsesSustained == armed /\ ~stepped => quiet <= 2 * NSEC
=============================================================================
