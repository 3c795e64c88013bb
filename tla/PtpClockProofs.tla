-------------------------- MODULE PtpClockProofs ---------------------------
(***************************************************************************)
(* The LAN9250 clock read, set, adjusted and pulsing, for any number of    *)
(* threads, any length of a second and any width of the seconds counter.   *)
(*                                                                         *)
(* The inductive invariant says, for each thread between two transfers,    *)
(* how what it holds relates to the clock now: exactly, when no other      *)
(* thread used the registers since (ReadHalf, WriteHalf); within the time  *)
(* of its call, when others at most took snapshots (NearBy: its seconds    *)
(* may be another thread's reading, and are still those of a moment of     *)
(* this call).  The latter is what keeps the 1PPS target ahead of the      *)
(* clock (NextPulse), although ptp_pps_arm_when_synced() reads the clock   *)
(* without a lock.                                                         *)
(***************************************************************************)
EXTENDS PtpClock, TLAPS

----------------------------------------------------------------------------
(* Remainders.                                                             *)

\* The quotient and the remainder of a division by a positive number.
LEMMA DivMod ==
  ASSUME NEW a \in Int, NEW n \in Nat \ {0}
  PROVE  a % n \in 0 .. n - 1 /\ a \div n \in Int /\ a = n * (a \div n) + (a % n)
  OBVIOUS

\* A product is at least its factor.
LEMMA TimesOne ==
  ASSUME NEW n \in Nat \ {0}, NEW k \in Int
  PROVE  /\ n * k \in Int
         /\ k >= 1 => n * k >= n
         /\ k <= -1 => n * k <= -n
<1>1. k >= 1 => n * k >= n
  <2> SUFFICES ASSUME k >= 1 PROVE n * k >= n
    OBVIOUS
  <2>1. n * (k - 1) >= 0
    OBVIOUS
  <2> QED BY <2>1
<1>2. k <= -1 => n * k <= -n
  <2> SUFFICES ASSUME k <= -1 PROVE n * k <= -n
    OBVIOUS
  <2>1. n * (-k - 1) >= 0
    OBVIOUS
  <2> QED BY <2>1
<1> QED BY <1>1, <1>2

\* The remainder is the only one of its size.
LEMMA ModUnique ==
  ASSUME NEW n \in Nat \ {0}, NEW k \in Int, NEW r \in 0 .. n - 1
  PROVE  (n * k + r) % n = r
<1> DEFINE a == n * k + r
<1>1. a \in Int
  OBVIOUS
<1>2. a % n \in 0 .. n - 1 /\ a \div n \in Int /\ a = n * (a \div n) + (a % n)
  BY <1>1, DivMod
<1>3. PICK q \in Int, m \in 0 .. n - 1 : q = a \div n /\ m = a % n
  BY <1>2
<1>4. n * (k - q) = m - r
  <2>1. n * k + r = n * q + m
    BY <1>2, <1>3
  <2>2. n * (k - q) = n * k - n * q
    OBVIOUS
  <2>3. n * k \in Int /\ n * q \in Int
    OBVIOUS
  <2> QED BY <2>1, <2>2, <2>3
<1>5. k - q = 0
  <2> k - q \in Int
    OBVIOUS
  <2>1. (k - q >= 1 => n * (k - q) >= n) /\ (k - q <= -1 => n * (k - q) <= -n)
    BY TimesOne
  <2> QED BY <2>1, <1>4
<1>6. m = r
  BY <1>4, <1>5
<1> QED BY <1>3, <1>6

\* Numbers that differ by a multiple have the same remainder.
LEMMA ModShift ==
  ASSUME NEW n \in Nat \ {0}, NEW a \in Int, NEW k \in Int
  PROVE  (a + n * k) % n = a % n
<1>1. PICK q \in Int, m \in 0 .. n - 1 : q = a \div n /\ m = a % n /\ a = n * q + m
  BY DivMod
<1>2. a + n * k = n * (q + k) + m
  BY <1>1
<1>3. (n * (q + k) + m) % n = m
  BY ModUnique
<1> QED BY <1>1, <1>2, <1>3

\* A sum has the remainder of the sum of a remainder.
LEMMA ModPlus ==
  ASSUME NEW n \in Nat \ {0}, NEW a \in Int, NEW b \in Int
  PROVE  ((a % n) + b) % n = (a + b) % n
<1>1. PICK q \in Int, m \in 0 .. n - 1 : q = a \div n /\ m = a % n /\ a = n * q + m
  BY DivMod
<1>2. a + b = (m + b) + n * q
  BY <1>1
<1>3. ((m + b) + n * q) % n = (m + b) % n
  <2>1. m + b \in Int
    OBVIOUS
  <2> QED BY <2>1, ModShift
<1> QED BY <1>1, <1>2, <1>3

LEMMA ModSmall ==
  ASSUME NEW n \in Nat \ {0}, NEW a \in 0 .. n - 1
  PROVE  a % n = a
  OBVIOUS

\* m seconds and r nanoseconds are less than W seconds.
LEMMA SecondsFit ==
  ASSUME NEW N \in Nat \ {0}, NEW W \in Nat \ {0}, NEW m \in 0 .. W - 1, NEW r \in 0 .. N - 1
  PROVE  W * N \in Nat \ {0} /\ m * N + r \in 0 .. (W * N) - 1
<1>1. W * N \in Nat /\ m * N \in Nat
  OBVIOUS
<1>2. N * (W - 1 - m) >= 0
  OBVIOUS
<1>3. N * (W - 1 - m) = W * N - N - m * N
  OBVIOUS
<1> QED BY <1>1, <1>2, <1>3

\* Cutting the seconds to their width is taking the time modulo the wrap.
LEMMA SecondsWrap ==
  ASSUME NEW N \in Nat \ {0}, NEW W \in Nat \ {0}, NEW s \in Int, NEW r \in 0 .. N - 1
  PROVE  (s % W) * N + r = (s * N + r) % (W * N)
<1>1. PICK q \in Int, m \in 0 .. W - 1 : m = s % W /\ s = W * q + m
  BY DivMod
<1>2. W * N \in Nat \ {0} /\ m * N + r \in 0 .. (W * N) - 1
  BY SecondsFit
<1>3. s * N + r = (W * N) * q + (m * N + r)
  BY <1>1
<1>4. ((W * N) * q + (m * N + r)) % (W * N) = m * N + r
  BY <1>2, ModUnique
<1> QED BY <1>1, <1>3, <1>4

\* A time is its seconds and its nanoseconds.
LEMMA TimeSplits ==
  ASSUME NEW N \in Nat \ {0}, NEW W \in Nat \ {0}, NEW c \in 0 .. (W * N) - 1
  PROVE  c \div N \in 0 .. W - 1 /\ c % N \in 0 .. N - 1 /\ (c \div N) * N + (c % N) = c
<1>1. PICK q \in Int, m \in 0 .. N - 1 : q = c \div N /\ m = c % N /\ c = N * q + m
  BY DivMod
<1>2. q >= 0
  <2>1. q <= -1 => N * q <= -N
    BY TimesOne
  <2> QED BY <2>1, <1>1
<1>3. q < W
  <2>1. q - W >= 0 => N * (q - W) >= 0
    OBVIOUS
  <2>2. N * (q - W) = N * q - W * N
    OBVIOUS
  <2>3. N * q \in Int /\ W * N \in Int
    OBVIOUS
  <2> QED BY <2>1, <2>2, <2>3, <1>1
<1> QED BY <1>1, <1>2, <1>3

----------------------------------------------------------------------------
(* The arithmetic of an adjustment.                                        *)

\* lan9250_ptp_clock_adjust() computes the time it read plus the increment,
\* whatever the increment's sign and size.
LEMMA AdjustExact ==
  ASSUME NEW s \in Int, NEW n \in 0 .. NSEC - 1, NEW inc \in Int
  PROVE  /\ adjusted(s, n, inc).sec \in 0 .. WRAP - 1
         /\ adjusted(s, n, inc).ns \in 0 .. NSEC - 1
         /\ adjusted(s, n, inc).sec * NSEC + adjusted(s, n, inc).ns = (s * NSEC + n + inc) % Day
<1> DEFINE x == n + inc
           whole == CDiv(x, NSEC)
           rest == CRem(x, NSEC)
<1>1. NSEC \in Nat \ {0} /\ WRAP \in Nat \ {0} /\ x \in Int
  BY ClockAssumption
<1>2. whole \in Int /\ rest \in Int /\ x = NSEC * whole + rest /\ rest \in (-NSEC + 1) .. (NSEC - 1)
  <2>1. CASE x >= 0
    <3>1. x % NSEC \in 0 .. NSEC - 1 /\ x \div NSEC \in Int /\ x = NSEC * (x \div NSEC) + (x % NSEC)
      BY <1>1, DivMod
    <3>2. whole = x \div NSEC
      BY <2>1 DEF CDiv
    <3>3. rest = x - NSEC * (x \div NSEC)
      BY <3>2 DEF CRem
    <3>4. NSEC * (x \div NSEC) \in Int
      BY <1>1, <3>1
    <3> QED BY <3>1, <3>2, <3>3, <3>4, <1>1
  <2>2. CASE x < 0
    <3>0. -x \in Int
      BY <1>1
    <3>1. PICK q \in Int, m \in 0 .. NSEC - 1 : q = (-x) \div NSEC /\ -x = NSEC * q + m
      BY <1>1, <3>0, DivMod
    <3>2. whole = -q
      BY <2>2, <3>1, <1>1 DEF CDiv
    <3>3. rest = x - NSEC * (-q)
      BY <3>2 DEF CRem
    <3>4. NSEC * (-q) = -(NSEC * q) /\ NSEC * q \in Int
      BY <1>1
    <3> HIDE DEF x, whole, rest
    <3>5. rest = -m
      BY <3>1, <3>3, <3>4, <1>1
    <3> QED BY <3>1, <3>2, <3>4, <3>5, <1>1
  <2> QED BY <1>1, <2>1, <2>2
<1>3. PICK w \in Int, d \in (-NSEC + 1) .. (NSEC - 1) : w = whole /\ d = rest
  BY <1>2
<1>4. n + inc = NSEC * w + d
  BY <1>2, <1>3
<1>5. adjusted(s, n, inc) = IF d < 0 THEN [sec |-> (s + w - 1) % WRAP, ns |-> d + NSEC]
                            ELSE [sec |-> (s + w) % WRAP, ns |-> d]
  BY <1>3 DEF adjusted
<1>6. CASE d < 0
  <2>0. s + w - 1 \in Int
    OBVIOUS
  <2>1. (s + w - 1) % WRAP \in 0 .. WRAP - 1 /\ d + NSEC \in 0 .. NSEC - 1
    BY <1>1, <1>6, DivMod
  <2>2. ((s + w - 1) % WRAP) * NSEC + (d + NSEC) = ((s + w - 1) * NSEC + (d + NSEC)) % (WRAP * NSEC)
    BY <1>1, <2>0, <2>1, SecondsWrap
  <2>3. (s + w - 1) * NSEC + (d + NSEC) = s * NSEC + n + inc
    BY <1>1, <1>4
  <2> QED BY <1>5, <1>6, <2>1, <2>2, <2>3 DEF Day
<1>7. CASE d >= 0
  <2>0. s + w \in Int
    OBVIOUS
  <2>1. (s + w) % WRAP \in 0 .. WRAP - 1 /\ d \in 0 .. NSEC - 1
    BY <1>1, <1>7, DivMod
  <2>2. ((s + w) % WRAP) * NSEC + d = ((s + w) * NSEC + d) % (WRAP * NSEC)
    BY <1>1, <2>0, <2>1, SecondsWrap
  <2>3. (s + w) * NSEC + d = s * NSEC + n + inc
    BY <1>1, <1>4
  <2> QED BY <1>5, <1>7, <2>1, <2>2, <2>3 DEF Day
<1> QED BY <1>1, <1>6, <1>7

----------------------------------------------------------------------------
(* The inductive invariant.                                                *)

Registers == CLOCK_SEC * NSEC + CLOCK_NS
Local(t)  == sec[t] * NSEC + ns[t]

\* Where the thread is in its call, and what it was called for.
InCall(t) ==
  /\ pc[t] \in {"wsec", "wns", "load"} => arg[t].call \in {"set", "adjust"}
  /\ pc[t] \in {"wait", "setup", "tsec", "tns"} => arg[t].call = "pps"
  /\ pc[t] \in {"snap", "rsec", "rns", "done"} => arg[t].call \in {"get", "adjust", "pps"}

\* A reading nobody disturbed is the clock when it was taken.
ReadHalf(t) ==
  touched[t] = 0 =>
    /\ pc[t] \in {"rsec", "rns"} => (Registers + age[t]) % Day = clock
    /\ pc[t] = "rns" => sec[t] = CLOCK_SEC
    /\ pc[t] = "done" => (Local(t) + age[t]) % Day = clock

\* What set() and adjust() are to load.
Wanted(t) == IF arg[t].call = "set"
             THEN (arg[t].tm.second * NSEC + arg[t].tm.nanosecond) % Day
             ELSE (clock - age[t] + arg[t].inc) % Day

\* A write nobody disturbed has loaded the registers with it so far.
WriteHalf(t) ==
  touched[t] = 0 =>
    /\ pc[t] \in {"wsec", "wns", "load"} => Local(t) = Wanted(t)
    /\ pc[t] \in {"wns", "load"} => CLOCK_SEC = sec[t]
    /\ pc[t] = "load" => CLOCK_NS = ns[t]

\* The clock has been at second s, a ticks ago.
Since(s, r, a) == (s * NSEC + r + a) % Day = clock

\* The seconds a thread has read are those of a moment of its call, unless
\* the registers were written since.
NearBy(t) ==
  touched[t] # 2 =>
    /\ pc[t] = "rsec" => \E a \in 0 .. age[t] : Since(CLOCK_SEC, CLOCK_NS, a)
    /\ pc[t] \in {"rns", "done", "tsec"} =>
         \E a \in 0 .. age[t], r \in 0 .. NSEC - 1 : Since(sec[t], r, a)

\* A pulse is due in d ticks, soon enough.
Due(d) == (clock + d) % Day = TARGET_SEC * NSEC /\ quiet + d <= 2 * NSEC

NextPulse ==
  /\ TARGET_NS = 0
  /\ armed => pulsing
  /\ \A t \in Threads : arg[t].call = "pps" /\ pc[t] \notin {"idle", "wait", "setup"} => pulsing
  /\ (armed \/ \E t \in Threads : pc[t] = "tns") /\ ~stepped => \E d \in 1 .. 2 * NSEC : Due(d)

ThreadInv(t) == InCall(t) /\ ReadHalf(t) /\ WriteHalf(t) /\ NearBy(t)

IInv == TypeOK /\ (\A t \in Threads : ThreadInv(t)) /\ NextPulse

LEMMA DayPositive == Day \in Nat \ {0} /\ NSEC \in Nat \ {0} /\ WRAP \in Nat \ {0}
<1>1. NSEC \in Nat \ {0} /\ WRAP \in Nat \ {0}
  BY ClockAssumption
<1>2. 0 \in 0 .. WRAP - 1 /\ 0 \in 0 .. NSEC - 1
  BY <1>1
<1> QED BY <1>1, <1>2, SecondsFit DEF Day

----------------------------------------------------------------------------
(* Types.                                                                  *)

LEMMA InitIInv == Init => IInv
<1> SUFFICES ASSUME Init PROVE IInv
  OBVIOUS
<1>1. TypeOK
  <2>1. NoArg \in Args
    BY DEF NoArg, Args
  <2>2. /\ 0 \in 0 .. WRAP - 1 /\ 0 \in 0 .. NSEC - 1 /\ 0 \in 0 .. Day - 1
        /\ 0 \in 0 .. Latency /\ 0 \in 0 .. RATE_MASK /\ 0 \in 0 .. 2 * NSEC + 1
    BY DayPositive, ClockAssumption
  <2>3. RATE_ADJ \in [faster : BOOLEAN, value : 0 .. RATE_MASK]
    BY <2>2 DEF Init
  <2>4. /\ pc \in [Threads -> {"idle", "wait", "setup", "snap", "rsec", "rns", "done",
                             "wsec", "wns", "load", "tsec", "tns"}]
        /\ arg \in [Threads -> Args]
    BY <2>1 DEF Init
  <2>5. /\ sec \in [Threads -> 0 .. WRAP - 1] /\ ns \in [Threads -> 0 .. NSEC - 1]
        /\ age \in [Threads -> 0 .. Latency] /\ touched \in [Threads -> 0 .. 2]
    BY <2>2 DEF Init
  <2> QED BY <2>2, <2>3, <2>4, <2>5 DEF Init, TypeOK
<1>2. ASSUME NEW t \in Threads PROVE ThreadInv(t)
  BY DEF Init, ThreadInv, InCall, ReadHalf, WriteHalf, NearBy
<1>3. NextPulse
  BY DEF Init, NextPulse, NoArg
<1> QED BY <1>1, <1>2, <1>3 DEF IInv

\* Returning leaves every local in its type.
LEMMA ReturnType ==
  ASSUME TypeOK, NEW t \in Threads, Return(t)
  PROVE  /\ pc' \in [Threads -> {"idle", "wait", "setup", "snap", "rsec", "rns", "done",
                                 "wsec", "wns", "load", "tsec", "tns"}]
         /\ arg' \in [Threads -> Args]
         /\ sec' \in [Threads -> 0 .. WRAP - 1] /\ ns' \in [Threads -> 0 .. NSEC - 1]
         /\ age' \in [Threads -> 0 .. Latency]
<1>1. NoArg \in Args
  BY DEF NoArg, Args
<1>2. 0 \in 0 .. WRAP - 1 /\ 0 \in 0 .. NSEC - 1 /\ 0 \in 0 .. Latency
  BY DayPositive, ClockAssumption
<1> QED BY <1>1, <1>2 DEF Return, Goto, TypeOK

LEMMA CallType == ASSUME TypeOK, NEW t \in Threads, Call(t) PROVE TypeOK'
<1> USE DEF chip, target, ghosts, calls
<1>1. CASE Get(t)
  <2>1. [call |-> "get"] \in Args
    BY DEF Args
  <2> QED BY <1>1, <2>1 DEF Get, Start, Goto, TypeOK
<1>2. CASE Arm(t)
  <2>1. [call |-> "pps"] \in Args
    BY DEF Args
  <2> QED BY <1>2, <2>1 DEF Arm, Start, Goto, TypeOK
<1>3. ASSUME NEW tm \in Times, Set(t, tm) PROVE TypeOK'
  <2>1. [call |-> "set", tm |-> tm] \in Args
    BY DEF Args
  <2>2. tm.second % WRAP \in 0 .. WRAP - 1 /\ tm.nanosecond \in 0 .. NSEC - 1
    <3>1. tm.second \in Int /\ tm.nanosecond \in 0 .. NSEC - 1
      BY ClockAssumption
    <3> QED BY <3>1, DayPositive, DivMod
  <2> QED BY <1>3, <2>1, <2>2 DEF Set, Start, Goto, TypeOK
<1>4. ASSUME NEW inc \in Increments, Adjust(t, inc) PROVE TypeOK'
  <2>1. [call |-> "adjust", inc |-> inc] \in Args
    BY DEF Args
  <2> QED BY <1>4, <2>1 DEF Adjust, Start, Goto, TypeOK
<1>5. ASSUME NEW r \in Trims, rate_adjust(t, r) PROVE TypeOK'
  <2>1. r \in Int /\ RATE_MASK \in Nat
    BY ClockAssumption
  <2>2. RATE_ADJ' \in [faster : BOOLEAN, value : 0 .. RATE_MASK]
    BY <1>5, <2>1 DEF rate_adjust
  <2> QED BY <1>5, <2>2 DEF rate_adjust, TypeOK
<1> QED BY <1>1, <1>2, <1>3, <1>4, <1>5 DEF Call

LEMMA StepType == ASSUME TypeOK, NEW t \in Threads, InCall(t), Step(t) PROVE TypeOK'
<1> USE DEF chip, target, ghosts, Goto
<1>1. CASE Snapshot(t)
  <2>1. clock \div NSEC \in 0 .. WRAP - 1 /\ clock % NSEC \in 0 .. NSEC - 1
    BY DayPositive, TimeSplits DEF TypeOK, Day
  <2>2. 0 \in 0 .. Latency
    BY ClockAssumption
  <2> QED BY <1>1, <2>1, <2>2 DEF Snapshot, TypeOK
<1>2. CASE ReadSec(t)
  BY <1>2 DEF ReadSec, TypeOK
<1>3. CASE ReadNs(t)
  BY <1>3 DEF ReadNs, TypeOK
<1>4. CASE ReadDone(t)
  <2>1. CASE arg[t].call = "get" /\ Return(t)
    BY <1>4, <2>1, ReturnType DEF ReadDone, TypeOK
  <2>2. CASE arg[t].call = "adjust"
    <3>1. arg[t].inc \in Int
      BY <2>2, ClockAssumption DEF TypeOK, Args
    <3>2. /\ adjusted(sec[t], ns[t], arg[t].inc).sec \in 0 .. WRAP - 1
          /\ adjusted(sec[t], ns[t], arg[t].inc).ns \in 0 .. NSEC - 1
      <4>1. sec[t] \in Int /\ ns[t] \in 0 .. NSEC - 1
        BY DayPositive DEF TypeOK
      <4> QED BY <3>1, <4>1, AdjustExact
    <3> QED BY <1>4, <2>2, <3>2 DEF ReadDone, TypeOK
  <2>3. CASE arg[t].call = "pps"
    BY <1>4, <2>3 DEF ReadDone, TypeOK
  <2> QED BY <1>4, <2>1, <2>2, <2>3 DEF ReadDone
<1>5. CASE WriteSec(t)
  BY <1>5 DEF WriteSec, Touch, TypeOK
<1>6. CASE WriteNs(t)
  BY <1>6 DEF WriteNs, Touch, TypeOK
<1>7. CASE Load(t)
  <2>1. CLOCK_SEC * NSEC + CLOCK_NS \in 0 .. Day - 1
    BY DayPositive, SecondsFit DEF TypeOK, Day
  <2> QED BY <1>7, <2>1, ReturnType DEF Load, Touch, TypeOK
<1>8. CASE WaitOver(t)
  BY <1>8 DEF WaitOver, TypeOK
<1>9. CASE SetUp(t)
  BY <1>9 DEF SetUp, TypeOK
<1>10. CASE WriteTargetSec(t)
  <2>1. first_pulse(sec[t]) \in 0 .. WRAP - 1
    <3>1. sec[t] + 2 \in Int
      BY DayPositive DEF TypeOK
    <3> QED BY <3>1, DayPositive, DivMod DEF first_pulse
  <2> QED BY <1>10, <2>1, DayPositive DEF WriteTargetSec, TypeOK
<1>11. CASE WriteTargetNs(t)
  BY <1>11, ReturnType, DayPositive DEF WriteTargetNs, TypeOK
<1>12. CASE Fail(t)
  BY <1>12, ReturnType DEF Fail, TypeOK
<1> QED BY <1>1, <1>2, <1>3, <1>4, <1>5, <1>6, <1>7, <1>8, <1>9, <1>10, <1>11, <1>12 DEF Step

LEMMA TickType == ASSUME TypeOK, Tick PROVE TypeOK'
<1>1. (clock + 1) % Day \in 0 .. Day - 1
  BY DayPositive, DivMod DEF TypeOK
<1>2. (TARGET_SEC + 1) % WRAP \in 0 .. WRAP - 1
  BY DayPositive, DivMod DEF TypeOK
<1>3. age' \in [Threads -> 0 .. Latency]
  <2>1. Latency \in Nat
    BY DayPositive, ClockAssumption
  <2> QED BY <2>1 DEF Tick, TypeOK
<1>4. quiet' \in 0 .. 2 * NSEC + 1
  BY DayPositive DEF Tick, TypeOK
<1> QED BY <1>1, <1>2, <1>3, <1>4 DEF Tick, TypeOK, calls

----------------------------------------------------------------------------
(* What a thread holds, while another thread takes a step.                 *)

\* The labels at which a thread holds nothing of the registers.
Away == {"idle", "wait", "setup", "snap"}

\* The snapshot of the clock is the clock.
LEMMA SnapshotExact ==
  ASSUME TypeOK
  PROVE  /\ clock \div NSEC \in 0 .. WRAP - 1 /\ clock % NSEC \in 0 .. NSEC - 1
         /\ ((clock \div NSEC) * NSEC + (clock % NSEC) + 0) % Day = clock
<1>1. PICK s \in 0 .. WRAP - 1, n \in 0 .. NSEC - 1 :
        s = clock \div NSEC /\ n = clock % NSEC /\ s * NSEC + n = clock
  BY DayPositive, TimeSplits DEF TypeOK, Day
<1>2. s * NSEC + n + 0 = clock
  BY <1>1, DayPositive DEF TypeOK
<1>3. clock % Day = clock
  BY DayPositive, ModSmall DEF TypeOK
<1> QED BY <1>1, <1>2, <1>3

\* A step of t leaves u's locals alone, and u's view of the registers is either
\* as it was, or not there, or marked.
LEMMA Bystander ==
  ASSUME TypeOK, NEW t \in Threads, Call(t) \/ Step(t), NEW u \in Threads, u # t
  PROVE  /\ pc'[u] = pc[u] /\ arg'[u] = arg[u] /\ sec'[u] = sec[u] /\ ns'[u] = ns[u] /\ age'[u] = age[u]
         /\ \/ UNCHANGED chip /\ touched'[u] = touched[u]
            \/ pc[u] \in Away
            \/ touched'[u] = 2
            \/ Snapshot(t) /\ touched'[u] # 0 /\ touched[u] # 2
<1> USE DEF Goto, TypeOK, Away, chip, ghosts, calls
<1>1. CASE Call(t)
  BY <1>1 DEF Call, Get, Arm, Set, Adjust, rate_adjust, Start
<1>2. CASE Snapshot(t)
  BY <1>2 DEF Snapshot
<1>3. CASE ReadSec(t) \/ ReadNs(t) \/ WaitOver(t) \/ SetUp(t) \/ WriteTargetSec(t)
  BY <1>3 DEF ReadSec, ReadNs, WaitOver, SetUp, WriteTargetSec
<1>4. CASE ReadDone(t)
  BY <1>4 DEF ReadDone, Return
<1>5. CASE WriteSec(t) \/ WriteNs(t)
  BY <1>5 DEF WriteSec, WriteNs, Touch
<1>6. CASE Load(t)
  BY <1>6 DEF Load, Touch, Return
<1>7. CASE WriteTargetNs(t) \/ Fail(t)
  BY <1>7 DEF WriteTargetNs, Fail, Return
<1> QED BY <1>1, <1>2, <1>3, <1>4, <1>5, <1>6, <1>7 DEF Step

LEMMA BystanderKeeps ==
  ASSUME TypeOK, NEW t \in Threads, Call(t) \/ Step(t), NEW u \in Threads, u # t, ThreadInv(u)
  PROVE  ThreadInv(u)'
<1>1. pc'[u] = pc[u] /\ arg'[u] = arg[u] /\ sec'[u] = sec[u] /\ ns'[u] = ns[u] /\ age'[u] = age[u]
  BY Bystander
<1>2. InCall(u)'
  BY <1>1 DEF ThreadInv, InCall
<1>3. CASE UNCHANGED chip /\ touched'[u] = touched[u]
  <2>1. ReadHalf(u)' /\ WriteHalf(u)'
    BY <1>1, <1>3 DEF ThreadInv, ReadHalf, WriteHalf, Wanted, Registers, Local, chip
  <2>2. NearBy(u)'
    BY <1>1, <1>3 DEF ThreadInv, NearBy, Since, chip
  <2> QED BY <1>2, <2>1, <2>2 DEF ThreadInv
<1>4. CASE pc[u] \in Away
  BY <1>1, <1>2, <1>4 DEF Away, ThreadInv, ReadHalf, WriteHalf, NearBy
<1>5. CASE touched'[u] = 2
  BY <1>2, <1>5 DEF ThreadInv, ReadHalf, WriteHalf, NearBy
<1>6. CASE Snapshot(t) /\ touched'[u] # 0 /\ touched[u] # 2
  <2>1. ReadHalf(u)' /\ WriteHalf(u)'
    BY <1>6 DEF ReadHalf, WriteHalf
  <2>2. NearBy(u)'
    <3>1. CASE pc[u] = "rsec"
      <4>1. Since(CLOCK_SEC, CLOCK_NS, 0)'
        BY <1>6, SnapshotExact DEF Snapshot, Since
      <4>2. 0 \in 0 .. age[u]
        BY ClockAssumption, DayPositive DEF TypeOK
      <4> QED BY <1>1, <3>1, <4>1, <4>2 DEF NearBy
    <3>2. CASE pc[u] # "rsec"
      BY <1>1, <1>6, <3>2 DEF ThreadInv, NearBy, Since, Snapshot
    <3> QED BY <3>1, <3>2
  <2> QED BY <1>2, <2>1, <2>2 DEF ThreadInv
<1> QED BY <1>3, <1>4, <1>5, <1>6, Bystander

----------------------------------------------------------------------------
(* What a thread holds, after its own step.                                *)

LEMMA OwnCallKeeps ==
  ASSUME TypeOK, NEW t \in Threads, Call(t), ThreadInv(t)
  PROVE  ThreadInv(t)'
<1> USE DEF Goto, ThreadInv, InCall, ReadHalf, WriteHalf, NearBy
<1>1. CASE Get(t) \/ Arm(t)
  BY <1>1 DEF Get, Arm, Start, TypeOK
<1>2. ASSUME NEW tm \in Times, Set(t, tm) PROVE ThreadInv(t)'
  <2>1. tm.second \in Int /\ tm.nanosecond \in 0 .. NSEC - 1
    BY ClockAssumption
  <2>2. (tm.second % WRAP) * NSEC + tm.nanosecond = (tm.second * NSEC + tm.nanosecond) % Day
    BY <2>1, DayPositive, SecondsWrap DEF Day
  <2>3. /\ pc'[t] = "wsec" /\ arg'[t] = [call |-> "set", tm |-> tm]
        /\ sec'[t] = tm.second % WRAP /\ ns'[t] = tm.nanosecond
    BY <1>2 DEF Set, Start, TypeOK
  <2>4. (Local(t) = Wanted(t))'
    BY <2>2, <2>3 DEF Local, Wanted
  <2> QED BY <2>3, <2>4
<1>3. ASSUME NEW inc \in Increments, Adjust(t, inc) PROVE ThreadInv(t)'
  BY <1>3 DEF Adjust, Start, TypeOK
<1>4. ASSUME NEW r \in Trims, rate_adjust(t, r) PROVE ThreadInv(t)'
  BY <1>4 DEF rate_adjust, calls, ghosts
<1> QED BY <1>1, <1>2, <1>3, <1>4 DEF Call

LEMMA OwnStepKeeps ==
  ASSUME TypeOK, NEW t \in Threads, Step(t), ThreadInv(t)
  PROVE  ThreadInv(t)'
<1> USE DEF Goto, ThreadInv
<1>1. CASE Snapshot(t)
  <2>1. pc'[t] = "rsec" /\ touched'[t] = 0 /\ age'[t] = 0 /\ arg'[t] = arg[t] /\ clock' = clock
    BY <1>1 DEF Snapshot, TypeOK
  <2>2. (CLOCK_SEC' * NSEC + CLOCK_NS' + 0) % Day = clock'
    BY <1>1, SnapshotExact DEF Snapshot
  <2>3. Since(CLOCK_SEC, CLOCK_NS, 0)' /\ ((Registers + age[t]) % Day = clock)'
    BY <2>1, <2>2 DEF Since, Registers
  <2>4. 0 \in 0 .. age'[t]
    BY <2>1
  <2> QED BY <1>1, <2>1, <2>3, <2>4 DEF Snapshot, InCall, ReadHalf, WriteHalf, NearBy
<1>2. CASE ReadSec(t)
  <2>1. /\ pc[t] = "rsec" /\ pc'[t] = "rns" /\ sec'[t] = CLOCK_SEC
        /\ touched'[t] = touched[t] /\ age'[t] = age[t] /\ arg'[t] = arg[t] /\ UNCHANGED chip
    BY <1>2 DEF ReadSec, TypeOK, ghosts
  <2>2. CLOCK_NS \in 0 .. NSEC - 1
    BY DEF TypeOK
  <2>3. NearBy(t)'
    BY <2>1, <2>2 DEF NearBy, Since, chip
  <2> QED BY <2>1, <2>3 DEF InCall, ReadHalf, WriteHalf, Registers, chip
<1>3. CASE ReadNs(t)
  <2>1. /\ pc[t] = "rns" /\ pc'[t] = "done" /\ sec'[t] = sec[t] /\ ns'[t] = CLOCK_NS
        /\ touched'[t] = touched[t] /\ age'[t] = age[t] /\ arg'[t] = arg[t] /\ UNCHANGED chip
    BY <1>3 DEF ReadNs, TypeOK, ghosts
  <2>2. NearBy(t)'
    BY <2>1 DEF NearBy, Since, chip
  <2> QED BY <2>1, <2>2 DEF InCall, ReadHalf, WriteHalf, Registers, Local, chip
<1>4. CASE ReadDone(t)
  <2>1. CASE arg[t].call = "get"
    BY <1>4, <2>1 DEF ReadDone, Return, TypeOK, InCall, ReadHalf, WriteHalf, NearBy
  <2>2. CASE arg[t].call = "adjust"
    <3>1. PICK s \in Int, n \in 0 .. NSEC - 1, inc \in Int, g \in Int, c \in 0 .. Day - 1 :
            s = sec[t] /\ n = ns[t] /\ inc = arg[t].inc /\ g = age[t] /\ c = clock
      <4>1. arg[t].inc \in Int
        BY <2>2, ClockAssumption DEF TypeOK, Args
      <4>2. sec[t] \in Int /\ ns[t] \in 0 .. NSEC - 1 /\ age[t] \in Int /\ clock \in 0 .. Day - 1
        BY ClockAssumption, DayPositive DEF TypeOK
      <4> QED BY <4>1, <4>2
    <3>2. /\ pc[t] = "done" /\ pc'[t] = "wsec" /\ sec'[t] = adjusted(s, n, inc).sec
          /\ ns'[t] = adjusted(s, n, inc).ns
          /\ touched'[t] = touched[t] /\ age'[t] = age[t] /\ arg'[t] = arg[t] /\ clock' = clock
      BY <1>4, <2>2, <3>1 DEF ReadDone, TypeOK, chip
    <3>3. Local(t)' = (s * NSEC + n + inc) % Day
      BY <3>2, AdjustExact DEF Local
    <3>4. touched[t] = 0 => (s * NSEC + n + inc) % Day = (c - g + inc) % Day
      <4> SUFFICES ASSUME touched[t] = 0 PROVE (s * NSEC + n + inc) % Day = (c - g + inc) % Day
        OBVIOUS
      <4>1. PICK x \in Int : x = s * NSEC + n
        BY DayPositive
      <4>2. (x + g) % Day = c
        BY <3>1, <3>2, <4>1 DEF ReadHalf, Local
      <4>3. (((x + g) % Day) + (inc - g)) % Day = ((x + g) + (inc - g)) % Day
        <5>1. x + g \in Int /\ inc - g \in Int
          OBVIOUS
        <5> QED BY <5>1, DayPositive, ModPlus
      <4>4. c + (inc - g) = c - g + inc /\ (x + g) + (inc - g) = x + inc
        BY DayPositive
      <4> QED BY <4>1, <4>2, <4>3, <4>4
    <3>5. touched[t] = 0 => (Local(t) = Wanted(t))'
      BY <3>1, <3>2, <3>3, <3>4, <2>2 DEF Wanted
    <3> QED BY <2>2, <3>2, <3>5 DEF InCall, ReadHalf, WriteHalf, NearBy
  <2>3. CASE arg[t].call = "pps"
    <3>1. /\ pc[t] = "done" /\ pc'[t] = "tsec" /\ sec'[t] = sec[t]
          /\ touched'[t] = touched[t] /\ age'[t] = age[t] /\ arg'[t] = arg[t] /\ clock' = clock
      BY <1>4, <2>3 DEF ReadDone, TypeOK, chip
    <3>2. NearBy(t)'
      BY <3>1 DEF NearBy, Since
    <3> QED BY <2>3, <3>1, <3>2 DEF InCall, ReadHalf, WriteHalf
  <2> QED BY <1>4, <2>1, <2>2, <2>3 DEF ReadDone
<1>5. CASE WriteSec(t)
  <2>1. /\ pc[t] = "wsec" /\ pc'[t] = "wns" /\ sec'[t] = sec[t] /\ ns'[t] = ns[t] /\ CLOCK_SEC' = sec[t]
        /\ touched'[t] = touched[t] /\ age'[t] = age[t] /\ arg'[t] = arg[t] /\ clock' = clock
    BY <1>5 DEF WriteSec, Touch, TypeOK
  <2> QED BY <2>1 DEF InCall, ReadHalf, WriteHalf, NearBy, Local, Wanted
<1>6. CASE WriteNs(t)
  <2>1. /\ pc[t] = "wns" /\ pc'[t] = "load" /\ sec'[t] = sec[t] /\ ns'[t] = ns[t]
        /\ CLOCK_SEC' = CLOCK_SEC /\ CLOCK_NS' = ns[t]
        /\ touched'[t] = touched[t] /\ age'[t] = age[t] /\ arg'[t] = arg[t] /\ clock' = clock
    BY <1>6 DEF WriteNs, Touch, TypeOK
  <2> QED BY <2>1 DEF InCall, ReadHalf, WriteHalf, NearBy, Local, Wanted
<1>7. CASE Load(t) \/ WriteTargetNs(t) \/ Fail(t)
  BY <1>7 DEF Load, WriteTargetNs, Fail, Return, TypeOK, InCall, ReadHalf, WriteHalf, NearBy
<1>8. CASE WaitOver(t) \/ SetUp(t)
  BY <1>8 DEF WaitOver, SetUp, TypeOK, InCall, ReadHalf, WriteHalf, NearBy
<1>9. CASE WriteTargetSec(t)
  BY <1>9 DEF WriteTargetSec, TypeOK, InCall, ReadHalf, WriteHalf, NearBy
<1> QED BY <1>1, <1>2, <1>3, <1>4, <1>5, <1>6, <1>7, <1>8, <1>9 DEF Step

----------------------------------------------------------------------------
(* The clock ticks.                                                        *)

\* A tick later, a moment is a tick further back.
LEMMA TickAges ==
  ASSUME NEW c \in 0 .. Day - 1, NEW x \in Int, NEW g \in Int, (x + g) % Day = c
  PROVE  (x + (g + 1)) % Day = (c + 1) % Day
<1>1. (((x + g) % Day) + 1) % Day = ((x + g) + 1) % Day
  <2>1. x + g \in Int /\ 1 \in Int
    OBVIOUS
  <2> QED BY <2>1, DayPositive, ModPlus
<1>2. (x + g) + 1 = x + (g + 1)
  OBVIOUS
<1> QED BY <1>1, <1>2

\* What an adjustment is to load does not change with the time it takes.
LEMMA TickKeepsWanted ==
  ASSUME NEW c \in 0 .. Day - 1, NEW g \in Int, NEW inc \in Int
  PROVE  (((c + 1) % Day) - (g + 1) + inc) % Day = (c - g + inc) % Day
<1>1. (((c + 1) % Day) + (inc - g - 1)) % Day = ((c + 1) + (inc - g - 1)) % Day
  <2>1. c + 1 \in Int /\ inc - g - 1 \in Int
    BY DayPositive
  <2> QED BY <2>1, DayPositive, ModPlus
<1>2. (c + 1) + (inc - g - 1) = c - g + inc
  BY DayPositive
<1>3. PICK e \in Int : e = (c + 1) % Day
  BY DayPositive, DivMod
<1>4. e - (g + 1) + inc = e + (inc - g - 1)
  OBVIOUS
<1> QED BY <1>1, <1>2, <1>3, <1>4

LEMMA TickKeeps ==
  ASSUME TypeOK, Tick, NEW t \in Threads, ThreadInv(t)
  PROVE  ThreadInv(t)'
<1>1. /\ pc' = pc /\ arg' = arg /\ sec' = sec /\ ns' = ns /\ touched' = touched
      /\ CLOCK_SEC' = CLOCK_SEC /\ CLOCK_NS' = CLOCK_NS /\ clock' = (clock + 1) % Day
      /\ age'[t] = IF Holding(t) THEN age[t] + 1 ELSE 0
  BY DEF Tick, calls
<1>2. PICK c \in 0 .. Day - 1, g \in Nat, s \in Int, n \in 0 .. NSEC - 1, C \in Int, D \in 0 .. NSEC - 1 :
        c = clock /\ g = age[t] /\ s = sec[t] /\ n = ns[t] /\ C = CLOCK_SEC /\ D = CLOCK_NS
  <2>1. clock \in 0 .. Day - 1 /\ age[t] \in Nat /\ sec[t] \in Int /\ ns[t] \in 0 .. NSEC - 1
    BY ClockAssumption, DayPositive DEF TypeOK
  <2>2. CLOCK_SEC \in Int /\ CLOCK_NS \in 0 .. NSEC - 1
    BY DayPositive DEF TypeOK
  <2> QED BY <2>1, <2>2
<1>i. NSEC \in Int /\ s * NSEC + n \in Int /\ C * NSEC + D \in Int
  BY DayPositive
<1>3. InCall(t)'
  BY <1>1 DEF ThreadInv, InCall
<1>4. ReadHalf(t)'
  <2> SUFFICES ASSUME touched[t] = 0, pc[t] \in {"rsec", "rns", "done"}
               PROVE  ReadHalf(t)'
    BY <1>1 DEF ReadHalf
  <2>1. age'[t] = g + 1
    BY <1>1, <1>2 DEF Holding
  <2>2. CASE pc[t] \in {"rsec", "rns"}
    <3>1. ((C * NSEC + D) + g) % Day = c
      BY <1>2, <2>2 DEF ThreadInv, ReadHalf, Registers
    <3>2. ((C * NSEC + D) + (g + 1)) % Day = (c + 1) % Day
      BY <1>i, <3>1, TickAges
    <3> QED BY <1>1, <1>2, <2>1, <2>2, <3>2 DEF ThreadInv, ReadHalf, Registers
  <2>3. CASE pc[t] = "done"
    <3>1. ((s * NSEC + n) + g) % Day = c
      BY <1>2, <2>3 DEF ThreadInv, ReadHalf, Local
    <3>2. ((s * NSEC + n) + (g + 1)) % Day = (c + 1) % Day
      BY <1>i, <3>1, TickAges
    <3> QED BY <1>1, <1>2, <2>1, <2>3, <3>2 DEF ReadHalf, Local
  <2> QED BY <2>2, <2>3
<1>5. WriteHalf(t)'
  <2> SUFFICES ASSUME touched[t] = 0, pc[t] \in {"wsec", "wns", "load"}
               PROVE  WriteHalf(t)'
    BY <1>1 DEF WriteHalf
  <2>1. Wanted(t)' = Wanted(t)
    <3>1. CASE arg[t].call = "set"
      BY <1>1, <3>1 DEF Wanted
    <3>2. CASE arg[t].call = "adjust"
      <4>1. PICK inc \in Int : inc = arg[t].inc
        BY <3>2, ClockAssumption DEF TypeOK, Args
      <4>2. age'[t] = g + 1
        BY <1>1, <1>2, <3>2 DEF Holding
      <4>3. (((c + 1) % Day) - (g + 1) + inc) % Day = (c - g + inc) % Day
        <5>1. g \in Int
          OBVIOUS
        <5> QED BY <5>1, TickKeepsWanted
      <4> QED BY <1>1, <1>2, <3>2, <4>1, <4>2, <4>3 DEF Wanted
    <3> QED BY <3>1, <3>2 DEF ThreadInv, InCall
  <2>2. Local(t)' = Local(t)
    BY <1>1 DEF Local
  <2> QED BY <1>1, <2>1, <2>2 DEF ThreadInv, WriteHalf
<1>6. NearBy(t)'
  <2> SUFFICES ASSUME touched[t] # 2, pc[t] \in {"rsec", "rns", "done", "tsec"}
               PROVE  NearBy(t)'
    BY <1>1 DEF NearBy
  <2>1. age'[t] = g + 1
    BY <1>1, <1>2 DEF Holding
  <2>2. CASE pc[t] = "rsec"
    <3>1. PICK a \in 0 .. g : (C * NSEC + D + a) % Day = c
      BY <1>2, <2>2 DEF ThreadInv, NearBy, Since
    <3>2. ((C * NSEC + D) + (a + 1)) % Day = (c + 1) % Day
      BY <1>i, <3>1, TickAges
    <3>3. a + 1 \in 0 .. g + 1
      OBVIOUS
    <3> QED BY <1>1, <1>2, <2>1, <2>2, <3>2, <3>3 DEF NearBy, Since
  <2>3. CASE pc[t] \in {"rns", "done", "tsec"}
    <3>1. PICK a \in 0 .. g, r \in 0 .. NSEC - 1 : (s * NSEC + r + a) % Day = c
      BY <1>2, <2>3 DEF ThreadInv, NearBy, Since
    <3>2. ((s * NSEC + r) + (a + 1)) % Day = (c + 1) % Day
      <4>1. s * NSEC + r \in Int
        BY DayPositive
      <4> QED BY <4>1, <3>1, TickAges
    <3>3. a + 1 \in 0 .. g + 1
      OBVIOUS
    <3> QED BY <1>1, <1>2, <2>1, <2>3, <3>2, <3>3 DEF NearBy, Since
  <2> QED BY <2>2, <2>3
<1> QED BY <1>3, <1>4, <1>5, <1>6 DEF ThreadInv

----------------------------------------------------------------------------
(* The next pulse.                                                         *)

\* The target is k seconds after second s, at its start.
LEMMA SecondsLater ==
  ASSUME NEW s \in Int, NEW k \in Int
  PROVE  ((s + k) % WRAP) * NSEC = (s * NSEC + k * NSEC) % Day
<1>1. s + k \in Int /\ 0 \in 0 .. NSEC - 1
  BY DayPositive
<1>2. ((s + k) % WRAP) * NSEC + 0 = ((s + k) * NSEC + 0) % Day
  BY <1>1, DayPositive, SecondsWrap DEF Day
<1>3. (s + k) * NSEC + 0 = s * NSEC + k * NSEC
  BY DayPositive
<1>4. PICK e \in Int : e = (s + k) % WRAP
  BY <1>1, DayPositive, DivMod
<1>5. e * NSEC + 0 = e * NSEC
  BY DayPositive
<1> QED BY <1>2, <1>3, <1>4, <1>5

\* When the clock reaches the target the next pulse is a second away, and until
\* then it comes a tick closer.
LEMMA TickPulse ==
  ASSUME TypeOK, \A t \in Threads : InCall(t), NextPulse, Tick
  PROVE  NextPulse'
<1>1. /\ pc' = pc /\ arg' = arg /\ armed' = armed /\ stepped' = stepped /\ pulsing' = pulsing
      /\ TARGET_NS' = TARGET_NS /\ clock' = (clock + 1) % Day
  BY DEF Tick, calls
<1>2. ASSUME armed \/ \E t \in Threads : pc[t] = "tns", ~stepped
      PROVE  \E d \in 1 .. 2 * NSEC : Due(d)'
  <2>1. pulsing
    BY <1>2 DEF NextPulse, InCall
  <2>2. PICK d \in 1 .. 2 * NSEC : Due(d)
    BY <1>2 DEF NextPulse
  <2>3. PICK c \in 0 .. Day - 1, T \in 0 .. WRAP - 1, q \in Nat : c = clock /\ T = TARGET_SEC /\ q = quiet
    BY DayPositive DEF TypeOK
  <2>4. (c + d) % Day = T * NSEC /\ q + d <= 2 * NSEC
    BY <2>2, <2>3 DEF Due
  <2>5. PICK p \in Nat : p = T * NSEC
    BY DayPositive
  <2>6. CASE (c + 1) % Day = p
    <3>1. TARGET_SEC' = (T + 1) % WRAP /\ quiet' = 0
      <4>1. T * NSEC + 0 = p
        BY <2>5
      <4> QED BY <2>1, <2>3, <2>6, <4>1 DEF Tick, NextPulse
    <3>2. TARGET_SEC' * NSEC = (p + NSEC) % Day
      <4>1. T \in Int /\ 1 \in Int /\ 1 * NSEC = NSEC
        BY DayPositive
      <4> QED BY <3>1, <4>1, <2>5, SecondsLater
    <3>3. NSEC \in 1 .. 2 * NSEC /\ 0 + NSEC <= 2 * NSEC
      BY DayPositive
    <3>4. Due(NSEC)'
      BY <1>1, <2>3, <2>6, <3>1, <3>2, <3>3 DEF Due
    <3> QED BY <3>3, <3>4
  <2>7. CASE (c + 1) % Day # p
    <3>1. d # 1
      BY <2>4, <2>5, <2>7
    <3>2. d - 1 \in 1 .. 2 * NSEC
      BY <3>1, DayPositive
    <3>3. TARGET_SEC' = T /\ quiet' <= q + 1 /\ quiet' \in Nat
      <4>1. T * NSEC + 0 = p
        BY <2>5
      <4>2. ~(pulsing /\ clock' = TARGET_SEC * NSEC + TARGET_NS)
        BY <1>1, <2>3, <2>7, <4>1 DEF NextPulse
      <4>3. TARGET_SEC' = T
        BY <4>2, <2>3 DEF Tick
      <4>4. quiet' = IF ~armed THEN 0 ELSE IF quiet <= 2 * NSEC THEN quiet + 1 ELSE quiet
        BY <4>2 DEF Tick
      <4> QED BY <2>3, <4>3, <4>4
    <3>4. (((c + 1) % Day) + (d - 1)) % Day = (c + d) % Day
      <4>1. c + 1 \in Int /\ d - 1 \in Int
        BY DayPositive
      <4>2. (c + 1) + (d - 1) = c + d
        BY DayPositive
      <4> QED BY <4>1, <4>2, DayPositive, ModPlus
    <3>5. quiet' + (d - 1) <= 2 * NSEC
      <4>1. PICK z \in Nat : z = quiet' /\ z <= q + 1
        BY <3>3
      <4>2. 2 * NSEC \in Int
        BY DayPositive
      <4>3. z + (d - 1) <= 2 * NSEC
        BY <2>4, <4>1, <4>2
      <4> QED BY <4>1, <4>3
    <3>6. Due(d - 1)'
      BY <1>1, <2>3, <2>4, <3>3, <3>4, <3>5 DEF Due
    <3> QED BY <3>2, <3>6
  <2> QED BY <2>6, <2>7
<1> QED BY <1>1, <1>2 DEF NextPulse

\* The target is written in time: the reading is less than a second and the
\* call's latency old.
LEMMA TargetAhead ==
  ASSUME TypeOK, NEW t \in Threads, NearBy(t), WriteTargetSec(t), touched[t] # 2
  PROVE  \E d \in 1 .. 2 * NSEC : Due(d)'
<1>1. PICK s \in Int, g \in 0 .. Latency, c \in 0 .. Day - 1 : s = sec[t] /\ g = age[t] /\ c = clock
  BY DayPositive DEF TypeOK
<1>2. PICK a \in 0 .. g, r \in 0 .. NSEC - 1 : (s * NSEC + r + a) % Day = c
  BY <1>1 DEF WriteTargetSec, NearBy, Since
<1>3. PICK d \in Int : d = 2 * NSEC - r - a
  <2>1. a \in Int /\ r \in Int /\ 2 * NSEC \in Int
    BY DayPositive, ClockAssumption
  <2> QED BY <2>1
<1>4. d \in 1 .. 2 * NSEC
  BY <1>3, DayPositive, ClockAssumption
<1>5. PICK x \in Int, y \in Int : x = s * NSEC + r + a /\ y = s * NSEC + 2 * NSEC
  BY DayPositive
<1>6. ((x % Day) + d) % Day = (x + d) % Day
  BY DayPositive, ModPlus
<1>7. x + d = y
  <2>1. s * NSEC \in Int
    BY DayPositive
  <2> QED BY <2>1, <1>3, <1>5, DayPositive
<1>8. TARGET_SEC' * NSEC = y % Day
  <2>1. s \in Int /\ 2 \in Int
    BY <1>1
  <2>2. ((s + 2) % WRAP) * NSEC = (s * NSEC + 2 * NSEC) % Day
    BY <2>1, SecondsLater
  <2> QED BY <1>1, <1>5, <2>2 DEF WriteTargetSec, first_pulse
<1>9. clock' = c /\ quiet' = 0
  BY <1>1 DEF WriteTargetSec, chip
<1>10. Due(d)'
  BY <1>2, <1>4, <1>5, <1>6, <1>7, <1>8, <1>9 DEF Due
<1> QED BY <1>4, <1>10

LEMMA ThreadPulse ==
  ASSUME IInv, NEW t \in Threads, Call(t) \/ Step(t)
  PROVE  NextPulse'
<1> USE DEF Goto
<1>0. TypeOK /\ NextPulse /\ ThreadInv(t)
  BY DEF IInv
<1>1. TARGET_NS' = 0 /\ (pulsing => pulsing') /\ (armed' => armed \/ pc[t] = "tns")
  BY <1>0 DEF NextPulse, Call, Get, Arm, Set, Adjust, rate_adjust, Start, Step, Snapshot, ReadSec, ReadNs,
              ReadDone, WriteSec, WriteNs, Load, WaitOver, SetUp, WriteTargetSec, WriteTargetNs, Fail,
              target, ghosts
<1>2. \A u \in Threads : u # t => pc'[u] = pc[u] /\ arg'[u] = arg[u]
  BY <1>0, Bystander
<1>3. arg'[t].call = "pps" /\ pc'[t] \notin {"idle", "wait", "setup"} => pulsing'
  <2>1. CASE Call(t)
    BY <1>0, <1>1, <2>1 DEF Call, Get, Arm, Set, Adjust, rate_adjust, Start, calls, NextPulse, TypeOK
  <2>2. CASE Step(t)
    BY <1>0, <1>1, <2>2 DEF NextPulse, Step, Snapshot, ReadSec, ReadNs, ReadDone, WriteSec, WriteNs, Load,
                            WaitOver, SetUp, WriteTargetSec, WriteTargetNs, Fail, Return, TypeOK
  <2> QED BY <2>1, <2>2
<1>4. armed' => pulsing'
  BY <1>0, <1>1 DEF NextPulse, ThreadInv, InCall
<1>5. ASSUME armed' \/ \E u \in Threads : pc'[u] = "tns", ~stepped'
      PROVE  \E d \in 1 .. 2 * NSEC : Due(d)'
  <2>1. CASE WriteTargetSec(t)
    <3>1. touched[t] # 2
      BY <1>5, <2>1 DEF WriteTargetSec
    <3> QED BY <1>0, <2>1, <3>1, TargetAhead DEF ThreadInv
  <2>2. CASE ~WriteTargetSec(t)
    <3>1. clock' = clock /\ TARGET_SEC' = TARGET_SEC /\ quiet' = quiet /\ stepped' = stepped
      BY <1>5, <2>2 DEF Call, Get, Arm, Set, Adjust, rate_adjust, Start, Step, Snapshot, ReadSec, ReadNs,
              ReadDone, WriteSec, WriteNs, Load, WaitOver, SetUp, WriteTargetNs, Fail, chip, target, ghosts
    <3>2. pc'[t] = "tns" => pc[t] = "tns"
      BY <1>0, <2>2 DEF Call, Get, Arm, Set, Adjust, rate_adjust, Start, calls, Step, Snapshot, ReadSec, ReadNs,
              ReadDone, WriteSec, WriteNs, Load, WaitOver, SetUp, WriteTargetNs, Fail, Return, TypeOK
    <3>3. armed \/ \E u \in Threads : pc[u] = "tns"
      BY <1>1, <1>2, <1>5, <3>2
    <3>4. PICK d \in 1 .. 2 * NSEC : Due(d)
      BY <1>0, <1>5, <3>1, <3>3 DEF NextPulse
    <3> QED BY <3>1, <3>4 DEF Due
  <2> QED BY <2>1, <2>2
<1>6. \A u \in Threads : arg'[u].call = "pps" /\ pc'[u] \notin {"idle", "wait", "setup"} => pulsing'
  BY <1>0, <1>1, <1>2, <1>3 DEF NextPulse
<1> QED BY <1>1, <1>4, <1>5, <1>6 DEF NextPulse

----------------------------------------------------------------------------
(* The invariant holds always.                                             *)

LEMMA StepIInv == IInv /\ [Next]_vars => IInv'
<1> SUFFICES ASSUME IInv, [Next]_vars PROVE IInv'
  OBVIOUS
<1>0. TypeOK /\ NextPulse /\ \A u \in Threads : ThreadInv(u)
  BY DEF IInv
<1>1. CASE Tick
  <2>1. TypeOK'
    BY <1>0, <1>1, TickType
  <2>2. \A u \in Threads : ThreadInv(u)'
    BY <1>0, <1>1, TickKeeps
  <2>3. NextPulse'
    BY <1>0, <1>1, TickPulse DEF ThreadInv
  <2> QED BY <2>1, <2>2, <2>3 DEF IInv
<1>2. ASSUME NEW t \in Threads, Call(t) \/ Step(t) PROVE IInv'
  <2>1. TypeOK'
    BY <1>0, <1>2, CallType, StepType DEF ThreadInv
  <2>2. ASSUME NEW u \in Threads PROVE ThreadInv(u)'
    <3>1. CASE u = t
      BY <1>0, <1>2, <3>1, OwnCallKeeps, OwnStepKeeps
    <3>2. CASE u # t
      BY <1>0, <1>2, <3>2, BystanderKeeps
    <3> QED BY <3>1, <3>2
  <2>3. NextPulse'
    BY <1>2, ThreadPulse
  <2> QED BY <2>1, <2>2, <2>3 DEF IInv
<1>3. CASE UNCHANGED vars
  <2>1. TypeOK'
    BY <1>0, <1>3 DEF vars, chip, target, calls, ghosts, TypeOK
  <2>2. ASSUME NEW u \in Threads PROVE ThreadInv(u)'
    BY <1>0, <1>3 DEF vars, chip, target, calls, ghosts, ThreadInv, InCall, ReadHalf, WriteHalf, NearBy,
                      Registers, Local, Wanted, Since
  <2>3. NextPulse'
    BY <1>0, <1>3 DEF vars, chip, target, calls, ghosts, NextPulse, Due
  <2> QED BY <2>1, <2>2, <2>3 DEF IInv
<1> QED BY <1>1, <1>2, <1>3 DEF Next

LEMMA IInvHolds == Spec => []IInv
  BY InitIInv, StepIInv, PTL DEF Spec

----------------------------------------------------------------------------
(* What follows.                                                           *)

\* The registers, the trim of the rate and every thread's locals keep their
\* types: no write of the driver leaves CLOCK_NS at a whole second or more,
\* or cuts a rate.
THEOREM TypeCorrect == Spec => []TypeOK
<1>1. IInv => TypeOK
  BY DEF IInv
<1> QED BY <1>1, IInvHolds, PTL

\* lan9250_ptp_clock_read(), undisturbed, returns one instant of the clock.
THEOREM ReadsAreConsistent == Spec => []ReadConsistent
<1>1. IInv => ReadConsistent
  BY DEF IInv, ThreadInv, ReadHalf, Local, ReadConsistent
<1> QED BY <1>1, IInvHolds, PTL

\* set() and adjust(), undisturbed, load what was asked, also for increments
\* of more than a second, of either sign, and across the counter's wrap.
THEOREM LoadsAreExact == Spec => LoadExact
<1>1. ASSUME IInv, NEW t \in Threads, Load(t), touched[t] = 0
      PROVE  clock' = IF arg[t].call = "set"
                      THEN (arg[t].tm.second * NSEC + arg[t].tm.nanosecond) % Day
                      ELSE (clock - age[t] + arg[t].inc) % Day
  <2>1. CLOCK_SEC = sec[t] /\ CLOCK_NS = ns[t] /\ Local(t) = Wanted(t)
    BY <1>1 DEF IInv, ThreadInv, WriteHalf, Load
  <2>2. clock' = Local(t)
    BY <1>1, <2>1 DEF Load, Local
  <2> QED BY <2>1, <2>2 DEF Wanted
<1>2. IInv => [\A t \in Threads :
                Load(t) /\ touched[t] = 0 =>
                  clock' = IF arg[t].call = "set"
                           THEN (arg[t].tm.second * NSEC + arg[t].tm.nanosecond) % Day
                           ELSE (clock - age[t] + arg[t].inc) % Day]_vars
  BY <1>1
<1> QED BY <1>2, IInvHolds, PTL DEF LoadExact

\* Once armed the 1PPS output is never silent for more than two seconds, unless
\* the clock was loaded, or its registers written while arming read them,
\* however the calls of the threads interleave.
THEOREM PulsesForever == Spec => []PulsesSustained
<1>1. IInv => PulsesSustained
  <2> SUFFICES ASSUME IInv, armed, ~stepped PROVE quiet <= 2 * NSEC
    BY DEF PulsesSustained
  <2>1. PICK d \in 1 .. 2 * NSEC : Due(d)
    BY DEF IInv, NextPulse
  <2>2. quiet \in Nat /\ 2 * NSEC \in Int
    BY DayPositive DEF IInv, TypeOK
  <2> QED BY <2>1, <2>2 DEF Due
<1> QED BY <1>1, IInvHolds, PTL
============================================================================
