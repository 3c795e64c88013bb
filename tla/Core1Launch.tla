---------------------------- MODULE Core1Launch ----------------------------
(***************************************************************************)
(* core1_launch() of src/core1_launch.c against the RP2350's boot ROM      *)
(* (external): core0 resets core1 and feeds it the launch sequence word by *)
(* word over the SIO FIFOs, starting over when an answer is not the word   *)
(* it sent.  When it starts, the FIFOs may still hold words of an earlier  *)
(* run of core1.                                                           *)
(***************************************************************************)
EXTENDS Naturals, Sequences

CONSTANTS
  FifoDepth,      \* entries of each SIO FIFO
  StaleAnswers,   \* bound: words of an earlier run in core0's FIFO
  StaleCommands   \* bound: words of an earlier run in core1's FIFO

ASSUME LaunchAssumption ==
  /\ FifoDepth \in Nat \ {0}
  /\ StaleAnswers \in 0 .. FifoDepth /\ StaleCommands \in 0 .. FifoDepth

cmd_sequence == <<"0", "0", "1", "vector_table", "sp", "entry">>
Words == {"0", "1", "vector_table", "sp", "entry", "stale"}

VARIABLES
  pc0,       \* core0: where in core1_reset() and core1_launch()
  seq,       \* 1 .. 7, the word to send next
  to_core1, to_core0,
  rom,       \* core1: "off", "drain", "hello", "wait", "echo" or "running"
  word,      \* the word being echoed
  taken      \* what followed the last "1": vector table, stack, entry

vars == <<pc0, seq, to_core1, to_core0, rom, word, taken>>

TypeOK ==
  /\ pc0 \in {"force_off", "release", "hello", "drain", "send", "answer", "done"}
  /\ seq \in 1 .. 7
  /\ to_core1 \in Seq(Words) /\ Len(to_core1) <= FifoDepth
  /\ to_core0 \in Seq(Words) /\ Len(to_core0) <= FifoDepth
  /\ rom \in {"off", "drain", "hello", "wait", "echo", "running", "old"}
  /\ word \in Words
  /\ taken \in Seq(Words) /\ Len(taken) <= 4

----------------------------------------------------------------------------
(* core0.                                                                  *)

\* core1_reset(): PROC1 is forced off and released, then one word is read.
ForceOff ==
  /\ pc0 = "force_off"
  /\ rom' = "off" /\ taken' = <<>>
  /\ pc0' = "release"
  /\ UNCHANGED <<seq, to_core1, to_core0, word>>

Release ==
  /\ pc0 = "release"
  /\ rom' = "drain"
  /\ pc0' = "hello"
  /\ UNCHANGED <<seq, to_core1, to_core0, word, taken>>

\* Before a "0" core0 empties its FIFO; other words go out directly.
Prepare(n) == IF n > 6 THEN "done" ELSE IF cmd_sequence[n] = "0" THEN "drain" ELSE "send"

\* Mutant: core0 goes on without waiting for core1.
HelloSkips ==
  /\ pc0 = "hello"
  /\ pc0' = Prepare(seq)
  /\ UNCHANGED <<seq, to_core1, to_core0, rom, word, taken>>

Hello ==
  /\ pc0 = "hello" /\ to_core0 # <<>>
  /\ to_core0' = Tail(to_core0)
  /\ pc0' = Prepare(seq)
  /\ UNCHANGED <<seq, to_core1, rom, word, taken>>

Drain ==
  /\ pc0 = "drain"
  /\ IF to_core0 = <<>> THEN pc0' = "send" /\ UNCHANGED to_core0
     ELSE to_core0' = Tail(to_core0) /\ UNCHANGED pc0
  /\ UNCHANGED <<seq, to_core1, rom, word, taken>>

\* Mutant: the ready bit is not looked at.
SendFull ==
  /\ pc0 = "send"
  /\ to_core1' = Append(to_core1, cmd_sequence[seq])
  /\ pc0' = "answer"
  /\ UNCHANGED <<seq, to_core0, rom, word, taken>>

Send ==
  /\ pc0 = "send" /\ Len(to_core1) < FifoDepth
  /\ to_core1' = Append(to_core1, cmd_sequence[seq])
  /\ pc0' = "answer"
  /\ UNCHANGED <<seq, to_core0, rom, word, taken>>

\* Mutant: the answer is read and not compared.
AnswerAny ==
  /\ pc0 = "answer" /\ to_core0 # <<>>
  /\ to_core0' = Tail(to_core0)
  /\ seq' = seq + 1
  /\ pc0' = Prepare(seq')
  /\ UNCHANGED <<to_core1, rom, word, taken>>

Answer ==
  /\ pc0 = "answer" /\ to_core0 # <<>>
  /\ to_core0' = Tail(to_core0)
  /\ seq' = IF Head(to_core0) = cmd_sequence[seq] THEN seq + 1 ELSE 1
  /\ pc0' = Prepare(seq')
  /\ UNCHANGED <<to_core1, rom, word, taken>>

----------------------------------------------------------------------------
(* The boot ROM on core1 (external): it empties its FIFO, says 0, and      *)
(* echoes every word; the three words after a 1 are where it starts.       *)

RomDrain ==
  /\ rom = "drain"
  /\ IF to_core1 = <<>> THEN rom' = "hello" /\ UNCHANGED to_core1
     ELSE to_core1' = Tail(to_core1) /\ UNCHANGED rom
  /\ UNCHANGED <<pc0, seq, to_core0, word, taken>>

RomHello ==
  /\ rom = "hello" /\ Len(to_core0) < FifoDepth
  /\ to_core0' = Append(to_core0, "0")
  /\ rom' = "wait"
  /\ UNCHANGED <<pc0, seq, to_core1, word, taken>>

RomTake ==
  /\ rom = "wait" /\ to_core1 # <<>>
  /\ word' = Head(to_core1) /\ to_core1' = Tail(to_core1)
  /\ taken' = CASE word' = "0" -> <<>>
                [] word' = "1" -> <<"1">>
                [] OTHER -> IF taken = <<>> THEN <<>> ELSE Append(taken, word')
  /\ rom' = "echo"
  /\ UNCHANGED <<pc0, seq, to_core0>>

RomEcho ==
  /\ rom = "echo" /\ Len(to_core0) < FifoDepth
  /\ to_core0' = Append(to_core0, word)
  /\ rom' = IF Len(taken) = 4 THEN "running" ELSE "wait"
  /\ UNCHANGED <<pc0, seq, to_core1, word, taken>>

----------------------------------------------------------------------------
Init ==
  /\ pc0 = "force_off" /\ seq = 1
  /\ \E n \in 0 .. StaleAnswers, m \in 0 .. StaleCommands :
       \E s \in [1 .. n -> {"0", "1", "stale"}], t \in [1 .. m -> {"0", "stale"}] :
         to_core0 = s /\ to_core1 = t
  /\ rom = "old" /\ word = "0" /\ taken = <<>>

Core0 == ForceOff \/ Release \/ Hello \/ Drain \/ Send \/ Answer
Rom   == RomDrain \/ RomHello \/ RomTake \/ RomEcho
Finished == pc0 = "done" /\ rom = "running" /\ UNCHANGED vars
Next  == Core0 \/ Rom \/ Finished

\* Both cores run.
Spec == Init /\ [][Next]_vars /\ WF_vars(Core0) /\ WF_vars(Rom)

----------------------------------------------------------------------------
(* Properties.                                                             *)

\* core1 starts only from the image's vector table, stack and entry, in that
\* order, and core1_launch() does not return before it does.
StartsImage ==
  /\ rom = "running" => taken = <<"1", "vector_table", "sp", "entry">>
  /\ pc0 = "done" => rom = "running"

\* core1_launch() returns, when core0's FIFO held no answer of an earlier run.
Launches == to_core0 = <<>> => <>(pc0 = "done")

\* The launch leaves no answer behind that stepper_mbox_init() would find.
NothingLeft == pc0 = "done" => to_core0 = <<>> /\ to_core1 = <<>>
=============================================================================
