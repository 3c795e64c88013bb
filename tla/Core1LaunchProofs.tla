------------------------- MODULE Core1LaunchProofs -------------------------
(***************************************************************************)
(* core1_launch() starts the image, and only the image, for any depth of   *)
(* the FIFOs and any number of words an earlier run left in them.          *)
(*                                                                         *)
(* core0 may take a word of an earlier run for core1's greeting, and is    *)
(* then one answer ahead of the ROM: the greeting is still to come when it *)
(* sends its first word.  The inductive invariant says what is under way   *)
(* between the cores, in the order core0 will read it: before core0 sends  *)
(* word 1 at most one word, a "0" or a "1"; before it sends words 2 and 3  *)
(* at most one "0"; before words 4, 5 and 6 nothing.  The last is why the  *)
(* handshake works: the answer to the "1" is a "1" only if core0 had       *)
(* caught up, else it is the "0" that was in between, and core0 starts     *)
(* over.                                                                   *)
(***************************************************************************)
EXTENDS Core1Launch, SequenceTheorems, TLAPS

----------------------------------------------------------------------------
(* What is under way from core0's sending to core0's reading.              *)

Queues(a, b) == to_core0 = a /\ to_core1 = b

\* The ROM holds w: its greeting, or the word it is about to echo.
Holds(w) == (rom = "hello" /\ w = "0") \/ (rom = "echo" /\ word = w)

Nothing == Queues(<<>>, <<>>) /\ rom = "wait"

\* One word, and whether the ROM has taken it.
Pending(w)  == Queues(<<>>, <<w>>) /\ rom = "wait"
Answered(w) == (Queues(<<>>, <<>>) /\ Holds(w)) \/ (Queues(<<w>>, <<>>) /\ rom = "wait")
One(w)      == Pending(w) \/ Answered(w)

Two(v, w) ==
  \/ rom = "wait" /\ (Queues(<<>>, <<v, w>>) \/ Queues(<<v>>, <<w>>) \/ Queues(<<v, w>>, <<>>))
  \/ Queues(<<>>, <<w>>) /\ Holds(v)
  \/ Queues(<<v>>, <<>>) /\ Holds(w)

\* What the ROM has of the image when core0 is about to send word n.
Told(n) == CASE n = 4 -> <<"1">>
             [] n = 5 -> <<"1", "vector_table">>
             [] n = 6 -> <<"1", "vector_table", "sp">>
             [] OTHER -> <<"1", "vector_table", "sp", "entry">>

----------------------------------------------------------------------------
(* The inductive invariant: six stretches of the launch.                   *)

\* Up to the reset the ROM does nothing.
Resetting == \/ pc0 = "force_off" /\ rom = "old"
             \/ pc0 = "release" /\ rom = "off" /\ taken = <<>>

\* The ROM discards whatever core0 sends.
Discarding ==
  /\ rom = "drain" /\ taken = <<>>
  /\ \/ pc0 \in {"hello", "drain"}
     \/ pc0 \in {"send", "answer"} /\ to_core0 = <<>>

\* Words of the earlier run, and the greeting behind them.
Greeting ==
  /\ rom \in {"hello", "wait"} /\ taken = <<>>
  /\ pc0 \in {"hello", "drain"} /\ to_core1 = <<>>

\* Words 1, 2 and 3, with core0 possibly one answer ahead.
Ahead(n) == \/ Nothing \/ One("0")
            \/ n = 1 /\ One("1")

Knocking ==
  /\ taken \in {<<>>, <<"1">>}
  /\ \/ (pc0 = "send" \/ (pc0 = "drain" /\ seq < 3)) /\ Ahead(seq)
     \/ pc0 = "answer" /\ seq < 3 /\ (One("0") \/ Two("0", "0") \/ (seq = 1 /\ Two("1", "0")))
     \/ /\ pc0 = "answer" /\ seq = 3
        /\ \/ Two("0", "1") \/ Pending("1")
           \/ Answered("1") /\ taken = <<"1">>

\* Words 4, 5 and 6.
Telling ==
  \/ pc0 = "send" /\ Nothing /\ taken = Told(seq)
  \/ pc0 = "answer" /\ Pending(cmd_sequence[seq]) /\ taken = Told(seq)
  \/ /\ pc0 = "answer" /\ taken = Told(seq + 1)
     /\ \/ Queues(<<>>, <<>>) /\ rom = "echo" /\ word = cmd_sequence[seq]
        \/ Queues(<<cmd_sequence[seq]>>, <<>>) /\ rom = IF seq = 6 THEN "running" ELSE "wait"

Launched ==
  pc0 = "done" /\ Queues(<<>>, <<>>) /\ rom = "running" /\ taken = Told(7)

Stretch ==
  \/ seq = 1 /\ (Resetting \/ Discarding \/ Greeting)
  \/ seq \in 1 .. 3 /\ Knocking
  \/ seq \in 4 .. 6 /\ Telling
  \/ seq = 7 /\ Launched

IInv == TypeOK /\ Stretch

----------------------------------------------------------------------------
(* Short sequences.                                                        *)

\* Words put one after the other.
LEMMA Appending ==
  ASSUME NEW S, NEW a \in S, NEW b \in S, NEW c \in S, NEW d \in S
  PROVE  /\ Append(<<a>>, b) = <<a, b>>
         /\ Append(<<a, b>>, c) = <<a, b, c>>
         /\ Append(<<a, b, c>>, d) = <<a, b, c, d>>
         /\ <<a>> \in Seq(S) /\ Len(<<a>>) = 1
         /\ <<a, b>> \in Seq(S) /\ Len(<<a, b>>) = 2
         /\ <<a, b, c>> \in Seq(S) /\ Len(<<a, b, c>>) = 3
         /\ <<a, b, c, d>> \in Seq(S) /\ Len(<<a, b, c, d>>) = 4
<1>1. /\ <<a>> \in Seq(S) /\ Len(<<a>>) = 1
      /\ <<a, b>> \in Seq(S) /\ Len(<<a, b>>) = 2
      /\ <<a, b, c>> \in Seq(S) /\ Len(<<a, b, c>>) = 3
      /\ <<a, b, c, d>> \in Seq(S) /\ Len(<<a, b, c, d>>) = 4
  OBVIOUS
<1>2. Append(<<a>>, b) = <<a, b>>
  <2> DEFINE s == Append(<<a>>, b)
             t == <<a, b>>
  <2>1. s \in Seq(S) /\ t \in Seq(S) /\ Len(s) = 2 /\ Len(t) = 2
    BY <1>1, AppendProperties
  <2>2. \A i \in 1 .. 2 : s[i] = t[i]
    BY <1>1, AppendProperties
  <2> HIDE DEF s, t
  <2>3. s = t
    BY <2>1, <2>2, SeqEqual
  <2> QED BY <2>3 DEF s, t
<1>3. Append(<<a, b>>, c) = <<a, b, c>>
  <2> DEFINE s == Append(<<a, b>>, c)
             t == <<a, b, c>>
  <2>1. s \in Seq(S) /\ t \in Seq(S) /\ Len(s) = 3 /\ Len(t) = 3
    BY <1>1, AppendProperties
  <2>2. \A i \in 1 .. 3 : s[i] = t[i]
    BY <1>1, AppendProperties
  <2> HIDE DEF s, t
  <2>3. s = t
    BY <2>1, <2>2, SeqEqual
  <2> QED BY <2>3 DEF s, t
<1>4. Append(<<a, b, c>>, d) = <<a, b, c, d>>
  <2> DEFINE s == Append(<<a, b, c>>, d)
             t == <<a, b, c, d>>
  <2>1. s \in Seq(S) /\ t \in Seq(S) /\ Len(s) = 4 /\ Len(t) = 4
    BY <1>1, AppendProperties
  <2>2. \A i \in 1 .. 4 : s[i] = t[i]
    BY <1>1, AppendProperties
  <2> HIDE DEF s, t
  <2>3. s = t
    BY <2>1, <2>2, SeqEqual
  <2> QED BY <2>3 DEF s, t
<1> QED BY <1>1, <1>2, <1>3, <1>4

\* The FIFOs hold at most two words once the earlier run's are gone.
LEMMA ShortSequences ==
  ASSUME NEW v, NEW w
  PROVE  /\ Head(<<v>>) = v /\ Tail(<<v>>) = <<>>
         /\ Head(<<v, w>>) = v /\ Tail(<<v, w>>) = <<w>>
         /\ Append(<<>>, v) = <<v>> /\ Append(<<v>>, w) = <<v, w>>
         /\ <<v>> # <<>> /\ <<v, w>> # <<>>
<1>1. Append(<<v>>, w) = <<v, w>>
  <2>1. v \in {v, w} /\ w \in {v, w}
    OBVIOUS
  <2> QED BY <2>1, Appending
<1>2. Tail(<<v>>) = <<>> /\ Append(<<>>, v) = <<v>>
  OBVIOUS
<1>3. Tail(<<v, w>>) = <<w>>
  OBVIOUS
<1> QED BY <1>1, <1>2, <1>3

\* The launch sequence, word by word.
LEMMA LaunchWords ==
  /\ cmd_sequence[1] = "0" /\ cmd_sequence[2] = "0" /\ cmd_sequence[3] = "1"
  /\ cmd_sequence[4] = "vector_table" /\ cmd_sequence[5] = "sp" /\ cmd_sequence[6] = "entry"
  /\ Prepare(1) = "drain" /\ Prepare(2) = "drain" /\ Prepare(3) = "send"
  /\ Prepare(4) = "send" /\ Prepare(5) = "send" /\ Prepare(6) = "send" /\ Prepare(7) = "done"
  BY DEF cmd_sequence, Prepare

\* What the ROM has been told grows word by word, and is complete at four.
LEMMA ToldGrows ==
  /\ \A n \in 4 .. 6 : Told(n + 1) = Append(Told(n), cmd_sequence[n])
  /\ \A n \in 4 .. 7 : Told(n) # <<>> /\ Len(Told(n)) = n - 3 /\ Told(n) \in Seq(Words)
  /\ Told(4) = <<"1">> /\ Told(7) = <<"1", "vector_table", "sp", "entry">>
<1>1. Told(4) = <<"1">> /\ Told(5) = <<"1", "vector_table">>
      /\ Told(6) = <<"1", "vector_table", "sp">> /\ Told(7) = <<"1", "vector_table", "sp", "entry">>
  BY DEF Told
<1>w. "1" \in Words /\ "vector_table" \in Words /\ "sp" \in Words /\ "entry" \in Words
  BY DEF Words
<1>a. /\ Told(5) = Append(Told(4), cmd_sequence[4])
      /\ Told(6) = Append(Told(5), cmd_sequence[5])
      /\ Told(7) = Append(Told(6), cmd_sequence[6])
  <2>1. /\ Append(<<"1">>, "vector_table") = <<"1", "vector_table">>
        /\ Append(<<"1", "vector_table">>, "sp") = <<"1", "vector_table", "sp">>
        /\ Append(<<"1", "vector_table", "sp">>, "entry") = <<"1", "vector_table", "sp", "entry">>
    BY <1>w, Appending
  <2> QED BY <1>1, <2>1, LaunchWords
<1>l. /\ Told(4) # <<>> /\ Len(Told(4)) = 1 /\ Told(4) \in Seq(Words)
      /\ Told(5) # <<>> /\ Len(Told(5)) = 2 /\ Told(5) \in Seq(Words)
      /\ Told(6) # <<>> /\ Len(Told(6)) = 3 /\ Told(6) \in Seq(Words)
      /\ Told(7) # <<>> /\ Len(Told(7)) = 4 /\ Told(7) \in Seq(Words)
  <2>1. /\ <<"1">> \in Seq(Words) /\ Len(<<"1">>) = 1
        /\ <<"1", "vector_table">> \in Seq(Words) /\ Len(<<"1", "vector_table">>) = 2
        /\ <<"1", "vector_table", "sp">> \in Seq(Words) /\ Len(<<"1", "vector_table", "sp">>) = 3
        /\ <<"1", "vector_table", "sp", "entry">> \in Seq(Words)
        /\ Len(<<"1", "vector_table", "sp", "entry">>) = 4
    BY <1>w, Appending
  <2>6. ASSUME NEW s \in Seq(Words), Len(s) # 0 PROVE s # <<>>
    BY <2>6, EmptySeq, Zenon
  <2>7. 1 # 0 /\ 2 # 0 /\ 3 # 0 /\ 4 # 0
    OBVIOUS
  <2> QED BY <1>1, <2>1, <2>6, <2>7, Zenon
<1>2. \A n \in 4 .. 6 : Told(n + 1) = Append(Told(n), cmd_sequence[n])
  <2> TAKE n \in 4 .. 6
  <2>1. n = 4 \/ n = 5 \/ n = 6
    OBVIOUS
  <2> QED BY <2>1, <1>a
<1>3. \A n \in 4 .. 7 : Told(n) # <<>> /\ Len(Told(n)) = n - 3 /\ Told(n) \in Seq(Words)
  <2> TAKE n \in 4 .. 7
  <2>1. n = 4 \/ n = 5 \/ n = 6 \/ n = 7
    OBVIOUS
  <2>2. CASE n = 4
    BY <2>2, <1>l
  <2>3. CASE n = 5
    BY <2>3, <1>l
  <2>4. CASE n = 6
    BY <2>4, <1>l
  <2>5. CASE n = 7
    BY <2>5, <1>l
  <2> QED BY <2>1, <2>2, <2>3, <2>4, <2>5
<1> QED BY <1>1, <1>2, <1>3

----------------------------------------------------------------------------
(* The invariant holds initially, and every step keeps it.                 *)

LEMMA InitIInv == Init => IInv
<1> SUFFICES ASSUME Init PROVE IInv
  OBVIOUS
<1>1. PICK n \in 0 .. StaleAnswers, m \in 0 .. StaleCommands :
        \E s \in [1 .. n -> {"0", "1", "stale"}], t \in [1 .. m -> {"0", "stale"}] :
          to_core0 = s /\ to_core1 = t
  BY DEF Init
<1>2. to_core0 \in Seq(Words) /\ Len(to_core0) = n
  <2>1. to_core0 \in [1 .. n -> Words] /\ n \in Nat
    BY <1>1, LaunchAssumption DEF Words
  <2> QED BY <2>1
<1>3. to_core1 \in Seq(Words) /\ Len(to_core1) = m
  <2>1. to_core1 \in [1 .. m -> Words] /\ m \in Nat
    BY <1>1, LaunchAssumption DEF Words
  <2> QED BY <2>1
<1>4. TypeOK
  BY <1>2, <1>3, LaunchAssumption DEF Init, TypeOK, Words
<1> QED BY <1>4 DEF Init, IInv, Stretch, Resetting

\* No step puts more into a FIFO than it holds, or more than four words into
\* what the ROM was told.
LEMMA StepType == IInv /\ Next => TypeOK'
<1> SUFFICES ASSUME IInv, Next PROVE TypeOK'
  OBVIOUS
<1> USE LaunchAssumption
<1>t. TypeOK /\ Stretch
  BY DEF IInv
<1>1. CASE ForceOff
  BY <1>1, <1>t DEF ForceOff, TypeOK
<1>2. CASE Release
  BY <1>2, <1>t DEF Release, TypeOK
<1>3. CASE Hello
  BY <1>3, <1>t DEF Hello, TypeOK, Prepare
<1>4. CASE Drain
  BY <1>4, <1>t DEF Drain, TypeOK
<1>5. CASE Send
  <2>1. seq # 7 /\ cmd_sequence[seq] \in Words
    <3>1. seq \in 1 .. 6
      BY <1>5, <1>t DEF Send, Stretch, Launched, TypeOK
    <3> QED BY <3>1 DEF cmd_sequence, Words
  <2> QED BY <1>5, <1>t, <2>1 DEF Send, TypeOK
<1>6. CASE Answer
  <2>1. seq \in 1 .. 6
    BY <1>6, <1>t DEF Answer, Stretch, Launched, TypeOK
  <2> QED BY <1>6, <1>t, <2>1 DEF Answer, TypeOK, Prepare
<1>7. CASE RomDrain
  BY <1>7, <1>t DEF RomDrain, TypeOK
<1>8. CASE RomHello
  BY <1>8, <1>t DEF RomHello, TypeOK, Words
<1>9. CASE RomTake
  <2>1. Len(taken) <= 3
    <3>1. CASE seq = 1 /\ (Resetting \/ Discarding \/ Greeting)
      BY <3>1, <1>9 DEF RomTake, Resetting, Discarding, Greeting
    <3>2. CASE seq \in 1 .. 3 /\ Knocking
      <4>1. Len(<<>>) = 0 /\ Len(<<"1">>) = 1
        OBVIOUS
      <4>2. taken = <<>> \/ taken = <<"1">>
        BY <3>2 DEF Knocking
      <4> QED BY <4>1, <4>2
    <3>3. CASE seq \in 4 .. 6 /\ Telling
      <4>1. taken = Told(seq)
        BY <3>3, <1>9, ShortSequences DEF RomTake, Telling, Queues
      <4> QED BY <3>3, <4>1, ToldGrows
    <3> QED BY <3>1, <3>2, <3>3, <1>t, <1>9 DEF Stretch, Launched, RomTake
  <2>2. word' \in Words /\ to_core1' \in Seq(Words) /\ Len(to_core1') <= FifoDepth
    BY <1>9, <1>t DEF RomTake, TypeOK
  <2>3. taken' \in Seq(Words) /\ Len(taken') <= 4
    <3>1. taken' \in {<<>>, <<"1">>, Append(taken, word')}
      BY <1>9 DEF RomTake
    <3>2. "1" \in Words
      BY DEF Words
    <3>3. /\ <<>> \in Seq(Words) /\ Len(<<>>) = 0
          /\ <<"1">> \in Seq(Words) /\ Len(<<"1">>) = 1
      BY <3>2
    <3>4. Append(taken, word') \in Seq(Words) /\ Len(Append(taken, word')) = Len(taken) + 1
      BY <2>2, <1>t, AppendProperties DEF TypeOK
    <3>5. Len(taken) \in Nat
      BY <1>t DEF TypeOK
    <3>6. Len(Append(taken, word')) <= 4
      BY <3>4, <3>5, <2>1
    <3>7. CASE taken' = <<>>
      BY <3>7, <3>3
    <3>8. CASE taken' = <<"1">>
      BY <3>8, <3>3
    <3>9. CASE taken' = Append(taken, word')
      BY <3>9, <3>4, <3>6
    <3> QED BY <3>1, <3>7, <3>8, <3>9
  <2> QED BY <1>9, <1>t, <2>2, <2>3 DEF RomTake, TypeOK
<1>10. CASE RomEcho
  BY <1>10, <1>t DEF RomEcho, TypeOK
<1>11. CASE Finished
  BY <1>11, <1>t DEF Finished, TypeOK, vars
<1> QED BY <1>1, <1>2, <1>3, <1>4, <1>5, <1>6, <1>7, <1>8, <1>9, <1>10, <1>11 DEF Next, Core0, Rom

\* What one step does to the words under way.
LEMMA Sending ==
  ASSUME NEW w, to_core1' = Append(to_core1, w), UNCHANGED <<to_core0, rom, word>>
  PROVE  /\ Nothing => Pending(w)'
         /\ \A v : One(v) => Two(v, w)'
<1> USE ShortSequences
<1>1. Nothing => Pending(w)'
  BY DEF Nothing, Pending, Queues
<1>2. ASSUME NEW v, One(v) PROVE Two(v, w)'
  <2>1. CASE Pending(v)
    BY <2>1 DEF Pending, Two, Queues
  <2>2. CASE Answered(v)
    BY <2>2 DEF Answered, Two, Queues, Holds
  <2> QED BY <1>2, <2>1, <2>2 DEF One
<1> QED BY <1>1, <1>2

LEMMA Reading ==
  ASSUME to_core0 # <<>>, to_core0' = Tail(to_core0), UNCHANGED <<to_core1, rom, word>>
  PROVE  /\ \A v : One(v) => Head(to_core0) = v /\ Answered(v) /\ Nothing'
         /\ \A v, w : Two(v, w) => Head(to_core0) = v /\ One(w)'
<1> USE ShortSequences
<1>1. ASSUME NEW v, One(v) PROVE Head(to_core0) = v /\ Answered(v) /\ Nothing'
  BY <1>1 DEF One, Pending, Answered, Queues, Nothing
<1>2. ASSUME NEW v, NEW w, Two(v, w) PROVE Head(to_core0) = v /\ One(w)'
  <2>1. CASE rom = "wait" /\ Queues(<<v>>, <<w>>)
    BY <2>1 DEF Queues, One, Pending
  <2>2. CASE rom = "wait" /\ Queues(<<v, w>>, <<>>)
    BY <2>2 DEF Queues, One, Answered
  <2>3. CASE Queues(<<v>>, <<>>) /\ Holds(w)
    BY <2>3 DEF Queues, One, Answered, Holds
  <2> QED BY <1>2, <2>1, <2>2, <2>3 DEF Two, Queues
<1> QED BY <1>1, <1>2

LEMMA Taking ==
  ASSUME RomTake
  PROVE  /\ \A v : One(v) => word' = v /\ Answered(v)'
         /\ \A v, w : Two(v, w) => word' \in {v, w} /\ Two(v, w)'
<1> USE ShortSequences
<1>1. ASSUME NEW v, One(v) PROVE word' = v /\ Answered(v)'
  BY <1>1 DEF RomTake, One, Pending, Answered, Queues, Holds
<1>2. ASSUME NEW v, NEW w, Two(v, w) PROVE word' \in {v, w} /\ Two(v, w)'
  <2>1. CASE rom = "wait" /\ Queues(<<>>, <<v, w>>)
    BY <2>1 DEF RomTake, Queues, Two, Holds
  <2>2. CASE rom = "wait" /\ Queues(<<v>>, <<w>>)
    BY <2>2 DEF RomTake, Queues, Two, Holds
  <2> QED BY <1>2, <2>1, <2>2 DEF RomTake, Two, Queues, Holds
<1> QED BY <1>1, <1>2

LEMMA Echoing ==
  ASSUME RomEcho, rom' = "wait"
  PROVE  /\ \A v : One(v) => Answered(v) /\ Answered(v)'
         /\ \A v, w : Two(v, w) => Two(v, w)'
<1> USE ShortSequences
<1>1. ASSUME NEW v, One(v) PROVE Answered(v) /\ Answered(v)'
  BY <1>1 DEF RomEcho, One, Pending, Answered, Queues, Holds
<1>2. ASSUME NEW v, NEW w, Two(v, w) PROVE Two(v, w)'
  <2>1. CASE Queues(<<>>, <<w>>) /\ Holds(v)
    BY <2>1 DEF RomEcho, Queues, Two, Holds
  <2>2. CASE Queues(<<v>>, <<>>) /\ Holds(w)
    <3>1. word = w /\ to_core0 = <<v>> /\ to_core1 = <<>>
      BY <2>2 DEF RomEcho, Queues, Holds
    <3>2. to_core0' = <<v, w>> /\ to_core1' = <<>>
      BY <3>1 DEF RomEcho
    <3> QED BY <3>2 DEF Queues, Two
  <2>3. rom # "wait"
    BY DEF RomEcho
  <2> QED BY <1>2, <2>1, <2>2, <2>3 DEF Two
<1> QED BY <1>1, <1>2

\* What core0 does.
LEMMA Core0Stretch == IInv /\ Core0 => Stretch'
<1> SUFFICES ASSUME IInv, Core0 PROVE Stretch'
  OBVIOUS
<1> USE ShortSequences, LaunchWords
<1>t. TypeOK /\ Stretch
  BY DEF IInv
<1>1. CASE ForceOff
  <2>1. seq = 1
    BY <1>1, <1>t DEF ForceOff, Stretch, Knocking, Telling, Launched
  <2> QED BY <1>1, <2>1 DEF ForceOff, Stretch, Resetting
<1>2. CASE Release
  <2>1. seq = 1 /\ Resetting
    BY <1>2, <1>t DEF Release, Stretch, Discarding, Greeting, Knocking, Telling, Launched
  <2> QED BY <1>2, <2>1 DEF Release, Stretch, Resetting, Discarding
<1>3. CASE Hello
  <2>1. seq = 1 /\ (Discarding \/ Greeting)
    BY <1>3, <1>t DEF Hello, Stretch, Resetting, Knocking, Telling, Launched
  <2> QED BY <1>3, <2>1 DEF Hello, Stretch, Discarding, Greeting
<1>4. CASE Drain
  <2>1. CASE seq = 1 /\ Discarding
    BY <1>4, <2>1 DEF Drain, Stretch, Discarding
  <2>2. CASE seq = 1 /\ Greeting
    BY <1>4, <2>2 DEF Drain, Stretch, Greeting, Knocking, Ahead, Nothing, One, Answered, Holds, Queues
  <2>3. CASE seq \in 1 .. 3 /\ Knocking
    BY <1>4, <2>3 DEF Drain, Stretch, Knocking, Ahead, Nothing, One, Pending, Answered, Holds, Queues
  <2> QED BY <1>4, <1>t, <2>1, <2>2, <2>3 DEF Drain, Stretch, Resetting, Telling, Launched
<1>5. CASE Send
  <2>1. CASE seq = 1 /\ Discarding
    BY <1>5, <2>1 DEF Send, Stretch, Discarding
  <2>0. /\ Nothing => Pending(cmd_sequence[seq])'
        /\ \A v : One(v) => Two(v, cmd_sequence[seq])'
    BY <1>5, Sending DEF Send
  <2>2. CASE seq \in 1 .. 2 /\ Knocking
    BY <1>5, <2>0, <2>2 DEF Send, Stretch, Knocking, Ahead, One
  <2>3. CASE seq = 3 /\ Knocking
    BY <1>5, <2>0, <2>3 DEF Send, Stretch, Knocking, Ahead
  <2>4. CASE seq \in 4 .. 6 /\ Telling
    BY <1>5, <2>4 DEF Send, Stretch, Telling, Nothing, Pending, Queues
  <2> QED BY <1>5, <1>t, <2>1, <2>2, <2>3, <2>4 DEF Send, Stretch, Resetting, Greeting, Launched
<1>6. CASE Answer
  <2>1. CASE seq = 1 /\ Discarding
    BY <1>6, <2>1 DEF Answer, Discarding
  <2>0. /\ \A v : One(v) => Head(to_core0) = v /\ Answered(v) /\ Nothing'
        /\ \A v, w : Two(v, w) => Head(to_core0) = v /\ One(w)'
    BY <1>6, Reading DEF Answer
  <2>2. CASE seq = 1 /\ Knocking
    BY <1>6, <2>0, <2>2 DEF Answer, Stretch, Knocking, Ahead
  <2>3. CASE seq = 2 /\ Knocking
    BY <1>6, <2>0, <2>3 DEF Answer, Stretch, Knocking, Ahead
  <2>4. CASE seq = 3 /\ Knocking
    <3>1. CASE Two("0", "1")
      BY <1>6, <2>0, <2>4, <3>1 DEF Answer, Stretch, Knocking, Ahead
    <3>2. CASE One("1")
      BY <1>6, <2>0, <2>4, <3>2, ToldGrows DEF Answer, Stretch, Knocking, Telling, Pending, Queues
    <3> QED BY <1>6, <2>4, <3>1, <3>2 DEF Answer, Knocking, One
  <2>5. CASE seq \in 4 .. 6 /\ Telling
    <3>1. /\ taken = Told(seq + 1) /\ Queues(<<cmd_sequence[seq]>>, <<>>)
          /\ rom = IF seq = 6 THEN "running" ELSE "wait"
      BY <1>6, <2>5 DEF Answer, Telling, Nothing, Pending, Queues
    <3>2. Queues(<<>>, <<>>)' /\ seq' = seq + 1 /\ taken' = Told(seq') /\ rom' = rom
      BY <1>6, <3>1 DEF Answer, Queues
    <3>3. CASE seq = 6
      BY <1>6, <3>1, <3>2, <3>3 DEF Answer, Stretch, Launched
    <3>4. CASE seq \in 4 .. 5
      <4>1. seq' \in 5 .. 6 /\ pc0' = "send"
        <5>1. seq = 4 \/ seq = 5
          BY <3>4
        <5> QED BY <1>6, <5>1, <3>2 DEF Answer
      <4> QED BY <3>1, <3>2, <3>4, <4>1 DEF Stretch, Telling, Nothing
    <3> QED BY <2>5, <3>3, <3>4
  <2> QED BY <1>6, <1>t, <2>1, <2>2, <2>3, <2>4, <2>5 DEF Answer, Stretch, Resetting, Greeting, Launched
<1> QED BY <1>1, <1>2, <1>3, <1>4, <1>5, <1>6 DEF Core0

\* What the ROM does.
LEMMA RomStretch == IInv /\ Rom => Stretch'
<1> SUFFICES ASSUME IInv, Rom PROVE Stretch'
  OBVIOUS
<1> USE ShortSequences, LaunchWords
<1>t. TypeOK /\ Stretch
  BY DEF IInv
<1>1. CASE RomDrain
  <2>0. rom = "drain"
    BY <1>1 DEF RomDrain
  <2>1. seq = 1 /\ Discarding
    <3>1. ~Resetting /\ ~Greeting /\ ~Knocking /\ ~Launched
      BY <2>0 DEF Resetting, Greeting, Knocking, Launched, Ahead, Nothing, One, Two, Pending, Answered, Holds
    <3>2. ~Telling
      BY <2>0 DEF Telling, Nothing, Pending
    <3> QED BY <1>t, <3>1, <3>2 DEF Stretch
  <2> QED BY <1>1, <2>1 DEF RomDrain, Stretch, Discarding, Greeting, Knocking, Ahead, One, Answered,
                            Holds, Queues
<1>2. CASE RomHello
  <2>1. CASE seq = 1 /\ Greeting
    BY <1>2, <2>1 DEF RomHello, Stretch, Greeting
  <2>2. CASE seq \in 1 .. 3 /\ Knocking
    <3>1. /\ rom = "hello" /\ rom' = "wait" /\ to_core0' = Append(to_core0, "0")
          /\ UNCHANGED <<pc0, seq, to_core1, taken>>
      BY <1>2 DEF RomHello
    <3>2. \A w : One(w) => w = "0" /\ Answered(w)'
      BY <3>1, ShortSequences DEF One, Pending, Answered, Holds, Queues
    <3>3. \A v, w : Two(v, w) => Two(v, w)'
      <4>1. ASSUME NEW v, NEW w, Queues(<<>>, <<w>>), Holds(v) PROVE Queues(<<v>>, <<w>>)'
        BY <4>1, <3>1, ShortSequences DEF Holds, Queues
      <4>2. ASSUME NEW v, NEW w, Queues(<<v>>, <<>>), Holds(w) PROVE Queues(<<v, w>>, <<>>)'
        <5>1. w = "0" /\ to_core0 = <<v>> /\ to_core1 = <<>>
          BY <4>2, <3>1 DEF Holds, Queues
        <5>2. Append(<<v>>, w) = <<v, w>>
          BY ShortSequences
        <5> QED BY <5>1, <5>2, <3>1 DEF Queues
      <4> QED BY <4>1, <4>2, <3>1 DEF Two
    <3>4. ~Nothing
      BY <3>1 DEF Nothing
    <3>5. \A w : ~Pending(w)
      BY <3>1 DEF Pending
    <3>6. \A w : Answered(w) => One(w)
      BY DEF One
    <3>7. \A w : Answered(w)' => One(w)'
      BY DEF One
    <3> QED BY <3>1, <3>2, <3>3, <3>4, <3>5, <3>6, <3>7, <2>2 DEF Stretch, Knocking, Ahead
  <2> QED BY <1>2, <1>t, <2>1, <2>2 DEF RomHello, Stretch, Resetting, Discarding, Telling, Launched,
                                        Nothing, Pending
<1>3. CASE RomTake
  <2>0. /\ \A v : One(v) => word' = v /\ Answered(v)'
        /\ \A v, w : Two(v, w) => word' \in {v, w} /\ Two(v, w)'
    BY <1>3, Taking
  <2>1. CASE seq \in 1 .. 3 /\ Knocking
    <3>1. word' \in {"0", "1"} /\ taken' \in {<<>>, <<"1">>} /\ (word' = "1" => taken' = <<"1">>)
      BY <1>3, <2>0, <2>1 DEF RomTake, Knocking, Ahead, Nothing, One, Queues
    <3> QED BY <1>3, <2>0, <2>1, <3>1 DEF RomTake, Stretch, Knocking, Ahead, Nothing, One, Queues
  <2>2. CASE seq \in 4 .. 6 /\ Telling
    <3>1. pc0 = "answer" /\ Queues(<<>>, <<cmd_sequence[seq]>>) /\ taken = Told(seq)
      BY <1>3, <2>2 DEF RomTake, Telling, Nothing, Pending, Queues
    <3>2. word' = cmd_sequence[seq] /\ Queues(<<>>, <<>>)'
      BY <1>3, <3>1 DEF RomTake, Queues
    <3>3. word' # "0" /\ word' # "1"
      <4>1. seq = 4 \/ seq = 5 \/ seq = 6
        BY <2>2
      <4> QED BY <4>1, <3>2
    <3>4. taken' = Told(seq + 1)
      <4>1. taken # <<>> /\ Told(seq + 1) = Append(taken, cmd_sequence[seq])
        BY <2>2, <3>1, ToldGrows
      <4>2. taken' = Append(taken, word')
        BY <1>3, <3>3, <4>1 DEF RomTake
      <4> QED BY <4>1, <4>2, <3>2
    <3> QED BY <1>3, <2>2, <3>1, <3>2, <3>4 DEF RomTake, Stretch, Telling
  <2> QED BY <1>3, <1>t, <2>1, <2>2 DEF RomTake, Stretch, Resetting, Discarding, Greeting, Launched
<1>4. CASE RomEcho
  <2>1. CASE seq \in 1 .. 3 /\ Knocking
    <3>1. rom' = "wait"
      <4>1. taken = <<>> \/ taken = <<"1">>
        BY <2>1 DEF Knocking
      <4>2. Len(taken) # 4
        BY <4>1
      <4> QED BY <1>4, <4>2 DEF RomEcho
    <3>2. /\ \A v : One(v) => Answered(v) /\ Answered(v)'
          /\ \A v, w : Two(v, w) => Two(v, w)'
      BY <1>4, <3>1, Echoing
    <3> QED BY <1>4, <2>1, <3>1, <3>2 DEF RomEcho, Stretch, Knocking, Ahead, Nothing, One, Pending
  <2>2. CASE seq \in 4 .. 6 /\ Telling
    BY <1>4, <2>2, ToldGrows DEF RomEcho, Stretch, Telling, Nothing, Pending, Queues
  <2> QED BY <1>4, <1>t, <2>1, <2>2 DEF RomEcho, Stretch, Resetting, Discarding, Greeting, Launched
<1> QED BY <1>1, <1>2, <1>3, <1>4 DEF Rom

LEMMA StepIInv == IInv /\ [Next]_vars => IInv'
<1> SUFFICES ASSUME IInv, [Next]_vars PROVE IInv'
  OBVIOUS
<1>1. CASE Core0 \/ Rom
  BY <1>1, StepType, Core0Stretch, RomStretch DEF Next, IInv
<1>2. CASE UNCHANGED vars
  BY <1>2 DEF vars, IInv, TypeOK, Stretch, Resetting, Discarding, Greeting, Knocking, Telling, Launched,
              Ahead, Nothing, One, Two, Pending, Answered, Holds, Queues
<1> QED BY <1>1, <1>2 DEF Next, Finished

LEMMA IInvHolds == Spec => []IInv
  BY InitIInv, StepIInv, PTL DEF Spec

----------------------------------------------------------------------------
(* What follows.                                                           *)

\* Every variable of core0 and of the ROM keeps its type; in particular core0
\* never overruns core1's FIFO, nor the ROM core0's.
THEOREM TypeCorrect == Spec => []TypeOK
<1>1. IInv => TypeOK
  BY DEF IInv
<1> QED BY <1>1, IInvHolds, PTL

\* core1 starts from the image's vector table, stack and entry and from
\* nothing else, and core1_launch() does not return before it has started.
THEOREM StartsImageOnly == Spec => []StartsImage
<1>1. IInv => StartsImage
  <2> SUFFICES ASSUME IInv PROVE StartsImage
    OBVIOUS
  <2>1. CASE rom = "running"
    <3>1. \/ seq \in 4 .. 6 /\ Telling
          \/ seq = 7 /\ Launched
      BY <2>1 DEF IInv, Stretch, Resetting, Discarding, Greeting, Knocking, Ahead, Nothing, One, Two,
                  Pending, Answered, Holds
    <3>2. taken = Told(7)
      BY <2>1, <3>1 DEF Telling, Launched, Nothing, Pending
    <3> QED BY <2>1, <3>2, ToldGrows DEF StartsImage
  <2>2. CASE rom # "running"
    BY <2>2 DEF StartsImage, IInv, Stretch, Resetting, Discarding, Greeting, Knocking, Telling, Launched
  <2> QED BY <2>1, <2>2
<1> QED BY <1>1, IInvHolds, PTL

\* When core1_launch() returns both FIFOs are empty: stepper_mbox_init(), which
\* runs next, finds no word of the launch.
THEOREM LaunchLeavesNothing == Spec => []NothingLeft
<1>1. IInv => NothingLeft
  BY DEF IInv, NothingLeft, Stretch, Resetting, Discarding, Greeting, Knocking, Telling, Launched, Queues
<1> QED BY <1>1, IInvHolds, PTL
============================================================================
