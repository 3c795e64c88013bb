------------------------ MODULE StepperSystemProofs ------------------------
(***************************************************************************)
(* Proofs about the mailbox protocol with one shell, for every FIFO depth  *)
(* of at least two words, every set of inputs and every number of          *)
(* commands.                                                               *)
(***************************************************************************)
EXTENDS StepperSystem, StepperMotionProofs

----------------------------------------------------------------------------
(* The inductive invariant: where the words of the one outstanding request *)
(* are, for each place the shell can be in its round trip.                 *)

\* The requests a shell can send.
Requests(c) ==
       {Request(CMD_SPEED, mbox_pack_float(v), c) : v \in SpeedInputs}
  \cup {Request(CMD_ACCEL, mbox_pack_float(v), c) : v \in AccelInputs}
  \cup {Request(CMD_DECEL, mbox_pack_float(v), c) : v \in AccelInputs}
  \cup {Request(CMD_MOVE, IntWord(n), c) : n \in StepInputs}
  \cup {Request(CMD_STOP, NoPayload, c)}
  \cup {Request(CMD_STATUS, IntWord(i), c) : i \in 0 .. 5}

OpcodeOf(r)  == [word |-> IntWord(r.op), by |-> r.by]
PayloadOf(r) == [word |-> r.payload, by |-> r.by]
Opened(r)    == Request(r.op, NoPayload, r.by)

\* The contents of the mailbox and of the handler.
Mail(in1, in0, sem, h, m, w) ==
  /\ to_core1 = in1
  /\ to_core0 = in0
  /\ reply_sem = sem
  /\ hpc = h
  /\ cmd = m
  /\ reply = w

Quiet          == Mail(<<>>, <<>>, 0, "none", <<>>, <<>>)
OpcodeSent(r)  == Mail(<<OpcodeOf(r)>>, <<>>, 0, "none", <<>>, <<>>)
OpcodeTaken(r) == Mail(<<>>, <<>>, 0, "payload", <<Opened(r)>>, <<>>)
BothSent(r)    == Mail(<<OpcodeOf(r), PayloadOf(r)>>, <<>>, 0, "none", <<>>, <<>>)
PayloadSent(r) == Mail(<<PayloadOf(r)>>, <<>>, 0, "payload", <<Opened(r)>>, <<>>)
Served(r, w)   == Mail(<<>>, <<>>, 0, "reply", <<r>>, <<w>>)
Replied(r, w)  == Mail(<<>>, <<[word |-> w, to |-> r]>>, 0, "none", <<>>, <<>>)
Stored(r, w)   == /\ Mail(<<>>, <<>>, 1, "none", <<>>, <<>>)
                  /\ last_reply = <<[word |-> w, to |-> r]>>
Fetched(r, w)  == /\ Quiet
                  /\ last_reply = <<[word |-> w, to |-> r]>>

Waiting(r) ==
  \/ r.op = CMD_STOP /\ OpcodeSent(r)
  \/ r.op \in HasPayload /\ BothSent(r)
  \/ r.op \in HasPayload /\ PayloadSent(r)
  \/ \E w : Served(r, w)
  \/ \E w : Replied(r, w)
  \/ \E w : Stored(r, w)

SysInv(u) ==
  /\ cpc \in [Clients -> {"idle", "opcode", "payload", "wait", "read"}]
  /\ todo \in [Clients -> Seq(Requests(u))]
  /\ (cpc[u] = "idle") = (todo[u] = <<>>)
  /\ cpc[u] \in {"idle", "opcode"} => Quiet
  /\ cpc[u] = "payload" =>
       /\ Head(todo[u]).op \in HasPayload
       /\ OpcodeSent(Head(todo[u])) \/ OpcodeTaken(Head(todo[u]))
  /\ cpc[u] = "wait" => Waiting(Head(todo[u]))
  /\ cpc[u] = "read" => \E w : Fetched(Head(todo[u]), w)

\* Queues of up to two words.
LEMMA ShortQueues ==
  ASSUME NEW a, NEW b
  PROVE  /\ Head(<<a>>) = a /\ Tail(<<a>>) = <<>> /\ Len(<<a>>) = 1
         /\ Head(<<a, b>>) = a /\ Tail(<<a, b>>) = <<b>> /\ Len(<<a, b>>) = 2
         /\ Append(<<>>, a) = <<a>> /\ Append(<<a>>, b) = <<a, b>>
         /\ <<a>> # <<>> /\ <<a, b>> # <<>> /\ Len(<<>>) = 0
         /\ <<a>>[1] = a
<1>1. <<>> \in Seq({a, b}) /\ <<a>> \in Seq({a, b}) /\ <<b>> \in Seq({a, b})
  OBVIOUS
<1>2. Head(<<a>>) = a /\ Len(<<a>>) = 1 /\ Len(<<>>) = 0
  OBVIOUS
<1>3. Tail(<<a>>) = <<>>
  BY <1>2
<1>4. Append(<<>>, a) = <<a>>
  OBVIOUS
<1>5. Append(<<a>>, b) = <<a, b>>
  <2> DEFINE s == Append(<<a>>, b)
  <2>1. s \in Seq({a, b}) /\ Len(s) = 2 /\ s[1] = a /\ s[2] = b
    BY <1>1, <1>2, AppendProperties
  <2> HIDE DEF s
  <2>2. <<a, b>> \in Seq({a, b}) /\ Len(<<a, b>>) = 2
    OBVIOUS
  <2>3. s = <<a, b>>
    BY <2>1, <2>2, SeqEqual
  <2> QED
    BY <2>3 DEF s
<1>6. Head(<<a, b>>) = a /\ Len(<<a, b>>) = 2
  OBVIOUS
<1>7. Tail(<<a, b>>) = <<b>>
  OBVIOUS
<1>8. <<a>> # <<>> /\ <<a, b>> # <<>> /\ <<a>>[1] = a
  OBVIOUS
<1> QED
  BY <1>2, <1>3, <1>4, <1>5, <1>6, <1>7, <1>8

\* What a request of the shell is made of.
LEMMA RequestParts ==
  ASSUME NEW u, NEW r \in Requests(u)
  PROVE  /\ r.by = u
         /\ r.op \in HasPayload \cup {CMD_STOP}
         /\ r.op = CMD_STOP => r = Request(CMD_STOP, NoPayload, u)
         /\ r.payload \in Payloads
         /\ r = Request(r.op, r.payload, u)
<1>1. CASE \E v \in SpeedInputs : r = Request(CMD_SPEED, mbox_pack_float(v), u)
  BY <1>1 DEF Request, HasPayload, Payloads, CMD_SPEED, CMD_ACCEL, CMD_DECEL, CMD_MOVE, CMD_STOP, CMD_STATUS
<1>2. CASE \E v \in AccelInputs : \/ r = Request(CMD_ACCEL, mbox_pack_float(v), u)
                                  \/ r = Request(CMD_DECEL, mbox_pack_float(v), u)
  BY <1>2 DEF Request, HasPayload, Payloads, CMD_SPEED, CMD_ACCEL, CMD_DECEL, CMD_MOVE, CMD_STOP, CMD_STATUS
<1>3. CASE \E n \in StepInputs : r = Request(CMD_MOVE, IntWord(n), u)
  BY <1>3 DEF Request, HasPayload, Payloads, CMD_SPEED, CMD_ACCEL, CMD_DECEL, CMD_MOVE, CMD_STOP, CMD_STATUS
<1>4. CASE r = Request(CMD_STOP, NoPayload, u)
  BY <1>4 DEF Request, HasPayload, Payloads, NoPayload, CMD_SPEED, CMD_ACCEL, CMD_DECEL, CMD_MOVE, CMD_STOP, CMD_STATUS
<1>5. CASE \E i \in 0 .. 5 : r = Request(CMD_STATUS, IntWord(i), u)
  BY <1>5 DEF Request, HasPayload, Payloads, CMD_SPEED, CMD_ACCEL, CMD_DECEL, CMD_MOVE, CMD_STOP, CMD_STATUS
<1> QED
  BY <1>1, <1>2, <1>3, <1>4, <1>5 DEF Requests
----------------------------------------------------------------------------
(* Every step keeps the invariant.                                         *)

\* The first request of a shell command that is not over is one of Requests.
LEMMA FirstRequest ==
  ASSUME NEW u, Clients = {u}, SysInv(u), cpc[u] # "idle"
  PROVE  /\ todo[u] # <<>>
         /\ todo[u] \in Seq(Requests(u))
         /\ Head(todo[u]) \in Requests(u)
         /\ Tail(todo[u]) \in Seq(Requests(u))
         /\ Len(todo[u]) > 1 <=> Tail(todo[u]) # <<>>
<1>1. todo[u] # <<>> /\ todo[u] \in Seq(Requests(u))
  BY DEF SysInv
<1>2. /\ Head(todo[u]) \in Requests(u)
      /\ Tail(todo[u]) \in Seq(Requests(u))
      /\ Len(Tail(todo[u])) = Len(todo[u]) - 1
  BY <1>1, HeadTailProperties
<1>3. Len(todo[u]) \in Nat
  BY <1>1
<1>4. Tail(todo[u]) # <<>> <=> Len(Tail(todo[u])) > 0
  <2>1. Tail(todo[u]) # <<>> => Len(Tail(todo[u])) \in Nat \ {0}
    BY <1>2, EmptySeq
  <2>2. Len(<<>>) = 0
    OBVIOUS
  <2> QED
    BY <2>1, <2>2
<1> QED
  BY <1>1, <1>2, <1>3, <1>4

\* Every shell command is a non-empty sequence of requests.
LEMMA CommandsAreRequests ==
  ASSUME NEW u, NEW s \in ShellCommands(u)
  PROVE  s \in Seq(Requests(u)) /\ s # <<>>
<1>1. CASE s = [i \in 1 .. Len(StatusFields) |-> Request(CMD_STATUS, IntWord(StatusFields[i]), u)]
  <2>1. Len(StatusFields) \in Nat \ {0} /\ \A i \in 1 .. Len(StatusFields) : StatusFields[i] \in 0 .. 5
    BY MailboxAssumption, EmptySeq
  <2>2. \A i \in 1 .. Len(StatusFields) : s[i] \in Requests(u)
    BY <1>1, <2>1 DEF Requests
  <2>3. s \in Seq(Requests(u)) /\ Len(s) = Len(StatusFields)
    BY <1>1, <2>1, <2>2
  <2> QED
    BY <2>1, <2>3
<1>2. CASE \E r \in Requests(u) : s = <<r>>
  BY <1>2, ShortQueues
<1>3. \/ \E r \in Requests(u) : s = <<r>>
      \/ s = [i \in 1 .. Len(StatusFields) |-> Request(CMD_STATUS, IntWord(StatusFields[i]), u)]
  BY DEF ShellCommands, Requests
<1> QED
  BY <1>1, <1>2, <1>3

\* The system starts in the invariant.
LEMMA SysInitHolds == ASSUME NEW u, Clients = {u}, SysInit PROVE SysInv(u)
<1>1. <<>> \in Seq(Requests(u))
  OBVIOUS
<1> QED
  BY <1>1 DEF SysInit, SysInv, Quiet, Mail

\* While the shell waits, an answer is stored or under way.
LEMMA InvResponsive ==
  ASSUME NEW u, Clients = {u}, SysInv(u), cpc[u] = "wait", reply_sem = 0
  PROVE  UnderWay(u)
<1> DEFINE r == Head(todo[u])
<1>1. r \in Requests(u)
  BY FirstRequest
<1>2. r.by = u
  BY <1>1, RequestParts
<1>3. Waiting(r)
  BY DEF SysInv
<1> HIDE DEF r
<1>4. CASE OpcodeSent(r) \/ BothSent(r) \/ PayloadSent(r)
  <2>1. Len(to_core1) \in {1, 2} /\ to_core1[1].by = u
    BY <1>2, <1>4, ShortQueues DEF OpcodeSent, BothSent, PayloadSent, Mail, OpcodeOf, PayloadOf
  <2>2. 1 \in 1 .. Len(to_core1)
    BY <2>1
  <2> QED
    BY <2>1, <2>2 DEF UnderWay
<1>5. CASE \E w : Served(r, w)
  BY <1>2, <1>5, ShortQueues DEF Served, Mail, UnderWay
<1>6. CASE \E w : Replied(r, w)
  <2>1. Len(to_core0) = 1 /\ to_core0[1].to.by = u
    BY <1>2, <1>6, ShortQueues DEF Replied, Mail
  <2> QED
    BY <2>1 DEF UnderWay
<1>7. CASE \E w : Stored(r, w)
  BY <1>7 DEF Stored, Mail
<1> QED
  BY <1>3, <1>4, <1>5, <1>6, <1>7 DEF Waiting

\* Sending the opcode of a request puts it alone into the FIFO.
LEMMA SendOpcodeEffect ==
  ASSUME NEW u, Clients = {u}, MboxDepth >= 2, SysInv(u), SendOpcode(u)
  PROVE  LET r == Head(todo[u])
         IN  /\ cpc' = [cpc EXCEPT ![u] = IF r.op \in HasPayload THEN "payload" ELSE "wait"]
             /\ cpc'[u] \in {"payload", "wait"} /\ todo' = todo
             /\ OpcodeSent(r)'
<1> DEFINE r == Head(todo[u])
<1> DEFINE next == IF r.op \in HasPayload THEN "payload" ELSE "wait"
<1>1. cpc[u] = "opcode" /\ UNCHANGED <<reply_sem, last_reply, to_core0, handler>>
  BY DEF SendOpcode
<1>2. Quiet
  BY <1>1 DEF SysInv
<1>3. r.by = u
  BY <1>1, FirstRequest, RequestParts
<1>4. to_core1 = <<>> /\ Len(to_core1) = 0
  BY <1>2 DEF Quiet, Mail
<1>5. mbox_send_word(u, IntWord(r.op), next)
  BY DEF SendOpcode
<1> HIDE DEF r, next
<1>6. /\ to_core1' = Append(to_core1, [word |-> IntWord(r.op), by |-> u])
      /\ cpc' = [cpc EXCEPT ![u] = next]
      /\ todo' = todo
  BY <1>4, <1>5, MailboxAssumption DEF mbox_send_word
<1>7. to_core1' = <<OpcodeOf(r)>>
  BY <1>3, <1>4, <1>6, ShortQueues DEF OpcodeOf
<1>8. OpcodeSent(r)'
  BY <1>1, <1>2, <1>6, <1>7 DEF OpcodeSent, Quiet, Mail, handler, r
<1>9. cpc'[u] = next
  BY <1>6 DEF SysInv
<1> QED
  BY <1>6, <1>8, <1>9 DEF r, next

\* Sending the payload puts it behind its opcode, or where core1 waits for it.
LEMMA SendPayloadEffect ==
  ASSUME NEW u, Clients = {u}, MboxDepth >= 2, SysInv(u), SendPayload(u)
  PROVE  LET r == Head(todo[u])
         IN  /\ cpc[u] = "payload" /\ r.op \in HasPayload
             /\ cpc' = [cpc EXCEPT ![u] = "wait"] /\ cpc'[u] = "wait" /\ todo' = todo
             /\ BothSent(r)' \/ PayloadSent(r)'
<1> DEFINE r == Head(todo[u])
<1>1. cpc[u] = "payload" /\ UNCHANGED <<reply_sem, last_reply, to_core0, handler>>
  BY DEF SendPayload
<1>2. r.op \in HasPayload /\ (OpcodeSent(r) \/ OpcodeTaken(r))
  BY <1>1 DEF SysInv
<1>3. r.by = u
  BY <1>1, FirstRequest, RequestParts
<1>4. Len(to_core1) \in {0, 1}
  BY <1>2, ShortQueues DEF OpcodeSent, OpcodeTaken, Mail
<1>5. /\ to_core1' = Append(to_core1, PayloadOf(r))
      /\ cpc' = [cpc EXCEPT ![u] = "wait"]
      /\ todo' = todo
  <2>1. mbox_send_word(u, r.payload, "wait")
    BY DEF SendPayload
  <2>2. ASSUME NEW n \in {0, 1} PROVE n < MboxDepth /\ ~(n >= MboxDepth)
    BY MailboxAssumption
  <2> QED
    BY <1>3, <1>4, <2>1, <2>2 DEF mbox_send_word, PayloadOf
<1>6. BothSent(r)' \/ PayloadSent(r)'
  <2>1. CASE OpcodeSent(r)
    <3>1. to_core1' = <<OpcodeOf(r), PayloadOf(r)>>
      BY <1>5, <2>1, ShortQueues DEF OpcodeSent, Mail
    <3> QED
      BY <1>1, <1>5, <2>1, <3>1 DEF OpcodeSent, BothSent, Mail, handler
  <2>2. CASE OpcodeTaken(r)
    <3>1. to_core1' = <<PayloadOf(r)>>
      BY <1>5, <2>2, ShortQueues DEF OpcodeTaken, Mail
    <3> QED
      BY <1>1, <1>5, <2>2, <3>1 DEF OpcodeTaken, PayloadSent, Mail, handler
  <2> QED
    BY <1>2, <2>1, <2>2
<1>7. cpc'[u] = "wait"
  BY <1>5 DEF SysInv
<1> QED
  BY <1>1, <1>2, <1>5, <1>6, <1>7

\* The semaphore is given only when the answer to the request is stored.
LEMMA TakeSemEffect ==
  ASSUME NEW u, Clients = {u}, SysInv(u), TakeSem(u)
  PROVE  LET r == Head(todo[u])
         IN  /\ cpc[u] = "wait" /\ cpc' = [cpc EXCEPT ![u] = "read"] /\ cpc'[u] = "read"
             /\ todo' = todo
             /\ \E w : Stored(r, w) /\ Fetched(r, w)'
<1> DEFINE r == Head(todo[u])
<1>1. /\ cpc[u] = "wait" /\ reply_sem = 1 /\ reply_sem' = 0
      /\ cpc' = [cpc EXCEPT ![u] = "read"]
      /\ UNCHANGED <<todo, last_reply, to_core1, to_core0, handler>>
  BY DEF TakeSem
<1>2. Waiting(r)
  BY <1>1 DEF SysInv
<1>3. PICK w : Stored(r, w)
  BY <1>1, <1>2 DEF Waiting, OpcodeSent, BothSent, PayloadSent, Served, Replied, Mail
<1>4. Fetched(r, w)'
  BY <1>1, <1>3 DEF Stored, Fetched, Quiet, Mail, handler
<1>5. cpc'[u] = "read"
  BY <1>1 DEF SysInv
<1> QED
  BY <1>1, <1>3, <1>4, <1>5

\* The steps of the shell keep the invariant.
LEMMA ClientHolds ==
  ASSUME NEW u, Clients = {u}, MboxDepth >= 2, SysInv(u),
         StartCommand(u) \/ ClientRuns(u)
  PROVE  SysInv(u)'
<1> DEFINE r == Head(todo[u])
<1>d. MboxDepth \in Nat
  BY MailboxAssumption
<1>e. u \in Clients
  OBVIOUS
<1>t. /\ cpc \in [Clients -> {"idle", "opcode", "payload", "wait", "read"}]
      /\ todo \in [Clients -> Seq(Requests(u))]
  BY DEF SysInv
<1>1. CASE StartCommand(u)
  <2>1. PICK s \in ShellCommands(u) : todo' = [todo EXCEPT ![u] = s]
    BY <1>1 DEF StartCommand
  <2>2. cpc' = [cpc EXCEPT ![u] = "opcode"] /\ cpc[u] = "idle" /\ UNCHANGED <<mailbox, handler>>
    BY <1>1 DEF StartCommand
  <2>3. s \in Seq(Requests(u)) /\ s # <<>>
    BY CommandsAreRequests
  <2>4. todo'[u] = s /\ cpc'[u] = "opcode"
    BY <1>e, <1>t, <2>1, <2>2
  <2>5. /\ cpc' \in [Clients -> {"idle", "opcode", "payload", "wait", "read"}]
        /\ todo' \in [Clients -> Seq(Requests(u))]
    BY <1>t, <2>1, <2>2, <2>3
  <2>6. Quiet
    BY <2>2 DEF SysInv
  <2>7. Quiet'
    BY <2>2, <2>6 DEF Quiet, Mail, mailbox, handler
  <2> QED
    BY <2>3, <2>4, <2>5, <2>7 DEF SysInv
<1>2. CASE SendOpcode(u)
  <2>1. /\ cpc' = [cpc EXCEPT ![u] = IF r.op \in HasPayload THEN "payload" ELSE "wait"]
        /\ todo' = todo /\ OpcodeSent(r)'
    BY <1>2, SendOpcodeEffect
  <2>2. todo[u] # <<>> /\ (r.op \in HasPayload \/ r.op = CMD_STOP)
    BY <1>2, FirstRequest, RequestParts DEF SendOpcode
  <2>3. cpc'[u] = IF r.op \in HasPayload THEN "payload" ELSE "wait"
    BY <1>e, <1>t, <2>1
  <2>4. /\ cpc' \in [Clients -> {"idle", "opcode", "payload", "wait", "read"}]
        /\ todo' \in [Clients -> Seq(Requests(u))]
    BY <1>t, <2>1
  <2> QED
    BY <2>1, <2>2, <2>3, <2>4 DEF SysInv, Waiting
<1>3. CASE SendPayload(u)
  <2>1. /\ cpc[u] = "payload" /\ r.op \in HasPayload
        /\ cpc' = [cpc EXCEPT ![u] = "wait"] /\ cpc'[u] = "wait" /\ todo' = todo
        /\ BothSent(r)' \/ PayloadSent(r)'
    BY <1>3, SendPayloadEffect
  <2>2. todo[u] # <<>>
    BY <2>1, FirstRequest
  <2>3. /\ cpc' \in [Clients -> {"idle", "opcode", "payload", "wait", "read"}]
        /\ todo' \in [Clients -> Seq(Requests(u))]
    BY <1>t, <2>1
  <2> QED
    BY <2>1, <2>2, <2>3 DEF SysInv, Waiting
<1>4. CASE TakeSem(u)
  <2>1. /\ cpc[u] = "wait" /\ cpc' = [cpc EXCEPT ![u] = "read"] /\ cpc'[u] = "read"
        /\ todo' = todo
        /\ \E w : Fetched(r, w)'
    BY <1>4, TakeSemEffect
  <2>2. todo[u] # <<>>
    BY <2>1, FirstRequest
  <2>3. /\ cpc' \in [Clients -> {"idle", "opcode", "payload", "wait", "read"}]
        /\ todo' \in [Clients -> Seq(Requests(u))]
    BY <1>t, <2>1
  <2> QED
    BY <2>1, <2>2, <2>3 DEF SysInv
<1>5. CASE ReadReply(u)
  <2>1. /\ cpc[u] = "read" /\ UNCHANGED <<mailbox, handler>>
        /\ todo' = [todo EXCEPT ![u] = Tail(todo[u])]
        /\ cpc' = [cpc EXCEPT ![u] = IF Len(todo[u]) > 1 THEN "opcode" ELSE "idle"]
    BY <1>5 DEF ReadReply
  <2>2. Quiet
    BY <2>1 DEF SysInv, Fetched
  <2>3. Quiet'
    BY <2>1, <2>2 DEF Quiet, Mail, mailbox, handler
  <2>4. Tail(todo[u]) \in Seq(Requests(u)) /\ (Len(todo[u]) > 1 <=> Tail(todo[u]) # <<>>)
    BY <2>1, FirstRequest
  <2>5. /\ todo'[u] = Tail(todo[u])
        /\ cpc'[u] = IF Len(todo[u]) > 1 THEN "opcode" ELSE "idle"
    BY <1>e, <1>t, <2>1
  <2>6. /\ cpc' \in [Clients -> {"idle", "opcode", "payload", "wait", "read"}]
        /\ todo' \in [Clients -> Seq(Requests(u))]
    BY <1>t, <2>1, <2>4
  <2> QED
    BY <2>3, <2>4, <2>5, <2>6 DEF SysInv
<1>6. CASE Timeout(u)
  <2>1. cpc[u] = "wait" /\ reply_sem = 0 /\ ~UnderWay(u)
    BY <1>6 DEF Timeout
  <2> QED
    BY <2>1, InvResponsive
<1> QED
  BY <1>1, <1>2, <1>3, <1>4, <1>5, <1>6 DEF ClientRuns
\* Steps that leave the shell and the mailbox alone keep the invariant.
LEMMA OtherHolds ==
  ASSUME NEW u, SysInv(u), UNCHANGED <<shell, mailbox, handler>>
  PROVE  SysInv(u)'
BY DEF SysInv, Waiting, Quiet, OpcodeSent, OpcodeTaken, BothSent, PayloadSent, Served, Replied,
       Stored, Fetched, Mail, shell, mailbox, handler

\* When core1 finds a word at the start of a command, it is an opcode: that of
\* the request, whose payload is not sent yet, or not needed, or behind it.
LEMMA OpcodeReady ==
  ASSUME NEW u, Clients = {u}, SysInv(u), hpc = "none", to_core1 # <<>>
  PROVE  LET r == Head(todo[u])
         IN  \/ cpc[u] = "wait" /\ r.op = CMD_STOP /\ OpcodeSent(r)
             \/ cpc[u] = "wait" /\ r.op \in HasPayload /\ BothSent(r)
             \/ cpc[u] = "payload" /\ r.op \in HasPayload /\ OpcodeSent(r)
BY DEF SysInv, Waiting, Quiet, OpcodeSent, OpcodeTaken, BothSent, PayloadSent, Served, Replied,
       Stored, Fetched, Mail

\* When core1 finds the word it waits for, it is the payload of the request.
LEMMA PayloadReady ==
  ASSUME NEW u, Clients = {u}, SysInv(u), hpc = "payload", to_core1 # <<>>
  PROVE  cpc[u] = "wait" /\ Head(todo[u]).op \in HasPayload /\ PayloadSent(Head(todo[u]))
BY DEF SysInv, Waiting, Quiet, OpcodeSent, OpcodeTaken, BothSent, PayloadSent, Served, Replied,
       Stored, Fetched, Mail

\* core1 answers only the request the shell waits for.
LEMMA ReplyReady ==
  ASSUME NEW u, Clients = {u}, SysInv(u), hpc = "reply"
  PROVE  cpc[u] = "wait" /\ \E w : Served(Head(todo[u]), w)
BY DEF SysInv, Waiting, Quiet, OpcodeSent, OpcodeTaken, BothSent, PayloadSent, Served, Replied,
       Stored, Fetched, Mail

\* The interrupt finds only the answer to the request the shell waits for.
LEMMA WordReady ==
  ASSUME NEW u, Clients = {u}, SysInv(u), to_core0 # <<>>
  PROVE  cpc[u] = "wait" /\ \E w : Replied(Head(todo[u]), w)
BY DEF SysInv, Waiting, Quiet, OpcodeSent, OpcodeTaken, BothSent, PayloadSent, Served, Replied,
       Stored, Fetched, Mail

\* What reading an opcode does: a stop is carried out and answered, any other
\* command now waits for its payload.
LEMMA ReadOpcodeEffect ==
  ASSUME NEW u, Clients = {u}, SysInv(u), ReadOpcode
  PROVE  LET r == Head(todo[u])
         IN  \/ /\ cpc[u] = "wait" /\ r.op = CMD_STOP
                /\ Perform(r.op, r.payload)
                /\ reply' = <<ReplyTo(r.op, r.payload)>>
                /\ \E w : Served(r, w)'
             \/ cpc[u] = "wait" /\ r.op \in HasPayload /\ PayloadSent(r)' /\ UNCHANGED vars
             \/ cpc[u] = "payload" /\ r.op \in HasPayload /\ OpcodeTaken(r)' /\ UNCHANGED vars
<1> DEFINE r == Head(todo[u])
<1>1. hpc = "none" /\ to_core1 # <<>> /\ UNCHANGED <<shell, reply_sem, last_reply, to_core0>>
  BY DEF ReadOpcode
<1>2. \/ cpc[u] = "wait" /\ r.op = CMD_STOP /\ OpcodeSent(r)
      \/ cpc[u] = "wait" /\ r.op \in HasPayload /\ BothSent(r)
      \/ cpc[u] = "payload" /\ r.op \in HasPayload /\ OpcodeSent(r)
  BY <1>1, OpcodeReady
<1>3. r \in Requests(u)
  BY <1>2, FirstRequest
<1>4. /\ r.by = u
      /\ r.op = CMD_STOP => r = Request(CMD_STOP, NoPayload, u)
  BY <1>3, RequestParts
<1>5. r' = r /\ UNCHANGED <<reply_sem, to_core0>>
  BY <1>1 DEF shell
<1>6. Head(to_core1) = OpcodeOf(r)
  BY <1>2, ShortQueues DEF OpcodeSent, BothSent, Mail
<1>7. Head(to_core1).word = IntWord(r.op) /\ Head(to_core1).by = u
  BY <1>4, <1>6 DEF OpcodeOf
<1>8. to_core1' = Tail(to_core1)
  BY DEF ReadOpcode
<1> HIDE DEF r
<1>9. CASE r.op = CMD_STOP
  <2>1. /\ Perform(CMD_STOP, NoPayload)
        /\ Answer(Request(CMD_STOP, NoPayload, u), ReplyTo(CMD_STOP, NoPayload))
    BY <1>7, <1>9 DEF ReadOpcode, IntWord, HasPayload, CMD_SPEED, CMD_ACCEL, CMD_DECEL, CMD_MOVE,
                      CMD_STOP, CMD_STATUS
  <2>2. r = Request(CMD_STOP, NoPayload, u)
    BY <1>4, <1>9
  <2>3. r.op = CMD_STOP /\ r.payload = NoPayload
    BY <2>2 DEF Request
  <2>4. cpc[u] = "wait" /\ OpcodeSent(r)
    BY <1>2, <1>9 DEF HasPayload, CMD_SPEED, CMD_ACCEL, CMD_DECEL, CMD_MOVE, CMD_STOP, CMD_STATUS
  <2>5. to_core1' = <<>>
    BY <1>8, <2>4, ShortQueues DEF OpcodeSent, Mail
  <2>6. reply' = <<ReplyTo(CMD_STOP, NoPayload)>> /\ cmd' = <<r>> /\ hpc' = "reply"
    BY <2>1, <2>2 DEF Answer
  <2>7. \E w : Served(r, w)'
    BY <1>5, <2>4, <2>5, <2>6 DEF Served, OpcodeSent, Mail
  <2> QED
    BY <2>1, <2>3, <2>4, <2>6, <2>7 DEF r
<1>10. CASE r.op \in HasPayload
  <2>1. r.op # CMD_STOP
    BY <1>10 DEF HasPayload, CMD_SPEED, CMD_ACCEL, CMD_DECEL, CMD_MOVE, CMD_STOP, CMD_STATUS
  <2>2. IntWord(r.op) # IntWord(CMD_STOP) /\ IntWord(r.op).v = r.op
    BY <2>1 DEF IntWord
  <2>3. IntWord(r.op) \in {IntWord(op) : op \in HasPayload}
    BY <1>10
  <2>4. /\ hpc' = "payload"
        /\ cmd' = <<Request(IntWord(r.op).v, NoPayload, u)>>
        /\ UNCHANGED <<vars, reply>>
    BY <1>7, <2>2, <2>3 DEF ReadOpcode
  <2>5. cmd' = <<Opened(r)>>
    BY <1>4, <2>2, <2>4 DEF Opened
  <2>6. CASE cpc[u] = "wait"
    <3>1. BothSent(r)
      BY <1>2, <2>1, <2>6
    <3>2. to_core1' = <<PayloadOf(r)>>
      BY <1>8, <3>1, ShortQueues DEF BothSent, Mail
    <3> QED
      BY <1>5, <1>10, <2>4, <2>5, <2>6, <3>1, <3>2 DEF PayloadSent, BothSent, Mail, r
  <2>7. CASE cpc[u] = "payload"
    <3>1. OpcodeSent(r)
      BY <1>2, <2>7
    <3>2. to_core1' = <<>>
      BY <1>8, <3>1, ShortQueues DEF OpcodeSent, Mail
    <3> QED
      BY <1>5, <1>10, <2>4, <2>5, <2>7, <3>1, <3>2 DEF OpcodeTaken, OpcodeSent, Mail, r
  <2> QED
    BY <1>2, <2>6, <2>7
<1> QED
  BY <1>2, <1>9, <1>10

\* What reading a payload does: the request the shell waits for is carried out
\* and answered.
LEMMA ReadPayloadEffect ==
  ASSUME NEW u, Clients = {u}, SysInv(u), ReadPayload
  PROVE  LET r == Head(todo[u])
         IN  /\ cpc[u] = "wait"
             /\ Perform(r.op, r.payload)
             /\ reply' = <<ReplyTo(r.op, r.payload)>>
             /\ \E w : Served(r, w)'
<1> DEFINE r == Head(todo[u])
<1>1. hpc = "payload" /\ to_core1 # <<>> /\ UNCHANGED <<shell, reply_sem, last_reply, to_core0>>
  BY DEF ReadPayload
<1>2. cpc[u] = "wait" /\ PayloadSent(r)
  BY <1>1, PayloadReady
<1>3. r \in Requests(u)
  BY <1>2, FirstRequest
<1>4. r.by = u /\ r = Request(r.op, r.payload, u)
  BY <1>3, RequestParts
<1>5. r' = r /\ UNCHANGED <<reply_sem, to_core0>>
  BY <1>1 DEF shell
<1> HIDE DEF r
<1>6. Head(to_core1).word = r.payload /\ Tail(to_core1) = <<>>
  BY <1>2, ShortQueues DEF PayloadSent, Mail, PayloadOf
<1>7. cmd[1].op = r.op /\ cmd[1].by = u
  BY <1>2, <1>4, ShortQueues DEF PayloadSent, Mail, Opened, Request
<1>8. /\ to_core1' = <<>>
      /\ Perform(r.op, r.payload)
      /\ Answer(Request(r.op, r.payload, u), ReplyTo(r.op, r.payload))
  BY <1>6, <1>7 DEF ReadPayload
<1>9. hpc' = "reply" /\ cmd' = <<r>> /\ reply' = <<ReplyTo(r.op, r.payload)>>
  BY <1>4, <1>8 DEF Answer
<1>10. \E w : Served(r, w)'
  BY <1>2, <1>5, <1>8, <1>9 DEF Served, PayloadSent, Mail
<1> QED
  BY <1>2, <1>8, <1>9, <1>10 DEF r

\* Writing the reply hands the answer to the FIFO, with nothing else in it.
LEMMA WriteReplyEffect ==
  ASSUME NEW u, Clients = {u}, SysInv(u), WriteReply
  PROVE  LET r == Head(todo[u])
         IN  /\ cpc[u] = "wait" /\ UNCHANGED <<vars, cpc, todo>>
             /\ \E w : Served(r, w) /\ Replied(r, w)'
<1> DEFINE r == Head(todo[u])
<1>1. UNCHANGED <<vars, cpc, todo, reply_sem, to_core1>> /\ hpc = "reply"
  BY DEF WriteReply, shell
<1>2. cpc[u] = "wait"
  BY <1>1, ReplyReady
<1>3. PICK w : Served(r, w)
  BY <1>1, ReplyReady
<1>4. to_core0' = <<[word |-> w, to |-> r]>>
  BY <1>3, ShortQueues DEF WriteReply, Served, Mail
<1>5. Replied(r, w)'
  BY <1>1, <1>3, <1>4 DEF WriteReply, Served, Replied, Mail
<1> QED
  BY <1>1, <1>2, <1>3, <1>5

\* The interrupt stores the one answer in the FIFO and gives the semaphore.
LEMMA ReceiveIsrEffect ==
  ASSUME NEW u, Clients = {u}, SysInv(u), ReceiveIsr
  PROVE  LET r == Head(todo[u])
         IN  /\ cpc[u] = "wait" /\ UNCHANGED <<vars, cpc, todo>>
             /\ \E w : Replied(r, w) /\ Stored(r, w)'
<1> DEFINE r == Head(todo[u])
<1>1. /\ UNCHANGED <<vars, cpc, todo>> /\ to_core0 # <<>>
      /\ last_reply' = <<Head(to_core0)>> /\ reply_sem' = 1 /\ to_core0' = <<>>
      /\ UNCHANGED <<to_core1, hpc, cmd, reply>>
  BY DEF ReceiveIsr, shell, handler
<1>2. cpc[u] = "wait"
  BY <1>1, WordReady
<1>3. PICK w : Replied(r, w)
  BY <1>1, WordReady
<1>4. Stored(r, w)'
  BY <1>1, <1>3, ShortQueues DEF Replied, Stored, Mail
<1> QED
  BY <1>1, <1>2, <1>3, <1>4

\* The steps of core1 and of the interrupt keep the invariant.
LEMMA Core1Holds ==
  ASSUME NEW u, Clients = {u}, SysInv(u), Core1Runs \/ PioRuns \/ ReceiveIsr
  PROVE  SysInv(u)'
<1> DEFINE r == Head(todo[u])
<1>1. CASE Feed \/ PollEmpty \/ PioRuns
  BY <1>1, OtherHolds DEF Feed, PollEmpty, PioRuns
<1>2. CASE ReadOpcode
  <2>1. cpc' = cpc /\ todo' = todo
    BY <1>2 DEF ReadOpcode, shell
  <2>2. \/ cpc[u] = "wait" /\ Waiting(r)'
        \/ cpc[u] = "payload" /\ r.op \in HasPayload /\ OpcodeTaken(r)'
    BY <1>2, <2>1, ReadOpcodeEffect DEF Waiting
  <2> QED
    BY <2>1, <2>2 DEF SysInv
<1>3. CASE ReadPayload
  <2>1. cpc' = cpc /\ todo' = todo
    BY <1>3 DEF ReadPayload, shell
  <2>2. cpc[u] = "wait" /\ Waiting(r)'
    BY <1>3, ReadPayloadEffect DEF Waiting
  <2> QED
    BY <2>1, <2>2 DEF SysInv
<1>4. CASE WriteReply
  <2>1. cpc[u] = "wait" /\ cpc' = cpc /\ todo' = todo /\ Waiting(r)'
    BY <1>4, WriteReplyEffect DEF Waiting
  <2> QED
    BY <2>1 DEF SysInv
<1>5. CASE ReceiveIsr
  <2>1. cpc[u] = "wait" /\ cpc' = cpc /\ todo' = todo /\ Waiting(r)'
    BY <1>5, ReceiveIsrEffect DEF Waiting
  <2> QED
    BY <2>1 DEF SysInv
<1> QED
  BY <1>1, <1>2, <1>3, <1>4, <1>5 DEF Core1Runs

\* Every step keeps the invariant.
LEMMA SysStepHolds ==
  ASSUME NEW u, Clients = {u}, MboxDepth >= 2, SysInv(u), [SysNext]_sysvars
  PROVE  SysInv(u)'
<1>1. CASE UNCHANGED sysvars
  BY <1>1, OtherHolds DEF sysvars
<1>2. CASE \E c \in Clients : StartCommand(c) \/ ClientRuns(c)
  BY <1>2, ClientHolds
<1> QED
  BY <1>1, <1>2, Core1Holds DEF SysNext

\* The invariant holds in every state of the system with one shell.
LEMMA SysInvariant ==
  ASSUME NEW u, Clients = {u}, MboxDepth >= 2
  PROVE  SysSpec => []SysInv(u)
<1>1. SysInit => SysInv(u)
  BY SysInitHolds
<1>2. SysInv(u) /\ [SysNext]_sysvars => SysInv(u)'
  BY SysStepHolds
<1> QED
  BY <1>1, <1>2, PTL DEF SysSpec
----------------------------------------------------------------------------
(* What the shell sees.                                                    *)

\* The FIFOs never hold more than they can, the handler's registers agree with
\* where it is, and a shell command has requests left exactly while it runs.
THEOREM SystemTypeCorrect ==
  ASSUME NEW u, Clients = {u}, MboxDepth >= 2
  PROVE  SysSpec => []SysTypeOK
<1>1. SysInv(u) => SysTypeOK
  <2> SUFFICES ASSUME SysInv(u) PROVE SysTypeOK
    OBVIOUS
  <2>1. MboxDepth \in Nat
    BY MailboxAssumption
  <2>2. /\ cpc \in [Clients -> {"idle", "opcode", "payload", "wait", "read"}]
        /\ (cpc[u] = "idle") = (todo[u] = <<>>)
        /\ cpc[u] \in {"idle", "opcode", "payload", "wait", "read"}
    BY DEF SysInv
  <2>3. \/ Quiet
        \/ \E r : OpcodeSent(r) \/ OpcodeTaken(r) \/ BothSent(r) \/ PayloadSent(r)
        \/ \E r, w : Served(r, w) \/ Replied(r, w) \/ Stored(r, w)
    BY <2>2 DEF SysInv, Waiting, Fetched
  <2>4. /\ to_core1 = <<>> \/ (\E a : to_core1 = <<a>>) \/ (\E a, b : to_core1 = <<a, b>>)
        /\ to_core0 = <<>> \/ (\E a : to_core0 = <<a>>)
        /\ reply_sem \in {0, 1}
        /\ hpc \in {"none", "payload", "reply"}
    BY <2>3 DEF Quiet, OpcodeSent, OpcodeTaken, BothSent, PayloadSent, Served, Replied, Stored, Mail
  <2>5. (hpc = "none") <=> (cmd = <<>>)
    BY <2>3, ShortQueues
    DEF Quiet, OpcodeSent, OpcodeTaken, BothSent, PayloadSent, Served, Replied, Stored, Mail
  <2>6. (hpc = "reply") <=> (reply # <<>>)
    BY <2>3, ShortQueues
    DEF Quiet, OpcodeSent, OpcodeTaken, BothSent, PayloadSent, Served, Replied, Stored, Mail
  <2>7. Len(to_core1) \in {0, 1, 2} /\ Len(to_core0) \in {0, 1}
    BY <2>4, ShortQueues
  <2>8. Len(to_core1) <= MboxDepth /\ Len(to_core0) <= MboxDepth
    <3>1. ASSUME NEW n \in {0, 1, 2} PROVE n <= MboxDepth
      BY <2>1
    <3> QED
      BY <2>7, <3>1
  <2>9. \A c \in Clients : (cpc[c] = "idle") = (todo[c] = <<>>)
    BY <2>2
  <2> QED
    BY <2>2, <2>4, <2>5, <2>6, <2>8, <2>9 DEF SysTypeOK
<1> QED
  BY <1>1, SysInvariant, PTL

\* With one shell "core1 did not respond" is never printed while core1 runs:
\* whenever the shell waits, its answer is stored or under way.
THEOREM AlwaysResponsive ==
  ASSUME NEW u, Clients = {u}, MboxDepth >= 2
  PROVE  SysSpec => []Responsive
<1>1. SysInv(u) => Responsive
  BY InvResponsive DEF Responsive
<1> QED
  BY <1>1, SysInvariant, PTL

\* With one shell core1 never waits for a payload that core0 is not about to
\* send, so handle_command() cannot hold up the feeding of the PIO.
THEOREM NeverStarved ==
  ASSUME NEW u, Clients = {u}, MboxDepth >= 2
  PROVE  SysSpec => []ShortWait
<1>1. SysInv(u) => ShortWait
  BY ShortQueues DEF ShortWait, SysInv, Waiting, Quiet, OpcodeSent, OpcodeTaken, BothSent, PayloadSent,
         Served, Replied, Stored, Fetched, Mail
<1> QED
  BY <1>1, SysInvariant, PTL

\* With one shell the reply a command acts on is core1's answer to the request
\* it sent, opcode and payload.
THEOREM RepliesAreOwn ==
  ASSUME NEW u, Clients = {u}, MboxDepth >= 2
  PROVE  SysSpec => OwnReply
<1>1. SysInv(u) /\ [SysNext]_sysvars =>
        [\A c \in Clients : ReadReply(c) => last_reply[1].to = Head(todo[c])]_sysvars
  BY ShortQueues DEF ReadReply, SysInv, Fetched
<1> QED
  BY <1>1, SysInvariant, PTL DEF SysSpec, OwnReply
----------------------------------------------------------------------------
(* The motion controller behind the mailbox.                               *)

\* A number survives the packing and unpacking of a payload word.
LEMMA PackUnpack ==
  /\ \A v \in Float : mbox_unpack_float(mbox_pack_float(v)) = v
  /\ \A n \in Int : ToInt32(IntWord(n)) = n
BY Hardware DEF mbox_unpack_float, mbox_pack_float, ToInt32, IntWord, Float

\* Carrying out a request of the shell is a command with one of the inputs.
LEMMA PerformIsCommand ==
  ASSUME NEW u, NEW r \in Requests(u), Perform(r.op, r.payload)
  PROVE  Next
<1> USE DEF CMD_SPEED, CMD_ACCEL, CMD_DECEL, CMD_MOVE, CMD_STOP, CMD_STATUS
<1>1. CASE \E v \in SpeedInputs : r = Request(CMD_SPEED, mbox_pack_float(v), u)
  <2>1. PICK v \in SpeedInputs : r = Request(CMD_SPEED, mbox_pack_float(v), u)
    BY <1>1
  <2>2. v \in Float
    BY Inputs DEF Float
  <2>3. mbox_unpack_float(r.payload) = v /\ r.op = CMD_SPEED
    BY <2>1, <2>2, PackUnpack DEF Request
  <2>4. CmdSpeed(v)
    BY <2>3 DEF Perform
  <2> QED
    BY <2>4 DEF Next, Core1, Commands
<1>2. CASE \E v \in AccelInputs : r = Request(CMD_ACCEL, mbox_pack_float(v), u)
  <2>1. PICK v \in AccelInputs : r = Request(CMD_ACCEL, mbox_pack_float(v), u)
    BY <1>2
  <2>2. v \in Float
    BY Inputs DEF Float
  <2>3. mbox_unpack_float(r.payload) = v /\ r.op = CMD_ACCEL
    BY <2>1, <2>2, PackUnpack DEF Request
  <2>4. CmdAccel(v)
    BY <2>3 DEF Perform
  <2> QED
    BY <2>4 DEF Next, Core1, Commands
<1>3. CASE \E v \in AccelInputs : r = Request(CMD_DECEL, mbox_pack_float(v), u)
  <2>1. PICK v \in AccelInputs : r = Request(CMD_DECEL, mbox_pack_float(v), u)
    BY <1>3
  <2>2. v \in Float
    BY Inputs DEF Float
  <2>3. mbox_unpack_float(r.payload) = v /\ r.op = CMD_DECEL
    BY <2>1, <2>2, PackUnpack DEF Request
  <2>4. CmdDecel(v)
    BY <2>3 DEF Perform
  <2> QED
    BY <2>4 DEF Next, Core1, Commands
<1>4. CASE \E n \in StepInputs : r = Request(CMD_MOVE, IntWord(n), u)
  <2>1. PICK n \in StepInputs : r = Request(CMD_MOVE, IntWord(n), u)
    BY <1>4
  <2>2. n \in Int
    BY Inputs, Hardware
  <2>3. ToInt32(r.payload) = n /\ r.op = CMD_MOVE
    BY <2>1, <2>2, PackUnpack DEF Request
  <2>4. CmdMove(n)
    BY <2>3 DEF Perform
  <2> QED
    BY <2>4 DEF Next, Core1, Commands
<1>5. CASE r = Request(CMD_STOP, NoPayload, u)
  BY <1>5 DEF Perform, Request, Next, Core1, Commands
<1>6. CASE \E i \in 0 .. 5 : r = Request(CMD_STATUS, IntWord(i), u)
  BY <1>6 DEF Perform, Request, Next, Core1
<1> QED
  BY <1>1, <1>2, <1>3, <1>4, <1>5, <1>6 DEF Requests

\* A step of the whole system is a step of the motion controller or leaves it
\* alone: the mailbox never makes core1 do anything else.
LEMMA MotionStep ==
  ASSUME NEW u, Clients = {u}, MboxDepth >= 2, SysInv(u), [SysNext]_sysvars
  PROVE  [Next]_vars
<1>1. CASE UNCHANGED sysvars
  BY <1>1 DEF sysvars
<1>2. CASE \E c \in Clients : StartCommand(c) \/ ClientRuns(c)
  BY <1>2 DEF StartCommand, ClientRuns, SendOpcode, SendPayload, TakeSem, ReadReply, Timeout
<1>3. CASE Feed \/ PollEmpty \/ PioRuns
  BY <1>3 DEF Feed, PollEmpty, PioRuns, Next, Core1
<1>4. CASE WriteReply \/ ReceiveIsr
  BY <1>4 DEF WriteReply, ReceiveIsr
<1>5. CASE ReadOpcode
  <2>1. \/ UNCHANGED vars
        \/ cpc[u] = "wait" /\ Perform(Head(todo[u]).op, Head(todo[u]).payload)
    BY <1>5, ReadOpcodeEffect
  <2> QED
    BY <2>1, FirstRequest, PerformIsCommand
<1>6. CASE ReadPayload
  <2>1. cpc[u] = "wait" /\ Perform(Head(todo[u]).op, Head(todo[u]).payload)
    BY <1>6, ReadPayloadEffect
  <2> QED
    BY <2>1, FirstRequest, PerformIsCommand
<1> QED
  BY <1>1, <1>2, <1>3, <1>4, <1>5, <1>6 DEF SysNext, Core1Runs

\* So what is proved of the motion controller holds when the shell drives it
\* over the mailbox: a stop typed there leaves at most the pulses that were in
\* the PIO when core1 accepted it.
THEOREM StopsWithinFifoByMail ==
  ASSUME NEW u, Clients = {u}, MboxDepth >= 2
  PROVE  SysSpec => []StopBound
<1>1. SysInit => Init
  BY DEF SysInit
<1>2. SysInv(u) /\ [SysNext]_sysvars => [Next]_vars
  BY MotionStep
<1>3. StopInv => StopBound
  BY DEF StopInv
<1> QED
  BY <1>1, <1>2, <1>3, SysInvariant, StopInit, StopStep, PTL DEF SysSpec

\* And every step of a move typed there is pushed, queued or pulsed, no word
\* of another request counted as steps, unless it asks for INT32_MIN of them.
THEOREM StepsAccountedByMail ==
  ASSUME NEW u, Clients = {u}, MboxDepth >= 2, INT_MIN \notin StepInputs
  PROVE  SysSpec => []StepAccounting
<1>1. SysInit => Init
  BY DEF SysInit
<1>2. SysInv(u) /\ [SysNext]_sysvars => [Next]_vars
  BY MotionStep
<1>3. AccountingInv => StepAccounting
  BY DEF AccountingInv
<1> QED
  BY <1>1, <1>2, <1>3, SysInvariant, AccountingInit, AccountingStep, PTL DEF SysSpec

\* The rates stay within their limits and the braking in time, whatever is
\* typed before and during a move: the words of a setting and of a move are
\* never mixed up.
THEOREM ProfileByMail ==
  ASSUME NEW u, Clients = {u}, MboxDepth >= 2, NaN \notin SpeedInputs, NaN \notin AccelInputs
  PROVE  SysSpec => [](RateLimits /\ BrakeBound)
<1>1. SysInit => Init
  BY DEF SysInit
<1>2. SysInv(u) /\ [SysNext]_sysvars => [Next]_vars
  BY MotionStep
<1>3. ProfileInv => RateLimits /\ BrakeBound
  BY DEF ProfileInv
<1> QED
  BY <1>1, <1>2, <1>3, SysInvariant, ProfileInit, ProfileStep, PTL DEF SysSpec

----------------------------------------------------------------------------
(* The mailbox implements the remote procedure call of StepperService.     *)

Asked(c) == IF Phase(c) = "idle" THEN <<>> ELSE <<Head(todo[c])>>

\* The abstract state at each stage of a round trip.
StageMap(u) ==
  /\ cpc[u] \in {"idle", "opcode"} => Phase(u) = "idle" /\ AnswerFor(u) = <<>>
  /\ \A r : cpc[u] = "payload" /\ (OpcodeSent(r) \/ OpcodeTaken(r)) =>
              Phase(u) = "asked" /\ AnswerFor(u) = <<>>
  /\ \A r : cpc[u] = "wait" /\ (OpcodeSent(r) \/ BothSent(r) \/ PayloadSent(r)) =>
              Phase(u) = "asked" /\ AnswerFor(u) = <<>>
  /\ \A r, w : cpc[u] = "wait" /\ (Served(r, w) \/ Replied(r, w) \/ Stored(r, w)) =>
                 Phase(u) = "answered" /\ AnswerFor(u) = <<w>>
  /\ \A r, w : cpc[u] = "read" /\ Fetched(r, w) =>
                 Phase(u) = "answered" /\ AnswerFor(u) = <<w>>

LEMMA StageMapHolds == ASSUME NEW u PROVE StageMap(u)
<1>1. cpc[u] \in {"idle", "opcode"} => Phase(u) = "idle" /\ AnswerFor(u) = <<>>
  BY DEF Phase, AnswerFor
<1>2. ASSUME NEW r, cpc[u] = "payload", OpcodeSent(r) \/ OpcodeTaken(r)
      PROVE  Phase(u) = "asked" /\ AnswerFor(u) = <<>>
  BY <1>2 DEF Phase, AnswerFor
<1>3. ASSUME NEW r, cpc[u] = "wait", OpcodeSent(r) \/ BothSent(r) \/ PayloadSent(r)
      PROVE  Phase(u) = "asked" /\ AnswerFor(u) = <<>>
  <2>1. ~AnswerInMail
    BY <1>3 DEF AnswerInMail, OpcodeSent, BothSent, PayloadSent, Mail
  <2> QED
    BY <1>3, <2>1 DEF Phase, AnswerFor
<1>4. ASSUME NEW r, NEW w, cpc[u] = "wait", Served(r, w) \/ Replied(r, w) \/ Stored(r, w)
      PROVE  Phase(u) = "answered" /\ AnswerFor(u) = <<w>>
  <2>1. AnswerInMail
    BY <1>4, ShortQueues DEF AnswerInMail, Served, Replied, Stored, Mail
  <2>2. Phase(u) = "answered"
    BY <1>4, <2>1 DEF Phase
  <2> QED
    BY <1>4, <2>2, ShortQueues DEF AnswerFor, Served, Replied, Stored, Mail
<1>5. ASSUME NEW r, NEW w, cpc[u] = "read", Fetched(r, w)
      PROVE  Phase(u) = "answered" /\ AnswerFor(u) = <<w>>
  <2>1. Phase(u) = "answered"
    BY <1>5 DEF Phase
  <2> QED
    BY <1>5, <2>1, ShortQueues DEF AnswerFor, Fetched, Quiet, Mail
<1> QED
  BY <1>1, <1>2, <1>3, <1>4, <1>5 DEF StageMap

LEMMA StageMapNext == ASSUME NEW u PROVE StageMap(u)'
BY StageMapHolds, PTL

\* The abstract state does not change when its value for the one client does
\* not.
LEMMA CallsStutter ==
  ASSUME NEW u, Clients = {u},
         Phase(u)' = Phase(u), Asked(u)' = Asked(u), AnswerFor(u)' = AnswerFor(u)
  PROVE  UNCHANGED Service!calls
BY DEF Service!calls, Asked

\* StepperService and core1 mean the same by a request, carry it out and answer
\* it alike.
LEMMA SameState ==
  /\ Service!vars = vars
  /\ UNCHANGED Service!vars <=> UNCHANGED vars
  /\ Service!Init <=> Init
<1>1. Service!vars = vars
  BY DEF vars, Service!vars, profile, Service!profile, pins, Service!pins, history, Service!history
<1>2. UNCHANGED Service!vars <=> UNCHANGED vars
  BY DEF vars, Service!vars, profile, Service!profile, pins, Service!pins, history, Service!history
<1>3. Service!Init <=> Init
  BY DEF Init, Service!Init
<1> QED
  BY <1>1, <1>2, <1>3

LEMMA SameWords ==
  /\ Service!HasPayload = HasPayload
  /\ Service!CMD_STOP = CMD_STOP
  /\ Service!Payloads = Payloads
  /\ \A op, w, c : Service!Request(op, w, c) = Request(op, w, c)
  /\ \A w : Service!mbox_unpack_float(w) = mbox_unpack_float(w)
  /\ \A v : Service!mbox_pack_float(v) = mbox_pack_float(v)
  /\ \A n : Service!IntWord(n) = IntWord(n)
  /\ \A w : Service!ToInt32(w) = ToInt32(w)
<1>1. Service!HasPayload = HasPayload /\ Service!CMD_STOP = CMD_STOP
  BY DEF HasPayload, Service!HasPayload, CMD_SPEED, Service!CMD_SPEED, CMD_ACCEL, Service!CMD_ACCEL,
      CMD_DECEL, Service!CMD_DECEL, CMD_MOVE, Service!CMD_MOVE, CMD_STOP, Service!CMD_STOP,
      CMD_STATUS, Service!CMD_STATUS
<1>2. \A n : Service!IntWord(n) = IntWord(n)
  BY DEF IntWord, Service!IntWord
<1>3. \A v : Service!mbox_pack_float(v) = mbox_pack_float(v)
  BY DEF mbox_pack_float, Service!mbox_pack_float, IntWord, Service!IntWord
<1>4. Service!Payloads = Payloads
  BY DEF Payloads, Service!Payloads, mbox_pack_float, Service!mbox_pack_float, IntWord, Service!IntWord
<1>5. \A op, w, c : Service!Request(op, w, c) = Request(op, w, c)
  BY DEF Request, Service!Request
<1>6. \A w : Service!mbox_unpack_float(w) = mbox_unpack_float(w)
  BY DEF mbox_unpack_float, Service!mbox_unpack_float
<1>7. \A w : Service!ToInt32(w) = ToInt32(w)
  BY DEF ToInt32, Service!ToInt32, FLess, Service!FLess
<1> QED
  BY <1>1, <1>2, <1>3, <1>4, <1>5, <1>6, <1>7

LEMMA SameMotion ==
  /\ FeedPush => Service!FeedPush
  /\ FeedHalt => Service!FeedHalt
  /\ FeedDone => Service!FeedDone
  /\ NoCommand => Service!NoCommand
  /\ Pio => Service!Pio
<1>1. Service!next_speed = next_speed
  BY DEF next_speed, Service!next_speed, MustBrake, Service!MustBrake, BrakeTo, Service!BrakeTo,
      AccelTo, Service!AccelTo, FLess, Service!FLess
<1>2. \A x : Service!hz_to_half_period(x) = hz_to_half_period(x)
  <2>1. \A S : Service!Cardinality(S) = Cardinality(S)
    BY Zenon DEF Cardinality, Service!Cardinality
  <2> QED
    BY <2>1 DEF hz_to_half_period, Service!hz_to_half_period, Fits, Service!Fits
<1>3. FeedPush => Service!FeedPush
  BY <1>1, <1>2 DEF FeedPush, Service!FeedPush, pio_tx_full, Service!pio_tx_full, Finished, Service!Finished,
      pio_push_step, Service!pio_push_step, profile, Service!profile, history, Service!history
<1>4. FeedHalt => Service!FeedHalt
  BY DEF FeedHalt, Service!FeedHalt, pio_tx_full, Service!pio_tx_full, Finished, Service!Finished,
      profile, Service!profile, pins, Service!pins
<1>5. FeedDone => Service!FeedDone
  BY DEF FeedDone, Service!FeedDone, pio_tx_full, Service!pio_tx_full, profile, Service!profile, pins,
      Service!pins, history, Service!history
<1>6. NoCommand => Service!NoCommand
  BY DEF NoCommand, Service!NoCommand, Poll, Service!Poll, profile, Service!profile, pins,
      Service!pins, history, Service!history
<1>7. Pio => Service!Pio
  BY DEF Pio, Service!Pio, PioPull, Service!PioPull, PioPulse, Service!PioPulse, profile,
      Service!profile, history, Service!history
<1> QED
  BY <1>3, <1>4, <1>5, <1>6, <1>7

LEMMA SamePerform ==
  ASSUME NEW op, NEW w
  PROVE  Perform(op, w) => Service!Perform(op, w)
<1>1. \A v : CmdSpeed(v) => Service!CmdSpeed(v)
  BY DEF CmdSpeed, Service!CmdSpeed, Poll, Service!Poll, clamp_speed, Service!clamp_speed, FLess,
      Service!FLess, pins, Service!pins, history, Service!history
<1>2. \A v : CmdAccel(v) => Service!CmdAccel(v)
  BY DEF CmdAccel, Service!CmdAccel, Poll, Service!Poll, clamp_accel, Service!clamp_accel, Detune,
      Service!Detune, FLess, Service!FLess, pins, Service!pins
<1>3. \A v : CmdDecel(v) => Service!CmdDecel(v)
  BY DEF CmdDecel, Service!CmdDecel, Poll, Service!Poll, clamp_accel, Service!clamp_accel, Detune,
      Service!Detune, FLess, Service!FLess, pins, Service!pins
<1>4. \A n : CmdMove(n) => Service!CmdMove(n)
  BY DEF CmdMove, Service!CmdMove, Poll, Service!Poll, motion_start, Service!motion_start, Negate,
      Service!Negate, profile, Service!profile, pins, Service!pins, history, Service!history
<1>5. CmdStop => Service!CmdStop
  BY DEF CmdStop, Service!CmdStop, Poll, Service!Poll, profile, Service!profile, pins, Service!pins
<1>6. Service!mbox_unpack_float(w) = mbox_unpack_float(w) /\ Service!ToInt32(w) = ToInt32(w)
  BY SameWords
<1>7. NoCommand => Service!NoCommand
  BY SameMotion
<1> QED
  BY <1>1, <1>2, <1>3, <1>4, <1>5, <1>6, <1>7
  DEF Perform, Service!Perform, CMD_SPEED, Service!CMD_SPEED, CMD_ACCEL, Service!CMD_ACCEL,
      CMD_DECEL, Service!CMD_DECEL, CMD_MOVE, Service!CMD_MOVE, CMD_STOP, Service!CMD_STOP,
      CMD_STATUS, Service!CMD_STATUS

LEMMA SameReply ==
  ASSUME NEW op, NEW w
  PROVE  Service!ReplyTo(op, w) = ReplyTo(op, w)
<1>1. \A v : Service!clamp_speed(v) = clamp_speed(v)
  BY DEF clamp_speed, Service!clamp_speed, FLess, Service!FLess
<1>2. \A v, d : Service!clamp_accel(v, d) = clamp_accel(v, d)
  BY DEF clamp_accel, Service!clamp_accel
<1>3. \A f : Service!status_reply(f) = status_reply(f)
  BY SameWords DEF status_reply, Service!status_reply
<1> QED
  BY <1>1, <1>2, <1>3, SameWords
  DEF ReplyTo, Service!ReplyTo, STEPPER_ACK_OK, Service!STEPPER_ACK_OK, STEPPER_ACK_BUSY,
      Service!STEPPER_ACK_BUSY, CMD_SPEED, Service!CMD_SPEED, CMD_ACCEL, Service!CMD_ACCEL,
      CMD_DECEL, Service!CMD_DECEL, CMD_MOVE, Service!CMD_MOVE, CMD_STOP, Service!CMD_STOP,
      CMD_STATUS, Service!CMD_STATUS
\* The steps of core0 are the call, the return, or invisible.
LEMMA ClientRefines ==
  ASSUME NEW u, Clients = {u}, MboxDepth >= 2, SysInv(u), SysInv(u)',
         StartCommand(u) \/ ClientRuns(u)
  PROVE  \/ Service!Ask(u) \/ Service!Return(u)
         \/ UNCHANGED vars /\ UNCHANGED Service!calls
<1> DEFINE r == Head(todo[u])
<1>m. StageMap(u) /\ StageMap(u)'
  BY StageMapHolds, StageMapNext
<1>u. UNCHANGED vars
  BY DEF StartCommand, ClientRuns, SendOpcode, SendPayload, TakeSem, ReadReply, Timeout
<1>v. UNCHANGED Service!vars
  BY <1>u, SameState
<1>t. cpc \in [Clients -> {"idle", "opcode", "payload", "wait", "read"}]
  BY DEF SysInv
<1>1. CASE StartCommand(u)
  <2>1. cpc[u] = "idle" /\ cpc'[u] = "opcode"
    BY <1>1, <1>t DEF StartCommand
  <2>2. Phase(u) = "idle" /\ AnswerFor(u) = <<>> /\ Phase(u)' = "idle" /\ AnswerFor(u)' = <<>>
    BY <1>m, <2>1 DEF StageMap
  <2> QED
    BY <1>u, <2>2, CallsStutter DEF Asked
<1>2. CASE SendOpcode(u)
  <2>1. cpc[u] = "opcode" /\ todo[u] # <<>> /\ r \in Requests(u)
    BY <1>2, FirstRequest DEF SendOpcode
  <2>2. Phase(u) = "idle" /\ AnswerFor(u) = <<>>
    BY <1>m, <2>1 DEF StageMap
  <2>3. cpc'[u] \in {"payload", "wait"} /\ todo' = todo /\ OpcodeSent(r)'
    BY <1>2, SendOpcodeEffect
  <2>4. Phase(u)' = "asked" /\ AnswerFor(u)' = <<>>
    BY <1>m, <2>3 DEF StageMap
  <2>5. Asked(u)' = <<r>>
    BY <2>3, <2>4 DEF Asked
  <2>6. r.op \in HasPayload \cup {CMD_STOP} /\ r.payload \in Payloads /\ r = Request(r.op, r.payload, u)
    BY <2>1, RequestParts
  <2> HIDE DEF r
  <2>7. \E op \in HasPayload \cup {CMD_STOP}, w \in Payloads : Asked(u)' = <<Request(op, w, u)>>
    BY <2>5, <2>6
  <2> QED
    BY <1>v, <2>2, <2>4, <2>7, SameWords DEF Service!Ask, Asked
<1>3. CASE SendPayload(u)
  <2>1. cpc[u] = "payload" /\ cpc'[u] = "wait" /\ todo' = todo /\ (BothSent(r)' \/ PayloadSent(r)')
    BY <1>3, SendPayloadEffect
  <2>2. OpcodeSent(r) \/ OpcodeTaken(r)
    BY <2>1 DEF SysInv
  <2>3. Phase(u) = "asked" /\ AnswerFor(u) = <<>> /\ Phase(u)' = "asked" /\ AnswerFor(u)' = <<>>
    BY <1>m, <2>1, <2>2 DEF StageMap
  <2> QED
    BY <1>u, <2>1, <2>3, CallsStutter DEF Asked
<1>4. CASE TakeSem(u)
  <2>1. cpc[u] = "wait" /\ cpc'[u] = "read" /\ todo' = todo /\ \E w : Stored(r, w) /\ Fetched(r, w)'
    BY <1>4, TakeSemEffect
  <2>2. Phase(u) = "answered" /\ Phase(u)' = "answered" /\ AnswerFor(u)' = AnswerFor(u)
    BY <1>m, <2>1 DEF StageMap
  <2> QED
    BY <1>u, <2>1, <2>2, CallsStutter DEF Asked
<1>5. CASE ReadReply(u)
  <2>1. cpc[u] = "read" /\ cpc'[u] \in {"idle", "opcode"}
    BY <1>5, <1>t DEF ReadReply
  <2>2. PICK w : Fetched(r, w)
    BY <2>1 DEF SysInv
  <2>3. Phase(u) = "answered" /\ Phase(u)' = "idle" /\ AnswerFor(u)' = <<>>
    BY <1>m, <2>1, <2>2 DEF StageMap
  <2> QED
    BY <1>v, <2>3 DEF Service!Return
<1>6. CASE Timeout(u)
  BY <1>6, InvResponsive DEF Timeout
<1> QED
  BY <1>1, <1>2, <1>3, <1>4, <1>5, <1>6 DEF ClientRuns

\* The steps of core1 carry a request out once, or are invisible to the shell.
LEMMA Core1Refines ==
  ASSUME NEW u, Clients = {u}, SysInv(u), SysInv(u)', Core1Runs \/ PioRuns \/ ReceiveIsr
  PROVE  \/ Service!Background \/ Service!Serve(u)
         \/ UNCHANGED vars /\ UNCHANGED Service!calls
<1> DEFINE r == Head(todo[u])
<1>m. StageMap(u) /\ StageMap(u)'
  BY StageMapHolds, StageMapNext
<1>1. CASE Feed \/ PollEmpty \/ PioRuns
  <2>1. UNCHANGED <<shell, mailbox, handler>>
    BY <1>1 DEF Feed, PollEmpty, PioRuns
  <2>2. Phase(u)' = Phase(u) /\ Asked(u)' = Asked(u) /\ AnswerFor(u)' = AnswerFor(u)
    BY <2>1 DEF Phase, Asked, AnswerFor, AnswerInMail, shell, mailbox, handler
  <2>3. UNCHANGED Service!calls
    BY <2>2, CallsStutter
  <2>4. FeedPush \/ FeedHalt \/ FeedDone \/ NoCommand \/ Pio
    BY <1>1 DEF Feed, PollEmpty, PioRuns
  <2> QED
    BY <2>3, <2>4, SameMotion DEF Service!Background
<1>2. ASSUME cpc[u] = "wait", OpcodeSent(r) \/ BothSent(r) \/ PayloadSent(r),
             UNCHANGED <<cpc, todo>>, Perform(r.op, r.payload),
             reply' = <<ReplyTo(r.op, r.payload)>>, \E w : Served(r, w)'
      PROVE  Service!Serve(u)
  <2>1. Phase(u) = "asked" /\ AnswerFor(u) = <<>>
    BY <1>m, <1>2 DEF StageMap
  <2>2. Phase(u)' = "answered" /\ AnswerFor(u)' = reply'
    BY <1>m, <1>2 DEF StageMap, Served, Mail
  <2>3. Asked(u) = <<r>> /\ Asked(u)' = <<r>>
    BY <1>2, <2>1, <2>2 DEF Asked
  <2>4. Service!Perform(r.op, r.payload)
    BY <1>2, SamePerform
  <2>5. AnswerFor(u)' = <<Service!ReplyTo(r.op, r.payload)>>
    BY <1>2, <2>2, SameReply
  <2> HIDE DEF r
  <2> DEFINE asked == [c \in Clients |-> Asked(c)]
  <2>6. asked[u][1] = r /\ UNCHANGED asked
    BY <2>3, ShortQueues
  <2>7. [c \in Clients |-> IF Phase(c) = "idle" THEN <<>> ELSE <<Head(todo[c])>>] = asked
    BY DEF Asked
  <2>8. [c \in Clients |-> IF Phase(c) = "idle" THEN <<>> ELSE <<Head(todo[c])>>]' = asked'
    BY DEF Asked
  <2> HIDE DEF asked
  <2> QED
    BY <2>1, <2>2, <2>4, <2>5, <2>6, <2>7, <2>8 DEF Service!Serve
<1>3. CASE ReadOpcode
  <2>1. UNCHANGED <<cpc, todo>> /\ hpc = "none" /\ to_core1 # <<>>
    BY <1>3 DEF ReadOpcode, shell
  <2>2. \/ cpc[u] = "wait" /\ r.op = CMD_STOP /\ OpcodeSent(r)
        \/ cpc[u] = "wait" /\ r.op \in HasPayload /\ BothSent(r)
        \/ cpc[u] = "payload" /\ r.op \in HasPayload /\ OpcodeSent(r)
    BY <2>1, OpcodeReady
  <2>3. CASE \/ cpc[u] = "wait" /\ PayloadSent(r)' /\ UNCHANGED vars
             \/ cpc[u] = "payload" /\ OpcodeTaken(r)' /\ UNCHANGED vars
    <3>1. Phase(u) = "asked" /\ AnswerFor(u) = <<>> /\ Phase(u)' = "asked" /\ AnswerFor(u)' = <<>>
      BY <1>m, <2>1, <2>2, <2>3 DEF StageMap
    <3> QED
      BY <2>1, <2>3, <3>1, CallsStutter DEF Asked
  <2> QED
    BY <1>2, <1>3, <2>1, <2>2, <2>3, ReadOpcodeEffect
<1>4. CASE ReadPayload
  <2>1. UNCHANGED <<cpc, todo>> /\ hpc = "payload" /\ to_core1 # <<>>
    BY <1>4 DEF ReadPayload, shell
  <2> QED
    BY <1>2, <1>4, <2>1, ReadPayloadEffect, PayloadReady
<1>5. CASE WriteReply
  <2>1. cpc[u] = "wait" /\ UNCHANGED <<vars, cpc, todo>> /\ \E w : Served(r, w) /\ Replied(r, w)'
    BY <1>5, WriteReplyEffect
  <2>2. Phase(u) = "answered" /\ Phase(u)' = "answered" /\ AnswerFor(u)' = AnswerFor(u)
    BY <1>m, <2>1 DEF StageMap
  <2> QED
    BY <2>1, <2>2, CallsStutter DEF Asked
<1>6. CASE ReceiveIsr
  <2>1. cpc[u] = "wait" /\ UNCHANGED <<vars, cpc, todo>> /\ \E w : Replied(r, w) /\ Stored(r, w)'
    BY <1>6, ReceiveIsrEffect
  <2>2. Phase(u) = "answered" /\ Phase(u)' = "answered" /\ AnswerFor(u)' = AnswerFor(u)
    BY <1>m, <2>1 DEF StageMap
  <2> QED
    BY <2>1, <2>2, CallsStutter DEF Asked
<1> QED
  BY <1>1, <1>3, <1>4, <1>5, <1>6 DEF Core1Runs

\* With one shell the mailbox is a remote procedure call: whatever the FIFOs,
\* the interrupt and the semaphore do in between, each request is carried out
\* on core1 exactly once between its call and its return, and returns what
\* that execution answered.
THEOREM MailboxIsRpc ==
  ASSUME NEW u, Clients = {u}, MboxDepth >= 2
  PROVE  SysSpec => ImplementsService
<1>1. SysInit => Service!ServInit
  <2> SUFFICES ASSUME SysInit PROVE Service!ServInit
    OBVIOUS
  <2>1. Service!Init
    BY SameState DEF SysInit
  <2>2. Phase(u) = "idle" /\ AnswerFor(u) = <<>>
    BY StageMapHolds DEF StageMap, SysInit
  <2> QED
    BY <2>1, <2>2 DEF Service!ServInit
<1>2. SysInv(u) /\ SysInv(u)' /\ [SysNext]_sysvars =>
        [Service!ServNext]_<<Service!vars, Service!calls>>
  <2> SUFFICES ASSUME SysInv(u), SysInv(u)', [SysNext]_sysvars
               PROVE  [Service!ServNext]_<<Service!vars, Service!calls>>
    OBVIOUS
  <2>1. CASE UNCHANGED sysvars
    <3>1. Phase(u)' = Phase(u) /\ Asked(u)' = Asked(u) /\ AnswerFor(u)' = AnswerFor(u)
      BY <2>1 DEF Phase, Asked, AnswerFor, AnswerInMail, sysvars, shell, mailbox, handler
    <3>2. UNCHANGED Service!vars
      BY <2>1, SameState DEF sysvars
    <3> QED
      BY <3>1, <3>2, CallsStutter
  <2>2. CASE \E c \in Clients : StartCommand(c) \/ ClientRuns(c)
    BY <2>2, ClientRefines, SameState DEF Service!ServNext
  <2>3. CASE Core1Runs \/ PioRuns \/ ReceiveIsr
    BY <2>3, Core1Refines, SameState DEF Service!ServNext
  <2> QED
    BY <2>1, <2>2, <2>3 DEF SysNext
<1> QED
  BY <1>1, <1>2, SysInvariant, PTL DEF SysSpec, ImplementsService, Service!ServSpec
=============================================================================
