--------------------------- MODULE StepperSystem ---------------------------
(***************************************************************************)
(* The motion controller on core1 driven from core0 over the SIO mailbox:  *)
(* the `stepper` shell commands (src/stepper_shell.c), the two hardware    *)
(* FIFOs with the Zephyr mailbox driver's receive interrupt, and the       *)
(* command handler of core1 (core1/core1_main.c), word by word.            *)
(*                                                                         *)
(* Clients are the shell threads (USB console, telnet).  Nothing in        *)
(* stepper_shell.c keeps two of them apart.                                *)
(***************************************************************************)
EXTENDS StepperProtocol

CONSTANTS
  Clients,       \* shell threads
  MboxDepth,     \* entries of each SIO FIFO
  StatusFields,  \* the fields `stepper status` asks for, in order
  MaxCommands    \* bound: commands typed into each shell

ASSUME MailboxAssumption ==
  /\ MboxDepth \in Nat \ {0}
  /\ StatusFields \in Seq(0 .. 5) \ {<<>>}
  /\ MaxCommands \in Nat

VARIABLES
  (* core0, per client *)
  cpc,         \* "idle", "opcode", "payload", "wait" or "read"
  typed,       \* shell commands started so far, up to MaxCommands
  todo,        \* requests of the running shell command still to be answered
  (* core0, shared *)
  reply_sem,   \* 0 or 1
  last_reply,  \* <<>> or the word the interrupt stored last
  (* the FIFOs *)
  to_core1,    \* words with the client that sent them
  to_core0,    \* words with the request they answer
  (* core1's handle_command() *)
  hpc,         \* "none", "payload" or "reply"
  cmd,         \* the request being handled, or <<>>
  reply        \* <<>> or the word to write

shell   == <<cpc, typed, todo>>
mailbox == <<reply_sem, last_reply, to_core1, to_core0>>
handler == <<hpc, cmd, reply>>
sysvars == <<vars, shell, mailbox, handler>>

----------------------------------------------------------------------------
(* core0: the shell commands.                                              *)

\* The requests of each shell command: one, or one per field for `status`.
\* move_steps() refuses zero steps before it sends anything.
ShellCommands(c) ==
       {<<Request(CMD_SPEED, mbox_pack_float(v), c)>> : v \in SpeedInputs}
  \cup {<<Request(CMD_ACCEL, mbox_pack_float(v), c)>> : v \in AccelInputs}
  \cup {<<Request(CMD_DECEL, mbox_pack_float(v), c)>> : v \in AccelInputs}
  \cup {<<Request(CMD_MOVE, IntWord(n), c)>> : n \in StepInputs \ {0}}
  \cup {<<Request(CMD_STOP, NoPayload, c)>>}
  \cup {[i \in 1 .. Len(StatusFields) |-> Request(CMD_STATUS, IntWord(StatusFields[i]), c)]}

StartCommand(c) ==
  /\ cpc[c] = "idle" /\ typed[c] < MaxCommands
  /\ typed' = [typed EXCEPT ![c] = @ + 1]
  /\ \E s \in ShellCommands(c) : todo' = [todo EXCEPT ![c] = s]
  /\ cpc' = [cpc EXCEPT ![c] = "opcode"]
  /\ UNCHANGED <<vars, mailbox, handler>>

\* The shell command is over, whether it succeeded or gave up.
Finish(c) ==
  /\ cpc' = [cpc EXCEPT ![c] = "idle"]
  /\ todo' = [todo EXCEPT ![c] = <<>>]

\* The mailbox driver's send: the word enters the FIFO.  Into a full FIFO it
\* is lost, or the driver reports an error and the round trip gives up.
mbox_send_word(c, w, next) ==
  \/ /\ Len(to_core1) < MboxDepth
     /\ to_core1' = Append(to_core1, [word |-> w, by |-> c])
     /\ cpc' = [cpc EXCEPT ![c] = next]
     /\ UNCHANGED todo
  \/ /\ Len(to_core1) >= MboxDepth
     /\ UNCHANGED to_core1
     /\ \/ cpc' = [cpc EXCEPT ![c] = next] /\ UNCHANGED todo
        \/ Finish(c)

\* Mutant: every command is sent as one without a payload.
SendOpcodeOnly(c) ==
  /\ cpc[c] = "opcode"
  /\ mbox_send_word(c, IntWord(Head(todo[c]).op), "wait")
  /\ UNCHANGED <<vars, typed, reply_sem, last_reply, to_core0, handler>>

SendOpcode(c) ==
  /\ cpc[c] = "opcode"
  /\ LET r == Head(todo[c]) IN
     mbox_send_word(c, IntWord(r.op), IF r.op \in HasPayload THEN "payload" ELSE "wait")
  /\ UNCHANGED <<vars, typed, reply_sem, last_reply, to_core0, handler>>

SendPayload(c) ==
  /\ cpc[c] = "payload"
  /\ mbox_send_word(c, Head(todo[c]).payload, "wait")
  /\ UNCHANGED <<vars, typed, reply_sem, last_reply, to_core0, handler>>

\* Mutant: the semaphore is looked at and not taken.
TakeSemPeek(c) ==
  /\ cpc[c] = "wait" /\ reply_sem = 1
  /\ cpc' = [cpc EXCEPT ![c] = "read"]
  /\ UNCHANGED <<vars, typed, todo, mailbox, handler>>

\* mbox_wait_reply(): k_sem_take() succeeds ...
TakeSem(c) ==
  /\ cpc[c] = "wait" /\ reply_sem = 1
  /\ reply_sem' = 0
  /\ cpc' = [cpc EXCEPT ![c] = "read"]
  /\ UNCHANGED <<vars, typed, todo, last_reply, to_core1, to_core0, handler>>

\* Mutant: `status` returns after its first field.
ReadReplyOnce(c) ==
  /\ cpc[c] = "read"
  /\ todo' = [todo EXCEPT ![c] = Tail(todo[c])]
  /\ cpc' = [cpc EXCEPT ![c] = "idle"]
  /\ UNCHANGED <<vars, typed, mailbox, handler>>

\* Mutant: `status` asks for the same field again.
ReadReplyAgain(c) ==
  /\ cpc[c] = "read"
  /\ cpc' = [cpc EXCEPT ![c] = "opcode"]
  /\ UNCHANGED <<vars, typed, todo, mailbox, handler>>

\* ... and last_reply is read afterwards.  `status` goes on to its next field.
ReadReply(c) ==
  /\ cpc[c] = "read"
  /\ todo' = [todo EXCEPT ![c] = Tail(todo[c])]
  /\ cpc' = [cpc EXCEPT ![c] = IF Len(todo[c]) > 1 THEN "opcode" ELSE "idle"]
  /\ UNCHANGED <<vars, typed, mailbox, handler>>

\* Something core1 or the interrupt will still do answers c: one of its words
\* is queued or being handled, or a reply to it is on its way.
UnderWay(c) ==
  \/ \E i \in 1 .. Len(to_core1) : to_core1[i].by = c
  \/ \E i \in 1 .. Len(to_core0) : to_core0[i].to.by = c
  \/ hpc # "none" /\ cmd[1].by = c /\ (hpc = "payload" => to_core1 # <<>>)

\* Mutant: the wait has no limit.
TimeoutNever(c) == cpc[c] = "wait" /\ FALSE /\ UNCHANGED sysvars

\* k_sem_take() expires after 1000 ms.  core1 handles a complete request in
\* microseconds, so it expires only when nothing is under way.
Timeout(c) ==
  /\ cpc[c] = "wait" /\ reply_sem = 0 /\ ~UnderWay(c)
  /\ Finish(c)
  /\ UNCHANGED <<vars, typed, mailbox, handler>>

\* Mutant: the interrupt does not give the semaphore.
ReceiveIsrNoGive ==
  /\ to_core0 # <<>>
  /\ last_reply' = <<Head(to_core0)>>
  /\ to_core0' = <<>>
  /\ UNCHANGED <<vars, shell, reply_sem, to_core1, handler>>

\* The receive interrupt: the driver reads one word, mbox_cb() stores it and
\* gives the semaphore, and the driver drains the rest of the FIFO.
ReceiveIsr ==
  /\ to_core0 # <<>>
  /\ last_reply' = <<Head(to_core0)>>
  /\ reply_sem' = 1
  /\ to_core0' = <<>>
  /\ UNCHANGED <<vars, shell, to_core1, handler>>

----------------------------------------------------------------------------
(* core1: handle_command(), a word at a time.                              *)

\* The handler finishes request r with reply word w.
Answer(r, w) ==
  /\ hpc' = "reply"
  /\ cmd' = <<r>>
  /\ reply' = <<w>>

\* The mailbox is empty: back to feeding.
PollEmpty ==
  /\ hpc = "none" /\ to_core1 = <<>>
  /\ NoCommand
  /\ UNCHANGED <<shell, mailbox, handler>>

\* An opcode word is read.  CMD_STOP acts at once, the other commands wait
\* for their payload, an unknown opcode is ignored without a reply.
ReadOpcode ==
  /\ hpc = "none" /\ pc = "poll" /\ to_core1 # <<>>
  /\ to_core1' = Tail(to_core1)
  /\ LET w == Head(to_core1).word
         c == Head(to_core1).by IN
     \/ /\ w = IntWord(CMD_STOP)
        /\ Perform(CMD_STOP, NoPayload)
        /\ Answer(Request(CMD_STOP, NoPayload, c), ReplyTo(CMD_STOP, NoPayload))
     \/ /\ w \in {IntWord(op) : op \in HasPayload}
        /\ hpc' = "payload"
        /\ cmd' = <<Request(w.v, NoPayload, c)>>
        /\ UNCHANGED <<vars, reply>>
     \/ /\ w \notin {IntWord(op) : op \in HasPayload \cup {CMD_STOP}}
        /\ NoCommand
        /\ UNCHANGED handler
  /\ UNCHANGED <<shell, reply_sem, last_reply, to_core0>>

\* The payload word has arrived and the command is carried out.
ReadPayload ==
  /\ hpc = "payload" /\ to_core1 # <<>>
  /\ to_core1' = Tail(to_core1)
  /\ LET w  == Head(to_core1).word
         op == cmd[1].op
     IN /\ Perform(op, w)
        /\ Answer(Request(op, w, cmd[1].by), ReplyTo(op, w))
  /\ UNCHANGED <<shell, reply_sem, last_reply, to_core0>>

\* Mutant: the handler writes its reply word twice.
WriteReplyTwice ==
  /\ hpc = "reply" /\ Len(to_core0) < MboxDepth
  /\ to_core0' = Append(to_core0, [word |-> reply[1], to |-> cmd[1]])
  /\ hpc' \in {"reply", "none"}
  /\ IF hpc' = "none" THEN cmd' = <<>> /\ reply' = <<>> ELSE UNCHANGED <<cmd, reply>>
  /\ UNCHANGED <<vars, shell, reply_sem, last_reply, to_core1>>

\* fifo_write_blocking(): the reply enters the FIFO once there is room.  The
\* word carries the request it answers, which the program cannot see.
WriteReply ==
  /\ hpc = "reply" /\ Len(to_core0) < MboxDepth
  /\ to_core0' = Append(to_core0, [word |-> reply[1], to |-> cmd[1]])
  /\ hpc' = "none"
  /\ cmd' = <<>>
  /\ reply' = <<>>
  /\ UNCHANGED <<vars, shell, reply_sem, last_reply, to_core1>>

\* Feeding the PIO goes on only between commands.
Feed ==
  /\ hpc = "none"
  /\ FeedPush \/ FeedHalt \/ FeedDone
  /\ UNCHANGED <<shell, mailbox, handler>>

PioRuns == Pio /\ UNCHANGED <<shell, mailbox, handler>>

----------------------------------------------------------------------------
SysInit ==
  /\ Init
  /\ cpc = [c \in Clients |-> "idle"]
  /\ typed = [c \in Clients |-> 0]
  /\ todo = [c \in Clients |-> <<>>]
  /\ reply_sem = 0
  /\ last_reply = <<>>
  /\ to_core1 = <<>>
  /\ to_core0 = <<>>
  /\ hpc = "none"
  /\ cmd = <<>>
  /\ reply = <<>>

Core1Runs == Feed \/ PollEmpty \/ ReadOpcode \/ ReadPayload \/ WriteReply

ClientRuns(c) ==
  SendOpcode(c) \/ SendPayload(c) \/ TakeSem(c) \/ ReadReply(c) \/ Timeout(c)

SysNext ==
  \/ Core1Runs \/ PioRuns \/ ReceiveIsr
  \/ \E c \in Clients : StartCommand(c) \/ ClientRuns(c)

\* core1 and the PIO never stop, interrupts are served and a runnable thread
\* runs; only the user is free not to type.
SysSpec ==
  /\ SysInit /\ [][SysNext]_sysvars
  /\ WF_sysvars(Core1Runs) /\ WF_sysvars(PioRuns) /\ WF_sysvars(ReceiveIsr)
  /\ \A c \in Clients : WF_sysvars(ClientRuns(c))

----------------------------------------------------------------------------
(* Correctness.                                                            *)

(* What the mailbox promises one shell: each request is a remote procedure *)
(* call.  A request counts as asked once its opcode is sent, and as        *)
(* answered from the moment core1 has carried it out.                      *)

AnswerInMail == hpc = "reply" \/ to_core0 # <<>> \/ reply_sem = 1

Phase(c) ==
  CASE cpc[c] \in {"idle", "opcode"} -> "idle"
    [] cpc[c] = "read" \/ (cpc[c] = "wait" /\ AnswerInMail) -> "answered"
    [] OTHER -> "asked"

AnswerFor(c) ==
  CASE Phase(c) # "answered" -> <<>>
    [] Phase(c) = "answered" /\ hpc = "reply" -> reply
    [] Phase(c) = "answered" /\ hpc # "reply" /\ to_core0 # <<>> -> <<to_core0[1].word>>
    [] OTHER -> <<last_reply[1].word>>

Service == INSTANCE StepperService WITH
  phase  <- [c \in Clients |-> Phase(c)],
  asked  <- [c \in Clients |-> IF Phase(c) = "idle" THEN <<>> ELSE <<Head(todo[c])>>],
  answer <- [c \in Clients |-> AnswerFor(c)]

\* With one shell the mailbox is a remote procedure call: every request takes
\* effect on core1 exactly once between its call and its return, and returns
\* what that execution answered.
ImplementsService == Service!ServSpec

SysTypeOK ==
  /\ cpc \in [Clients -> {"idle", "opcode", "payload", "wait", "read"}]
  /\ \A c \in Clients : (cpc[c] = "idle") = (todo[c] = <<>>)
  /\ reply_sem \in {0, 1}
  /\ Len(to_core1) <= MboxDepth /\ Len(to_core0) <= MboxDepth
  /\ hpc \in {"none", "payload", "reply"}
  /\ (hpc = "none") = (cmd = <<>>)
  /\ (hpc = "reply") = (reply # <<>>)

\* The reply a shell command acts on is core1's answer to the very request it
\* sent, opcode and payload: no stale, lost, shifted or foreign reply
\* (mailbox_proto.h, "exactly one request -> one reply, word for word").
OwnReply ==
  [][\A c \in Clients : ReadReply(c) => last_reply[1].to = Head(todo[c])]_sysvars

\* A shell command never sees "core1 did not respond" while core1 is alive:
\* no round trip is left without an answer under way.
Responsive ==
  \A c \in Clients : (cpc[c] = "wait" /\ reply_sem = 0) => UnderWay(c)

\* core1 waits for a payload word only while core0 is about to send it: a
\* longer wait inside handle_command() would starve the PIO of steps
\* (core1_main.c, "core0 always sends them back-to-back").
ShortWait ==
  hpc = "payload" => to_core1 # <<>> \/ \E c \in Clients : cpc[c] = "payload"

\* Every shell command returns to its prompt.
CommandsReturn == \A c \in Clients : (cpc[c] # "idle") ~> (cpc[c] = "idle")
=============================================================================
