--------------------------- MODULE StepperService ---------------------------
(***************************************************************************)
(* What the mailbox between the shell and the motion controller promises:  *)
(* a remote procedure call.  A client asks for a request, core1 carries it *)
(* out in one step and the client gets what that step answered.  There are *)
(* no words, FIFOs, interrupts or semaphores.                              *)
(***************************************************************************)
EXTENDS StepperProtocol

CONSTANT Clients

VARIABLES
  phase,   \* per client: "idle", "asked" or "answered"
  asked,   \* per client: <<>> or the request
  answer   \* per client: <<>> or the word core1 answered

calls == <<phase, asked, answer>>

Ask(c) ==
  /\ phase[c] = "idle"
  /\ phase' = [phase EXCEPT ![c] = "asked"]
  /\ \E op \in HasPayload \cup {CMD_STOP}, w \in Payloads :
       asked' = [asked EXCEPT ![c] = <<Request(op, w, c)>>]
  /\ UNCHANGED <<vars, answer>>

Serve(c) ==
  /\ phase[c] = "asked"
  /\ LET r == asked[c][1] IN
     /\ Perform(r.op, r.payload)
     /\ answer' = [answer EXCEPT ![c] = <<ReplyTo(r.op, r.payload)>>]
  /\ phase' = [phase EXCEPT ![c] = "answered"]
  /\ UNCHANGED asked

Return(c) ==
  /\ phase[c] = "answered"
  /\ phase' = [phase EXCEPT ![c] = "idle"]
  /\ asked' = [asked EXCEPT ![c] = <<>>]
  /\ answer' = [answer EXCEPT ![c] = <<>>]
  /\ UNCHANGED vars

Background ==
  /\ FeedPush \/ FeedHalt \/ FeedDone \/ NoCommand \/ Pio
  /\ UNCHANGED calls

ServInit ==
  /\ Init
  /\ phase = [c \in Clients |-> "idle"]
  /\ asked = [c \in Clients |-> <<>>]
  /\ answer = [c \in Clients |-> <<>>]

ServNext == Background \/ \E c \in Clients : Ask(c) \/ Serve(c) \/ Return(c)

ServSpec == ServInit /\ [][ServNext]_<<vars, calls>>
=============================================================================
