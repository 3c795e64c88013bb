------------------------------- MODULE TxPath -------------------------------
(***************************************************************************)
(* The transmit path of the LAN9250 driver and its interrupt loop          *)
(* (drivers/eth_lan9250/eth_lan9250.c): lan9250_tx() with tx_rx_sem,       *)
(* lan9250_1588_tx_timestamp_check(), which polls for the egress capture   *)
(* of a PTP frame under bank_lock, and lan9250_thread(), which masks the   *)
(* chip's interrupts, serves one received frame and unmasks them.          *)
(*                                                                         *)
(* A frame is "plain", a PTP "general" message (never captured) or a PTP   *)
(* "event" message.  An event frame in the chip, or its capture, is known  *)
(* by its age: how many event frames were handed to the driver after it.   *)
(* The driver compares sequence numbers, which repeat every SeqMod frames, *)
(* so it takes age SeqMod for age 0.  This is one counter, the PTP stack's *)
(* (the shell's `ptp txtest` numbers its Syncs by a counter of its own, and *)
(* is not a sender here).  What a received frame is and where it goes is   *)
(* RxTimestamp's subject; here it takes bank_lock or does not.             *)
(***************************************************************************)
EXTENDS Naturals, Sequences

CONSTANTS
  Senders,
  Sends,        \* the kinds of frames each of them sends
  SeqMod,       \* sequence numbers (2^16)
  ATTEMPTS,     \* LAN9250_1588_TX_TS_POLL_ATTEMPTS
  WireDepth,    \* event frames queued in the chip
  CapDepth,     \* egress captures the chip buffers
  RxDepth,      \* frames the receive FIFO holds
  SemMax,       \* bound on tx_rx_sem (UINT_MAX)
  MaxFaults,    \* bound on failing transfers, late captures and lost frames
  None

ASSUME TxAssumption ==
  /\ {SeqMod, ATTEMPTS, WireDepth, CapDepth, RxDepth, SemMax} \subseteq Nat \ {0}
  /\ SeqMod > WireDepth + CapDepth
  /\ MaxFaults \in Nat /\ Sends \in [Senders -> SUBSET {"plain", "general", "event"}]
  /\ None \notin Senders /\ None \notin Nat /\ "lan9250_thread" \notin Senders \cup {None}

VARIABLES
  (* the chip *)
  wire,          \* ages of the event frames written and not yet sent
  cap,           \* ages of the captures visible in CAP_INFO, oldest first
  skewed,        \* a frame was written in part: what follows it is garbled
  bank,          \* LAN9250_1588_BANK_PORT_GPIO_SEL
  rxfifo,        \* how many received frames wait
  sts, int_en,   \* INT_STS and INT_EN
  (* struct lan9250_runtime *)
  tx_rx_sem, int_sem, bank_lock,
  buf,           \* whose frame it holds
  (* lan9250_thread(); its locals are {} before they are set *)
  tpc, int_sts, ier,
  (* lan9250_tx(), called with the interface locked *)
  tx_lock, pc, pkt, stamp, attempt,
  faults         \* ghost

chip    == <<wire, cap, skewed, bank>>
irq     == <<rxfifo, sts, int_en, int_sem>>
thread  == <<tpc, int_sts, ier>>
senders == <<tx_lock, pc, pkt, stamp, attempt, buf>>
vars    == <<chip, irq, thread, senders, tx_rx_sem, bank_lock, faults>>

Thread  == "lan9250_thread"
PHY_INT == "PHY_INT"
RSFL    == "RSFL"
Sources == {PHY_INT, RSFL}
Frames  == {"plain", "general", "event"}
Ages    == 0 .. SeqMod

TypeOK ==
  /\ wire \in Seq(Ages) /\ Len(wire) <= WireDepth
  /\ cap \in Seq(Ages) /\ Len(cap) <= CapDepth
  /\ skewed \in BOOLEAN /\ bank \in {"general", "rx", "tx"}
  /\ rxfifo \in 0 .. RxDepth /\ sts \subseteq Sources /\ int_en \subseteq Sources
  /\ tx_rx_sem \in 0 .. SemMax /\ int_sem \in {0, 1}
  /\ bank_lock \in Senders \cup {Thread, None} /\ buf \in Senders \cup {None}
  /\ tpc \in {"take", "mask", "status", "phy", "rsfl", "rx", "pop", "popnone",
              "sweep", "check", "unlock", "give", "restore"}
  /\ int_sts \subseteq Sources /\ ier \subseteq Sources
  /\ tx_lock \in Senders \cup {None}
  /\ pc \in [Senders -> {"idle", "sem", "cmd", "data", "drain", "check", "select",
                         "poll", "selecttx", "read", "ack", "out", "give"}]
  /\ pkt \in [Senders -> Frames]
  /\ stamp \in [Senders -> Ages \cup {None}]
  /\ attempt \in 0 .. ATTEMPTS - 1
  /\ faults \in 0 .. MaxFaults

----------------------------------------------------------------------------
(* The chip, its interrupt line and the network (external).                *)

Fault == faults < MaxFaults /\ faults' = faults + 1

Line == sts \cap int_en # {}

\* Mutant: the pin interrupt is configured for the level.
gpio_callbackLevel == int_sem' = IF Line' THEN int_sem + 1 ELSE int_sem

\* lan9250_gpio_callback() runs at each rising edge of the line.
gpio_callback == int_sem' = IF ~Line /\ Line' THEN int_sem + 1 ELSE int_sem

\* A frame is received: the status FIFO is above its level, 0.  To land in the
\* window of RxNothing is a fault, which does not happen every time.
Arrive ==
  /\ rxfifo < RxDepth
  /\ IF tpc = "popnone" THEN Fault ELSE UNCHANGED faults
  /\ rxfifo' = rxfifo + 1
  /\ sts' = sts \cup {RSFL}
  /\ UNCHANGED int_en
  /\ gpio_callback
  /\ UNCHANGED <<chip, thread, senders, tx_rx_sem, bank_lock>>

LinkChange ==
  /\ sts' = sts \cup {PHY_INT}
  /\ UNCHANGED <<rxfifo, int_en>>
  /\ gpio_callback
  /\ UNCHANGED <<chip, thread, senders, tx_rx_sem, bank_lock, faults>>

\* The oldest event frame leaves, and is captured if there is room; without a
\* link it is discarded.
Transmit ==
  /\ wire # <<>>
  /\ wire' = Tail(wire)
  /\ cap' \in {cap} \cup (IF Len(cap) < CapDepth THEN {Append(cap, Head(wire))} ELSE {})
  /\ UNCHANGED <<skewed, bank, irq, thread, senders, tx_rx_sem, bank_lock, faults>>

----------------------------------------------------------------------------
(* lan9250_tx().                                                           *)

Goto(s, label) == pc' = [pc EXCEPT ![s] = label]

\* One more event frame after each of these; SeqMod is as old as can be told.
Older(ages) == [i \in DOMAIN ages |-> IF ages[i] < SeqMod THEN ages[i] + 1 ELSE SeqMod]

\* net_if_tx() calls the driver with the interface locked.  (A failure of the
\* first transfer, before tx_rx_sem, is a call without effect.)
Send(s, f) ==
  /\ pc[s] = "idle" /\ tx_lock = None
  /\ f = "event" => Len(wire) < WireDepth
  /\ tx_lock' = s
  /\ pkt' = [pkt EXCEPT ![s] = f]
  /\ wire' = IF f = "event" THEN Older(wire) ELSE wire
  /\ cap'  = IF f = "event" THEN Older(cap) ELSE cap
  /\ Goto(s, "sem")
  /\ UNCHANGED <<skewed, bank, irq, thread, stamp, attempt, buf, tx_rx_sem, bank_lock, faults>>

\* lan9250_tx() returns, the stack unlocks the interface and is done with the
\* packet.
Return(s) ==
  /\ Goto(s, "idle") /\ tx_lock' = None
  /\ pkt' = [pkt EXCEPT ![s] = "plain"] /\ stamp' = [stamp EXCEPT ![s] = None]

TakeSem(s) ==
  /\ pc[s] = "sem" /\ tx_rx_sem > 0
  /\ tx_rx_sem' = tx_rx_sem - 1
  /\ Goto(s, "cmd")
  /\ UNCHANGED <<chip, irq, thread, tx_lock, pkt, stamp, attempt, buf, bank_lock, faults>>

\* The two commands are written and the packet is copied to ctx->buf.
WriteCommands(s) ==
  /\ pc[s] = "cmd"
  /\ buf' = s
  /\ Goto(s, "data")
  /\ UNCHANGED <<chip, irq, thread, tx_lock, pkt, stamp, attempt, tx_rx_sem, bank_lock, faults>>

WriteBuf(s) ==
  /\ pc[s] = "data"
  /\ wire' = IF pkt[buf] = "event" /\ ~skewed THEN Append(wire, 0) ELSE wire
  /\ Goto(s, "drain")
  /\ UNCHANGED <<cap, skewed, bank, irq, thread, tx_lock, pkt, stamp, attempt, buf,
                 tx_rx_sem, bank_lock, faults>>

\* The status words of earlier frames are read.
DrainStatus(s) ==
  /\ pc[s] = "drain"
  /\ Goto(s, "check")
  /\ UNCHANGED <<chip, irq, thread, tx_lock, pkt, stamp, attempt, buf, tx_rx_sem, bank_lock, faults>>

\* A transfer fails: lan9250_tx() returns and keeps tx_rx_sem.  With command
\* 'A' written and no data the chip takes the next frame's words for this
\* one's.
TxFails(s) ==
  /\ pc[s] \in {"cmd", "data", "drain"}
  /\ Fault
  /\ Return(s)
  /\ skewed' \in CASE pc[s] = "cmd" -> {skewed, TRUE}
                   [] pc[s] = "data" -> {TRUE}
                   [] pc[s] = "drain" -> {skewed}
  /\ UNCHANGED <<wire, cap, bank, irq, thread, attempt, buf, tx_rx_sem, bank_lock>>

Saturate(n) == IF n < SemMax THEN n + 1 ELSE n

Give(s) ==
  /\ pc[s] = "give"
  /\ tx_rx_sem' = Saturate(tx_rx_sem)
  /\ Return(s)
  /\ UNCHANGED <<chip, irq, thread, attempt, buf, bank_lock, faults>>

----------------------------------------------------------------------------
(* lan9250_1588_tx_timestamp_check().                                      *)

checker == <<irq, thread, tx_lock, pkt, buf, tx_rx_sem>>

\* Mutant: general messages, which are never captured, are not looked at.
parse_headerEvents(f) == f = "event"

\* lan9250_ptp_parse_header(): any PTP message.
parse_header(f) == f # "plain"

\* Mutant: the banks are used without the lock.
LockBankNot(s) ==
  /\ pc[s] = "check"
  /\ IF parse_header(pkt[buf]) THEN bank_lock' = s /\ Goto(s, "select")
     ELSE Goto(s, "give") /\ UNCHANGED bank_lock
  /\ UNCHANGED <<chip, checker, stamp, attempt, faults>>

LockBank(s) ==
  /\ pc[s] = "check"
  /\ IF parse_header(pkt[buf]) THEN bank_lock = None /\ bank_lock' = s /\ Goto(s, "select")
     ELSE Goto(s, "give") /\ UNCHANGED bank_lock
  /\ UNCHANGED <<chip, checker, stamp, attempt, faults>>

SelectGeneral(s) ==
  /\ pc[s] = "select"
  /\ bank' = "general"
  /\ Goto(s, "poll")
  /\ UNCHANGED <<wire, cap, skewed, checker, stamp, attempt, bank_lock, faults>>

\* CAP_INFO is read; nothing yet: sleep for a millisecond and read again.  To
\* have waited in vain for a frame that is still in the chip is a fault: the
\* polls last longer than any frame on the wire.
Poll(s) ==
  /\ pc[s] = "poll"
  /\ IF cap # <<>> THEN Goto(s, "selecttx") /\ attempt' = 0 /\ UNCHANGED faults
     ELSE IF attempt < ATTEMPTS - 1
     THEN attempt' = attempt + 1 /\ UNCHANGED <<pc, faults>>
     ELSE /\ IF wire # <<>> THEN Fault ELSE UNCHANGED faults
          /\ Goto(s, "out") /\ attempt' = 0
  /\ UNCHANGED <<chip, checker, stamp, bank_lock>>

SelectTx(s) ==
  /\ pc[s] = "selecttx"
  /\ bank' = "tx"
  /\ Goto(s, "read")
  /\ UNCHANGED <<wire, cap, skewed, checker, stamp, attempt, bank_lock, faults>>

\* Mutant: the event read is taken to be this frame's.
hw_matchesAny(age, f) == f = "event"

\* The event's (messageType, sequenceId) are this frame's.
hw_matches(age, f) == f = "event" /\ age % SeqMod = 0

ReadEvent(s) ==
  /\ pc[s] = "read"
  /\ stamp' = [stamp EXCEPT ![s] = IF hw_matches(Head(cap), pkt[buf]) THEN Head(cap) ELSE @]
  /\ Goto(s, "ack")
  /\ UNCHANGED <<chip, checker, attempt, bank_lock, faults>>

\* The event is acknowledged, matched or not; an error is ignored.
Acknowledge(s) ==
  /\ pc[s] = "ack"
  /\ \/ cap' = Tail(cap) /\ UNCHANGED faults
     \/ Fault /\ UNCHANGED cap
  /\ Goto(s, "out")
  /\ UNCHANGED <<wire, skewed, bank, checker, stamp, attempt, bank_lock>>

\* A transfer of the check fails: goto out.
CheckFails(s) ==
  /\ pc[s] \in {"select", "poll", "selecttx", "read"}
  /\ Fault
  /\ Goto(s, "out") /\ attempt' = 0
  /\ UNCHANGED <<chip, checker, stamp, bank_lock>>

UnlockBank(s) ==
  /\ pc[s] = "out"
  /\ bank_lock' = None
  /\ Goto(s, "give")
  /\ UNCHANGED <<chip, checker, stamp, attempt, faults>>

----------------------------------------------------------------------------
(* lan9250_thread() and, where it concerns the sender, lan9250_rx().       *)

others == <<chip, senders, faults>>

TakeInt ==
  /\ tpc = "take" /\ int_sem > 0
  /\ int_sem' = int_sem - 1
  /\ tpc' = "mask"
  /\ UNCHANGED <<rxfifo, sts, int_en, int_sts, ier, tx_rx_sem, bank_lock, others>>

\* Mutant: the interrupts are left enabled, and the line stays active.
MaskNot ==
  /\ tpc = "mask"
  /\ ier' = int_en
  /\ tpc' = "status"
  /\ UNCHANGED <<irq, int_sts, tx_rx_sem, bank_lock, others>>

\* INT_EN is saved; writing 0 to it releases the line.
Mask ==
  /\ tpc = "mask"
  /\ ier' = int_en
  /\ int_en' = {}
  /\ UNCHANGED <<rxfifo, sts>>
  /\ gpio_callback
  /\ tpc' = "status"
  /\ UNCHANGED <<int_sts, tx_rx_sem, bank_lock, others>>

ReadStatus ==
  /\ tpc = "status"
  /\ int_sts' = sts
  /\ tpc' = "phy"
  /\ UNCHANGED <<irq, ier, tx_rx_sem, bank_lock, others>>

\* Reading the PHY's interrupt source clears it (MacCsr has the details).
PhyBranch ==
  /\ tpc = "phy"
  /\ sts' = sts \ (int_sts \cap {PHY_INT})
  /\ UNCHANGED <<rxfifo, int_en>>
  /\ gpio_callback
  /\ tpc' = "rsfl"
  /\ UNCHANGED <<int_sts, ier, tx_rx_sem, bank_lock, others>>

\* RSFL is acknowledged before the frame is read; as long as the FIFO is not
\* empty the chip sets it again.
AckRsfl ==
  /\ tpc = "rsfl"
  /\ sts' = IF RSFL \in int_sts /\ rxfifo = 0 THEN sts \ {RSFL} ELSE sts
  /\ UNCHANGED <<rxfifo, int_en>>
  /\ gpio_callback
  /\ int_sts' = {}
  /\ tpc' = IF RSFL \in int_sts THEN "rx" ELSE "restore"
  /\ UNCHANGED <<ier, tx_rx_sem, bank_lock, others>>

\* lan9250_rx() reads RX_FIFO_INF: the count it takes from it is 0 or not.
ReadCount ==
  /\ tpc = "rx"
  /\ tpc' = IF rxfifo > 0 THEN "pop" ELSE "popnone"
  /\ UNCHANGED <<irq, int_sts, ier, tx_rx_sem, bank_lock, others>>

\* pktcnt == 0: nothing to read.  But RX_STATUS_FIFO is read before pktcnt is
\* looked at, and a frame that has landed since loses its status.
RxNothing ==
  /\ tpc = "popnone"
  /\ rxfifo' = IF rxfifo > 0 THEN rxfifo - 1 ELSE 0
  /\ tpc' = "restore"
  /\ UNCHANGED <<sts, int_en, int_sem, int_sts, ier, tx_rx_sem, bank_lock, others>>

\* A transfer of lan9250_rx() fails: it returns without giving tx_rx_sem, with
\* the frame's status read or not.
RxFails ==
  /\ Fault
  /\ \/ tpc = "rx" /\ UNCHANGED rxfifo
     \/ tpc = "pop" /\ rxfifo' \in {rxfifo, rxfifo - 1}
  /\ tpc' = "restore"
  /\ UNCHANGED <<sts, int_en, int_sem, int_sts, ier, tx_rx_sem, bank_lock, chip, senders>>

\* No packet could be allocated: the frame is dropped, after a sweep.
RxNoBuffer ==
  /\ tpc = "pop"
  /\ rxfifo' = rxfifo - 1
  /\ tpc' = "sweep"
  /\ UNCHANGED <<sts, int_en, int_sem, int_sts, ier, tx_rx_sem, bank_lock, others>>

Sweep ==
  /\ tpc = "sweep" /\ bank_lock = None
  /\ tpc' = "restore"
  /\ UNCHANGED <<irq, int_sts, ier, tx_rx_sem, bank_lock, others>>

\* A frame is read: one with a PTP header is checked for a timestamp.
RxFrame ==
  /\ tpc = "pop"
  /\ rxfifo' = rxfifo - 1
  /\ tpc' \in {"check", "give"}
  /\ UNCHANGED <<sts, int_en, int_sem, int_sts, ier, tx_rx_sem, bank_lock, others>>

\* lan9250_1588_rx_timestamp_check() selects banks of its own.
RxCheck ==
  /\ tpc = "check" /\ bank_lock = None
  /\ bank_lock' = Thread
  /\ bank' \in {"general", "rx"}
  /\ tpc' = "unlock"
  /\ UNCHANGED <<wire, cap, skewed, irq, int_sts, ier, senders, tx_rx_sem, faults>>

RxUnlock ==
  /\ tpc = "unlock"
  /\ bank_lock' = None
  /\ tpc' = "give"
  /\ UNCHANGED <<irq, int_sts, ier, tx_rx_sem, others>>

\* Mutant: receiving does not give the transmitter's semaphore.
RxGiveNot ==
  /\ tpc = "give"
  /\ tpc' = "restore"
  /\ UNCHANGED <<irq, int_sts, ier, tx_rx_sem, bank_lock, others>>

\* Every frame handed to the stack gives tx_rx_sem.
RxGive ==
  /\ tpc = "give"
  /\ tx_rx_sem' = Saturate(tx_rx_sem)
  /\ tpc' = "restore"
  /\ UNCHANGED <<irq, int_sts, ier, bank_lock, others>>

RestoreEnable ==
  /\ tpc = "restore"
  /\ int_en' = ier /\ ier' = {}
  /\ UNCHANGED <<rxfifo, sts>>
  /\ gpio_callback
  /\ tpc' = "take"
  /\ UNCHANGED <<int_sts, tx_rx_sem, bank_lock, others>>

----------------------------------------------------------------------------
Init ==
  /\ wire = <<>> /\ cap = <<>> /\ skewed = FALSE /\ bank = "general"
  /\ rxfifo = 0 /\ sts = {} /\ int_en = Sources
  /\ tx_rx_sem = 1 /\ int_sem = 0 /\ bank_lock = None /\ buf = None
  /\ tpc = "take" /\ int_sts = {} /\ ier = {}
  /\ tx_lock = None /\ pc = [s \in Senders |-> "idle"] /\ attempt = 0
  /\ pkt = [s \in Senders |-> "plain"] /\ stamp = [s \in Senders |-> None]
  /\ faults = 0

Check(s)   == \/ LockBank(s) \/ SelectGeneral(s) \/ Poll(s) \/ SelectTx(s) \/ ReadEvent(s)
              \/ Acknowledge(s) \/ CheckFails(s) \/ UnlockBank(s)
TxStep(s)  == \/ TakeSem(s) \/ WriteCommands(s) \/ WriteBuf(s) \/ DrainStatus(s) \/ Give(s) \/ TxFails(s) \/ Check(s)
Rx         == \/ ReadCount \/ RxNothing \/ RxFails \/ RxNoBuffer \/ RxFrame \/ Sweep \/ RxCheck \/ RxUnlock \/ RxGive
ThreadStep == \/ TakeInt \/ Mask \/ ReadStatus \/ PhyBranch \/ AckRsfl
              \/ Rx \/ RestoreEnable

Next == \/ Arrive \/ LinkChange \/ Transmit \/ ThreadStep
        \/ \E s \in Senders : TxStep(s) \/ \E f \in Sends[s] : Send(s, f)

Spec == Init /\ [][Next]_vars

\* The threads run (of the senders, the one that has the interface), bank_lock
\* is handed to a thread that waits for it (as k_mutex_unlock() does), the chip
\* sends, and frames keep coming that can be read into a packet (RxTimestamp's
\* PoolRecovers).
Running ==
  /\ WF_vars(ThreadStep) /\ SF_vars(RxCheck \/ Sweep)
  /\ WF_vars(\E s \in Senders : TxStep(s)) /\ SF_vars(\E s \in Senders : LockBank(s))
  /\ WF_vars(Transmit) /\ WF_vars(Arrive) /\ SF_vars(RxFrame)

\* General messages keep being sent: Announce, Follow_Up or Delay_Resp of a
\* time transmitter.
Transmitter == Spec /\ Running /\ SF_vars(\E s \in Senders : "general" \in Sends[s] /\ Send(s, "general"))

----------------------------------------------------------------------------
(* Properties.                                                             *)

\* From the copy to the end of the check, ctx->buf is the sender's own frame,
\* and a register of a bank is read with that bank selected, although every
\* received frame lets one more sender pass tx_rx_sem and the receive check
\* switches banks while the sender sleeps between two polls.
Undisturbed ==
  \A s \in Senders :
    /\ pc[s] \in {"data", "drain", "check", "select", "poll", "selecttx", "read", "ack"} => buf = s
    /\ pc[s] = "poll" => bank = "general"
    /\ pc[s] = "read" => bank = "tx" /\ cap # <<>>

\* A timestamp given to a sent packet is the egress capture of that packet and
\* never a late one of a packet before it.
StampOwn == \A s \in Senders : stamp[s] # None => pkt[s] = "event" /\ stamp[s] = 0

Idle     == \A s \in Senders : pc[s] = "idle"
Leftover == Idle /\ cap # <<>>

\* A capture left behind by a late frame or a failed transfer makes every
\* event frame after it read its predecessor's capture.  A time transmitter
\* gets out of it: the check of a general message takes the extra one.
Realigns == Leftover ~> (Idle /\ cap = <<>> /\ wire = <<>>)

\* lan9250_tx() returns and the interface is unlocked: a semaphore kept by a
\* failed call is replaced by the next received frame.
SendsReturn == (tx_lock # None) ~> (tx_lock = None)

\* No interrupt is lost: with a frame in the FIFO the thread comes to
\* lan9250_rx(), whenever the frame came while it was at work.
FramesServed == (rxfifo > 0) ~> (tpc = "rx")
=============================================================================
