---------------------------- MODULE RxTimestamp ----------------------------
(***************************************************************************)
(* The receive path of the LAN9250 driver (drivers/eth_lan9250/            *)
(* eth_lan9250.c): lan9250_rx() takes one frame out of the chip's FIFO,    *)
(* lan9250_1588_rx_timestamp_check() matches PTP frames with the ingress   *)
(* timestamps the chip captured, in either order of arrival, and the frame *)
(* goes to the network stack.                                              *)
(*                                                                         *)
(* A frame is "plain", a PTP "general" message (never timestamped) or a    *)
(* PTP "event" message.  A key stands for an event's (messageType,         *)
(* sequenceId), all the driver matches by.  gen, a ghost, tells two uses   *)
(* of a key apart (a sender that restarts counts from the start again), so *)
(* [key, gen] is the frame and the capture that belongs to it.  A use that *)
(* begins while a capture of the key is left from an earlier one is        *)
(* Unsure, and so is a frame that was read out of step with the FIFO.      *)
(***************************************************************************)
EXTENDS Naturals, Sequences, FiniteSets

CONSTANTS
  Pkts,         \* the net_pkt pool
  Keys,         \* (messageType, sequenceId) of event messages
  RX_PENDING_MAX,
  TIMEOUT,      \* LAN9250_1588_RX_PENDING_TIMEOUT_MS in clock ticks
  HwDepth,      \* capture events the chip buffers
  FifoDepth,    \* frames the chip's receive FIFO holds
  Faults,       \* what may go wrong, see below
  None

\* SPI transfers may fail ("regs", "ack", "data"), a frame may land between the
\* two reads that look for one ("race"), and a sender may use a key again while
\* a capture of it is left ("reuse").
FaultKinds == {"regs", "ack", "data", "race", "reuse"}

ASSUME RxAssumption ==
  /\ RX_PENDING_MAX \in Nat \ {0} /\ TIMEOUT \in Nat \ {0}
  /\ HwDepth \in Nat \ {0} /\ FifoDepth \in Nat \ {0}
  /\ Faults \subseteq FaultKinds
  /\ None \notin Pkts \cup Keys

VARIABLES
  (* the chip *)
  rxfifo,        \* frames received and not read
  latent,        \* captures made and not yet visible in CAP_INFO
  captured,      \* captures visible in CAP_INFO, oldest first
  skewed,        \* the data FIFO's read pointer is not at a frame's start
  (* struct lan9250_runtime *)
  rx_pending,    \* slot -> [pkt, key, left], or None
  rx_unclaimed,  \* slot -> [key, gen, left], or None
  (* the packets *)
  refs,          \* reference counts
  frame,         \* ghost: the frame a packet carries while it is pending or
                 \* stamped, Plain in others
  stamp,         \* the capture attached, or None; None in a free one
  stack,         \* packets the network stack holds
  (* ghosts *)
  lost,          \* packets whose last pointer the driver dropped
  gen            \* the latest use of each key

chip    == <<rxfifo, latent, captured, skewed>>
matcher == <<rx_pending, rx_unclaimed>>
packets == <<refs, frame, stamp, stack, lost>>
vars    == <<chip, matcher, packets, gen>>

Slots   == 1 .. RX_PENDING_MAX
Unsure  == 2
Gens    == {0, 1, Unsure}
Capture == [key : Keys, gen : Gens]
Plain   == [kind |-> "plain"]
General == [kind |-> "general"]
Event(c) == [kind |-> "event", key |-> c.key, gen |-> c.gen]
Frames  == {Plain, General} \cup {Event(c) : c \in Capture}
Waiting == [pkt : Pkts, key : Keys, left : 0 .. TIMEOUT]
Stashed == [key : Keys, gen : Gens, left : 0 .. TIMEOUT]

ASSUME NoneIsNothing == None \notin Waiting \cup Stashed \cup Capture

TypeOK ==
  /\ rxfifo \in Seq(Frames) /\ Len(rxfifo) <= FifoDepth
  /\ latent \subseteq Capture
  /\ captured \in Seq(Capture) /\ Len(captured) <= HwDepth
  /\ skewed \in BOOLEAN
  /\ rx_pending \in [Slots -> Waiting \cup {None}]
  /\ rx_unclaimed \in [Slots -> Stashed \cup {None}]
  /\ refs \in [Pkts -> 0 .. 2]
  /\ frame \in [Pkts -> Frames]
  /\ stamp \in [Pkts -> Capture \cup {None}]
  /\ stack \subseteq Pkts /\ lost \subseteq Pkts
  /\ gen \in [Keys -> Gens]

Free == {p \in Pkts : refs[p] = 0}

----------------------------------------------------------------------------
(* The wire and the chip.                                                  *)

\* A sender uses a key again only after it restarted, which takes longer than
\* the timeout: its earlier frame was read and no longer waits.  That the chip
\* has no capture left from then cannot be said: captures stay there until a
\* PTP frame is checked, and only then get a deadline.
KeyQuiet(k) ==
  /\ \A i \in 1 .. Len(rxfifo) : rxfifo[i].kind = "event" => rxfifo[i].key # k
  /\ \A i \in Slots : rx_pending[i] # None /\ rx_pending[i].key = k
                        => rx_pending[i].left = 0 \/ frame[rx_pending[i].pkt].gen = Unsure

\* A capture of k that may still be matched is in the chip or was drained.
Lingers(k) ==
  \/ \E c \in latent : c.key = k
  \/ \E i \in 1 .. Len(captured) : captured[i].key = k
  \/ \E i \in Slots : rx_unclaimed[i] # None /\ rx_unclaimed[i].key = k /\ rx_unclaimed[i].left > 0

NextUse(k) ==
  [key |-> k, gen |-> IF Lingers(k) THEN Unsure ELSE IF gen[k] = 0 THEN 1 ELSE 0]

\* The chip captures an event message as it arrives.  (Bound: HwDepth
\* captures on their way, and of a key only one that is Unsure.)
Captures(c) ==
  /\ KeyQuiet(c.key) /\ c \notin latent /\ Cardinality(latent) < HwDepth
  /\ Lingers(c.key) => "reuse" \in Faults
  /\ gen' = [gen EXCEPT ![c.key] = c.gen]
  /\ latent' = latent \cup {c}

\* A frame without timestamp enters the FIFO.
Arrive(f) ==
  /\ Len(rxfifo) < FifoDepth
  /\ rxfifo' = Append(rxfifo, f)
  /\ UNCHANGED <<latent, captured, skewed, matcher, packets, gen>>

\* An event message enters the FIFO; a full one loses it.
ArriveEvent(k) ==
  /\ Captures(NextUse(k))
  /\ rxfifo' = IF Len(rxfifo) < FifoDepth THEN Append(rxfifo, Event(NextUse(k))) ELSE rxfifo
  /\ UNCHANGED <<captured, skewed, matcher, packets>>

\* A capture becomes visible, any time later, or finds the buffer full.
Capturing(c) ==
  /\ c \in latent
  /\ latent' = latent \ {c}
  /\ captured' = IF Len(captured) < HwDepth THEN Append(captured, c) ELSE captured
  /\ UNCHANGED <<rxfifo, skewed, matcher, packets, gen>>

----------------------------------------------------------------------------
(* lan9250_1588_rx_timestamp_check(), as functions of what it works on:    *)
(* s = [pend, uncl, hw, refs, stamp].  bank_lock is held throughout.       *)

First(S) == CHOOSE i \in S : \A j \in S : i <= j

\* The slot a new entry takes: a free one, or the oldest entry's.
FreeSlot(list) ==
  LET free == {i \in Slots : list[i] = None}
  IN  IF free # {} THEN First(free)
      ELSE First({i \in Slots : \A j \in Slots : list[i].left <= list[j].left})

net_pkt_unref(refcnt, ps) == [p \in Pkts |-> IF p \in ps THEN refcnt[p] - 1 ELSE refcnt[p]]

Expired(list) == {i \in Slots : list[i] # None /\ list[i].left = 0}

\* Mutant: nothing expires.
rx_pending_expireNever(s) == s

\* Mutant: the reference is dropped and the slot kept.
rx_pending_expireKeeps(s) ==
  [s EXCEPT !.refs = net_pkt_unref(@, {s.pend[i].pkt : i \in Expired(s.pend)}),
            !.uncl = [i \in Slots |-> IF i \in Expired(s.uncl) THEN None ELSE s.uncl[i]]]

rx_pending_expire(s) ==
  [s EXCEPT !.refs = net_pkt_unref(@, {s.pend[i].pkt : i \in Expired(s.pend)}),
            !.pend = [i \in Slots |-> IF i \in Expired(s.pend) THEN None ELSE s.pend[i]],
            !.uncl = [i \in Slots |-> IF i \in Expired(s.uncl) THEN None ELSE s.uncl[i]]]

Holding(list, k) == {i \in Slots : list[i] # None /\ list[i].key = k}

\* The frame's capture was read before the frame was.
Claim(s, p, k) ==
  LET i == First(Holding(s.uncl, k)) IN
  [s EXCEPT !.stamp[p] = [key |-> k, gen |-> s.uncl[i].gen], !.uncl[i] = None]

\* A capture is matched by key with an earlier packet.
MatchPending(s, e) ==
  LET i == First(Holding(s.pend, e.key)) IN
  [s EXCEPT !.stamp[s.pend[i].pkt] = e,
            !.refs = net_pkt_unref(@, {s.pend[i].pkt}),
            !.pend[i] = None]

Stash(s, e) ==
  [s EXCEPT !.uncl[FreeSlot(s.uncl)] = [key |-> e.key, gen |-> e.gen, left |-> TIMEOUT]]

\* Mutant: packets waiting for the capture are not looked at.
AttachBlind(s, p, f, e) ==
  IF f.kind = "event" /\ f.key = e.key THEN [s EXCEPT !.stamp[p] = e] ELSE Stash(s, e)

\* Mutant: the event read is taken to be this frame's, whatever its key.
AttachNewest(s, p, f, e) ==
  IF f.kind = "event" THEN [s EXCEPT !.stamp[p] = e]
  ELSE IF Holding(s.pend, e.key) # {} THEN MatchPending(s, e) ELSE Stash(s, e)

\* The event just drained belongs to this frame, an earlier one, or none yet.
Attach(s, p, f, e) ==
  CASE f.kind = "event" /\ f.key = e.key -> [s EXCEPT !.stamp[p] = e]
    [] OTHER -> IF Holding(s.pend, e.key) # {} THEN MatchPending(s, e) ELSE Stash(s, e)

\* Mutant: the evicted packet's reference is not dropped.
QueueKeepsRef(s, p, f) ==
  IF f.kind # "event" \/ s.stamp[p] # None THEN s
  ELSE [s EXCEPT !.refs[p] = @ + 1,
                 !.pend[FreeSlot(s.pend)] = [pkt |-> p, key |-> f.key, left |-> TIMEOUT]]

\* Label queue: an event frame without timestamp is kept, with a reference.
Queue(s, p, f) ==
  IF f.kind # "event" \/ s.stamp[p] # None THEN s
  ELSE LET i    == FreeSlot(s.pend)
           gone == IF s.pend[i] = None THEN {} ELSE {s.pend[i].pkt}
       IN  [s EXCEPT !.refs = [net_pkt_unref(s.refs, gone) EXCEPT ![p] = @ + 1],
                     !.pend[i] = [pkt |-> p, key |-> f.key, left |-> TIMEOUT]]

\* The outcomes: which register transfers fail is not the driver's to choose.
\* A failed acknowledgement leaves the event to be read again.
rx_timestamp_check(s0, p, f) ==
  LET s == rx_pending_expire(s0)
      claims == f.kind = "event" /\ Holding(s.uncl, f.key) # {}
      drained == {Tail(s.hw)} \cup (IF "ack" \in Faults THEN {s.hw} ELSE {})
  IN  IF claims THEN {Claim(s, p, f.key)}
      ELSE   (IF s.hw = <<>> \/ "regs" \in Faults THEN {Queue(s, p, f)} ELSE {})
        \cup (IF s.hw # <<>>
              THEN {Queue([Attach(s, p, f, Head(s.hw)) EXCEPT !.hw = hw], p, f) : hw \in drained}
              ELSE {})

----------------------------------------------------------------------------
(* lan9250_rx().                                                           *)

Working == [pend |-> rx_pending, uncl |-> rx_unclaimed, hw |-> captured,
            refs |-> refs, stamp |-> stamp]

KeepIn(S, content, blank) == [q \in Pkts |-> IF q \in S THEN content[q] ELSE blank]

\* s becomes the state, p (if not None) carrying frame f.  The content of a
\* packet is gone with its last reference.
Become(s, p, f) ==
  LET held  == {q \in Pkts : s.refs[q] # 0}
      shown == {q \in held : s.stamp[q] # None \/ \E i \in Slots : s.pend[i] # None /\ s.pend[i].pkt = q}
  IN  /\ rx_pending' = s.pend /\ rx_unclaimed' = s.uncl /\ captured' = s.hw
      /\ refs' = s.refs
      /\ stamp' = KeepIn(held, s.stamp, None)
      /\ frame' = KeepIn(shown, [q \in Pkts |-> IF q = p THEN f ELSE frame[q]], Plain)

\* What the driver may read and parse: out of step with the FIFO, anything.
Seen ==
  IF skewed THEN {Plain, General} \cup {Event([key |-> k, gen |-> Unsure]) : k \in Keys}
  ELSE {Head(rxfifo)}

\* RX_FIFO_INF says there is no frame, one lands, and the read that follows
\* takes its status: lan9250_rx() returns and leaves the frame's data.
LandsBetweenReads ==
  /\ rxfifo = <<>> /\ "race" \in Faults
  /\ skewed' = TRUE
  /\ \/ UNCHANGED <<latent, gen>>
     \/ \E k \in Keys : Captures(NextUse(k))
  /\ UNCHANGED <<rxfifo, captured, matcher, packets>>

\* The read of the status or of the first data word fails, with the status
\* gone: nothing was allocated yet.  (Failing before it has no effect.)
HeaderFails ==
  /\ rxfifo # <<>> /\ "data" \in Faults
  /\ rxfifo' = Tail(rxfifo)
  /\ skewed' = TRUE
  /\ UNCHANGED <<latent, captured, matcher, packets, gen>>

\* Mutant: the failure path only drains the frame.
NoBufferNoSweep ==
  /\ rxfifo # <<>> /\ Free = {}
  /\ rxfifo' = Tail(rxfifo)
  /\ skewed' \in IF "data" \in Faults THEN {skewed, TRUE} ELSE {skewed}
  /\ UNCHANGED <<latent, captured, matcher, packets, gen>>

\* No packet: sweep the expired entries, drain the frame and drop it.
NoBuffer ==
  /\ rxfifo # <<>> /\ Free = {}
  /\ rxfifo' = Tail(rxfifo)
  /\ skewed' \in IF "data" \in Faults THEN {skewed, TRUE} ELSE {skewed}
  /\ Become(rx_pending_expire(Working), None, Plain)
  /\ UNCHANGED <<latent, stack, lost, gen>>

\* net_pkt_rx_alloc_with_buffer() hands out a packet without a timestamp.
Allocated(p) == [Working EXCEPT !.refs[p] = 1, !.stamp[p] = None]

\* A data transfer fails: lan9250_rx() returns with the packet in hand.
ReadFails(p) ==
  /\ rxfifo # <<>> /\ p \in Free /\ "data" \in Faults
  /\ rxfifo' = Tail(rxfifo)
  /\ skewed' = TRUE
  /\ Become(Allocated(p), p, Plain)
  /\ lost' = lost \cup {p}
  /\ UNCHANGED <<latent, stack, gen>>

\* The frame is read, matched, and given to the stack, which may refuse it.
Receive(p) ==
  /\ rxfifo # <<>> /\ p \in Free
  /\ rxfifo' = Tail(rxfifo)
  /\ \E f \in Seen : \E s \in IF f.kind = "plain" THEN {Allocated(p)}
                            ELSE rx_timestamp_check(Allocated(p), p, f) :
       \/ Become(s, p, f) /\ stack' = stack \cup {p}
       \/ Become([s EXCEPT !.refs = net_pkt_unref(@, {p})], p, f) /\ UNCHANGED stack
  /\ UNCHANGED <<latent, skewed, lost, gen>>

----------------------------------------------------------------------------
\* The stack is done with a packet.
Consume(p) ==
  /\ p \in stack
  /\ stack' = stack \ {p}
  /\ Become([Working EXCEPT !.refs = net_pkt_unref(@, {p})], None, Plain)
  /\ UNCHANGED <<rxfifo, latent, skewed, lost, gen>>

\* Time passes for every deadline.
Elapse(list) ==
  [i \in Slots |-> IF list[i] = None \/ list[i].left = 0 THEN list[i]
                   ELSE [list[i] EXCEPT !.left = @ - 1]]

Tick ==
  /\ rx_pending' = Elapse(rx_pending) /\ rx_unclaimed' = Elapse(rx_unclaimed)
  /\ UNCHANGED <<chip, packets, gen>>

Init ==
  /\ rxfifo = <<>> /\ latent = {} /\ captured = <<>> /\ skewed = FALSE
  /\ rx_pending = [i \in Slots |-> None] /\ rx_unclaimed = [i \in Slots |-> None]
  /\ refs = [p \in Pkts |-> 0] /\ frame = [p \in Pkts |-> Plain]
  /\ stamp = [p \in Pkts |-> None] /\ stack = {} /\ lost = {}
  /\ gen = [k \in Keys |-> 0]

Driver == NoBuffer \/ HeaderFails \/ LandsBetweenReads \/ \E p \in Pkts : Receive(p) \/ ReadFails(p)
Wire   == \/ Arrive(Plain) \/ Arrive(General)
          \/ \E k \in Keys : ArriveEvent(k)
          \/ \E c \in Capture : Capturing(c)
Next   == Driver \/ Wire \/ Tick \/ \E p \in Pkts : Consume(p)

Spec == Init /\ [][Next]_vars

\* The receive thread and the stack run, and time passes.
Running == WF_vars(Driver) /\ WF_vars(Tick) /\ \A p \in Pkts : WF_vars(Consume(p))

\* The network never falls silent: PTP messages (a master's Announce and
\* Follow_Up) keep getting into the FIFO.
PtpTraffic == Spec /\ Running /\ SF_vars(Arrive(General))

----------------------------------------------------------------------------
(* Properties.                                                             *)

Pending(p) == \E i \in Slots : rx_pending[i] # None /\ rx_pending[i].pkt = p
One(b) == IF b THEN 1 ELSE 0

\* A packet's reference count is the number of its holders: the pending list,
\* the stack, and the call that failed with it in hand.  So no list keeps a
\* pointer to a packet that was given back to the pool (net_pkt_ref() and
\* net_pkt_unref() in expiry, match, eviction and refusal).
RefsBalanced ==
  \A p \in Pkts : refs[p] = One(Pending(p)) + One(p \in stack) + One(p \in lost)

\* A timestamp attached to a packet has the key of the frame it carries, and is
\* that very frame's capture, also when a sender has restarted and uses its
\* sequence numbers again while expired entries are still in the lists.  For
\* an Unsure frame only the key is certain: the comparison of messageType and
\* sequenceId cannot tell its capture from an earlier one left in the chip.
StampCorrect ==
  \A p \in Pkts : stamp[p] # None =>
    /\ frame[p].kind = "event" /\ frame[p].key = stamp[p].key
    /\ frame[p].gen = stamp[p].gen \/ frame[p].gen = Unsure

\* No packet waits for a capture that waits for its packet, neither of them
\* expired: the two lists never hold the two halves of one match.
NoMissedMatch ==
  \A i, j \in Slots :
    rx_pending[i] # None /\ rx_unclaimed[j] # None /\ rx_pending[i].key = rx_unclaimed[j].key
      => rx_pending[i].left = 0 \/ rx_unclaimed[j].left = 0

\* When the pool is exhausted it recovers: lan9250_rx() sweeps the pending
\* list on the path where no packet could be allocated.
PoolRecovers == (Free = {}) ~> (Free # {})

\* A packet in the pending list leaves it, matched, evicted or expired: "a
\* lost/dropped counterpart can't hold a net_pkt ref (rx_pending) ... forever".
PendingReleased == \A p \in Pkts : Pending(p) ~> ~Pending(p)
=============================================================================
