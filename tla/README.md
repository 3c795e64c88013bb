# Verification of RP2350-Zephyr-Stepper

TLA+ models of the stepper firmware in this repository, checked with TLC on
small instances. Every safety property the runs check is also proved with TLAPS
for all values of the constants; liveness is model-checked. `PROJECT.json`
lists the runs, the mutants that show each property can fail, the source lines
behind each definition, the hazards, the findings and the theorems.

## 1. Inventory

The RP2350 has two cores. core0 runs Zephyr: shells, network stack, Ethernet
driver. core1 runs a bare-metal image that generates step pulses. They talk
over the two SIO hardware FIFOs.

| Component | State | Operations | Interacts through |
|---|---|---|---|
| motion controller, `core1/core1_main.c` | struct `M` (state, limits, speed, remaining, stop_req), DIR pin | `feed_step`, `motion_start`, six commands | mailbox FIFOs; PIO TX FIFO |
| PIO program, `core1/stepper.pio` | output shift register | pull, pulse | PIO TX FIFO |
| protocol, `core1/mailbox_proto.h` | none | pack, unpack, opcodes | both sides |
| stepper shell, `src/stepper_shell.c` | `reply_sem`, `last_reply`, one call stack per shell thread | `stepper speed/accel/decel/move/movein/stop/status`, `mbox_cb` | mailbox FIFOs, receive interrupt |
| core1 launch, `src/core1_launch.c` | position in the launch sequence | reset, handshake | FIFOs, boot ROM |
| LAN9250 receive, `eth_lan9250.c` | `rx_pending`, `rx_unclaimed` | `lan9250_rx`, `rx_timestamp_check`, expiry | SPI, packet pool, network stack |
| LAN9250 MAC access | MAC_CSR pair, hash reference counts, carrier | register access, `set_config`, PHY interrupt | SPI; application threads and driver thread |
| LAN9250 transmit | `tx_rx_sem`, `bank_lock`, `buf` | `lan9250_tx`, `tx_timestamp_check` | SPI, senders, receive thread |
| LAN9250 interrupt loop | `int_sem`, INT_STS, INT_EN | GPIO callback, `lan9250_thread` | interrupt line; receive and link handling |
| LAN9250 PTP clock, 1PPS, PTP shell | clock registers, clock target | read, set, adjust, rate adjust, PPS arming | SPI; PTP stack, main, shells |
| network bring-up, `main.c`, `eth_id.c`, `mdns_service.c` | the refresh work item; Zephyr's DHCP client and multicast entries | event handler, forced rejoin, refresh | network events, IGMP, DHCP |
| upstream patch | Zephyr's own | `net_ipv4_igmp_resend_reports`, `ptp_get_port_sync_state` | called from the two above |
| bootloader shell, startup code, chip initialisation | none that outlives the call | see PROJECT.json | |

What is hard: core1 and the PIO run concurrently and a FIFO lies between them;
requests are several words long and replies share one semaphore; timestamps and
frames arrive in either order, are matched by a short key and expire; a packet
has several owners; several threads use one pair of indirect registers; a launch
may find words of an earlier life in the FIFOs; an egress capture can be late
and then belongs to an earlier frame; the interrupt line is edge-triggered; the
clock is one set of registers for several callers and keeps ticking; the link
bounces while DHCP, mDNS and main() are each half-way.

What makes each correct: steps are neither lost nor invented and rates stay in
range (motion); a command gets its own reply and returns (mailbox); a timestamp
is the frame's own and every packet is freed once (receive, transmit); the hash
filter is the set of joined groups (MAC); core1 starts from the right image
(launch); a read is one instant and a step is exact (clock); a board whose link
stays up gets an address and stays a member of its groups (bring-up).

## 2. Modules

    StepperMotion           core1's loop and the PIO
      StepperProtocol       words, opcodes, what core1 does and replies per request
        StepperService      abstract: a remote procedure call
        StepperSystem       shells, FIFOs, interrupt, core1 word by word;
                            implements StepperService
    RxTimestamp             receive path, packet pool, timestamp matching
    TxPath                  transmit path, egress timestamps, interrupt loop
    MacCsr                  indirect registers, multicast filter, link interrupt
    PtpClock                1588 clock, rate trim, 1PPS
    NetBringup              DHCP, mDNS rejoin and membership refresh over link changes
    Core1Launch             launch handshake with the boot ROM
    *Proofs                 the theorems about the module of that name
                            (StepperSystemProofs builds on StepperMotionProofs)
    MC*                     small instances for TLC

### StepperMotion

`state .. stop_req` are the fields of struct `M`; `dir`, `txf`, `osr` the DIR
pin, the PIO TX FIFO and the word the PIO is executing; `pc` the phase of the
main loop. `FeedPush`, `FeedHalt`, `FeedDone` are the branches of
`feed_step()` and the loop around it; `CmdSpeed .. CmdStop` the cases of
`handle_command()`; `NoCommand` an empty mailbox, CMD_STATUS or an unknown
opcode; `PioPull` and `PioPulse` the PIO program. `owed`, `detuned`, `halting`
and `overshoot` are history variables the program does not have, as is the
`dir` a queued step carries.

Speeds are represented by their squares. `next_speed()` computes
sqrt(v^2 -+ 2a) and compares speeds, so in squares it is linear and every
comparison keeps its meaning; the model is exact where the code rounds floats.
`MustBrake` multiplies out the division and the truncating cast
(`remaining <= (int32_t)(brake_steps + 1)`). NaN is a constant outside `Int`
that every comparison rejects. A negative input speed is a negative number.
Converting NaN to an unsigned word or to int32_t, undefined in C, gives 0 on
this core (Cortex-M33 VCVT), and `-INT32_MIN` wraps.

### StepperProtocol, StepperService, StepperSystem

A word is tagged with the type it was packed from, so that a float read as an
int (two shells interleaving) is a different value and not the same one:
`FloatBits` and `Denormal` stand for the values such a reinterpretation gives.

`StepperSystem` has one process per shell thread (`cpc`, `todo`): opcode,
payload, wait for the semaphore, read `last_reply`. `ReceiveIsr` is the mailbox
driver's interrupt with `mbox_cb()`: one word is delivered and the rest of the
FIFO is drained, as `mailbox_proto.h` describes (the driver is Zephyr's).
core1's handler is split where it can block: `ReadOpcode`, `ReadPayload`,
`WriteReply`. A send into a full FIFO is lost or reported as an error.
`Timeout` fires when nothing is under way that would answer: core1 answers a
complete request within microseconds and the limit is one second.

`StepperService` is what the mailbox is for: ask, serve atomically, return. The
refinement mapping regards a request as asked once its opcode is out, and as
answered from the step in which core1 performs it.

### RxTimestamp

`rxfifo`, `latent`, `captured` and `skewed` are the chip: frames not yet read,
captures not yet visible, captures in CAP_INFO, and whether a failed transfer
left the data FIFO out of step with the frames. `rx_pending` and `rx_unclaimed`
are the driver's lists with the time `left` to each deadline; `refs` the
reference counts. `Receive`, `NoBuffer`, `HeaderFails`, `ReadFails` and
`LandsBetweenReads` are the ways through `lan9250_rx()`. The last is a frame
that arrives after RX_FIFO_INF was read as empty: its status is popped by the
read of RX_STATUS_FIFO that follows and its data stay in the FIFO. Out of step
(`skewed`) the driver reads and parses whatever bytes come, so `Seen` lets it
take them for any frame. `rx_timestamp_check` returns the set of outcomes, one
for each way the register transfers can fail. It holds `bank_lock` throughout,
so it is one step.

A key stands for (messageType, sequenceId). The ghost `gen` separates two uses
of a key. `KeyQuiet` says when a sender comes back to a key: only after a
restart, which takes longer than the timeout, so that its old frame was read
and no longer waits (but may not have been swept). Of captures that cannot be
said. They have no deadline in the chip; a PTP frame drains one into
`rx_unclaimed` with a fresh deadline, however old it is. So when a use begins
while a capture of the key may still be matched (`Lingers`), both its frame and
its capture are `Unsure`: StampCorrect then claims the key only, as it does for
a frame read out of step. An entry of `rx_unclaimed` that has expired does not
count as lingering, as each check sweeps before it looks. Two senders with
equal keys at the same time are a gap the code itself names (lines 1826-1833).

### MacCsr

A MAC access is data, command, wait, read, each an SPI transfer and a step
(`WaitReady .. ReadData`); a PHY access is four MAC accesses. `hash_lock`
protects the joins and leaves of application threads; `lan9250_thread()` does
not take it. The driver's thread is cooperative: the others run only while it
is idle or asleep in `lan9250_wait_mac_ready()`. (Were SPI transfers to block,
more interleavings would exist.) The link may change at any moment. The ghost
`clash` records that the driver's thread used the register pair in the middle
of a join or leave. A 32-bit register is the set of its 1 bits. Failing transfers, time limits and the CRC
behind `hash_bit` are left out.

### TxPath

`wire`, `cap`, `skewed`, `bank`, `rxfifo`, `sts`, `int_en` are the chip: event
frames not yet sent, captures in CAP_INFO, whether a frame was written in part,
the selected 1588 bank, received frames, INT_STS and INT_EN. `pc[s]` is a
sender's place in `lan9250_tx()` and, from `select` to `out`, in
`lan9250_1588_tx_timestamp_check()`; `tpc` the thread's in `lan9250_thread()`
and, from `rx` to `give`, in `lan9250_rx()`, where the count (`ReadCount`) and
the status are read in two transfers: a frame that lands between them when the
count was 0 loses its status in `RxNothing`. Zephyr calls a driver's send with
the interface's transmit lock held (`tx_lock`, external). `TxFails`,
`CheckFails` and `RxFails` are the error returns of the three functions.

An event frame or its capture is known by its age, the number of event frames
handed to the driver after it. The driver compares (messageType, sequenceId),
so it cannot tell age `SeqMod` from age 0; a second message type only makes the
comparison stricter. That is one counter, the PTP stack's. The shell's
`ptp txtest` numbers its Syncs by another (ptp_shell.c:187, 209), so its frame
could have the number of a Sync of the stack whose capture is late; it is not a
sender here. The acknowledgement of RSFL leaves it set while the FIFO
holds a frame, because the chip's condition is a level (status FIFO above
FIFO_INT's receive status level, 0). Without that, one frame is read per edge
and the rest would wait for the next arrival.

Left out: failing transfers of INT_EN and INT_STS, and what a received frame is
or how far the data FIFO is out of step (RxTimestamp).

### PtpClock

`clock` is the running clock, `CLOCK_SEC` and `CLOCK_NS` the register pair,
`TARGET_*` Clock Target A. Every SPI transfer of `lan9250_ptp_clock_read()`,
`_set()`, `_adjust()` and `lan9250_1588_pps_enable()` is a step of the calling
thread, which may fail and return; setting up pin and channel is one
(`SetUp`: nothing else touches those registers). `adjusted` is the arithmetic
of `_adjust()` with C's division. `touched` and `age` are ghosts: whether
another call used the pair in the meantime, and the ticks since the snapshot;
`stepped` is set by a load and by arming from registers that another call wrote.
The rate's effect on the length of a tick is not modelled.

### NetBringup

Actors: main() (`Register`, `start_dhcpv4_client`), the network management
thread that runs `handler()` (`Deliver`, `restart`, `drain`, `rejoin`,
`multicast_membership_refresh_start`), the work item (`refresh_handler`), the
driver's thread (`lan9250_thread`), the link, DHCP, the PTP transport and the
switch. The PHY latches link changes in `source`; the driver reads them and
switches the carrier, LINK_UP before LINK_DOWN. Only a carrier that was off
raises IF_UP, so a link that went down and up between two reads raises none,
and one that came up and went down leaves the carrier on, so that the next up
raises none either: the ghost `missed`. `drain` ends on any error of a leave,
with the group gone or not (`undrained`: still joined). Zephyr and the switch are
external and follow what the comments in `eth_id.c` and `main.c` report of
them: joins are counted always and reported once, a report without a link is
lost although it "succeeds", a client may be left without an address after a
link loss, an entry ages out without a querier. The mDNS responder's own join on IF_UP is part of
`Deliver`. An event queue that overflows is not modelled.

### Core1Launch

`ForceOff .. Answer` follow `core1_reset()` and `core1_launch()`; `Rom*` are
the boot ROM, modelled from the protocol the code speaks. Init has any words
of an earlier run in both FIFOs, up to the bounds.

## 3. Runs

| Run | Result | Shows |
|---|---|---|
| `motion` | holds | TypeOK, StepAccounting, RateLimits, BrakeBound, StopBound, MoveTerminates, Settles |
| `motion_direction` | violated | queued steps of a finished move are pulsed with the next move's DIR |
| `system_one_shell` | holds | one shell: the mailbox is a remote procedure call; commands return; core1 never waits long |
| `system_two_return` | holds | two shells: none hangs |
| `system_two_reply` | violated | two shells: one takes the other's reply |
| `rx_safety` | holds | references balanced, stamps correct, no missed match; with eviction, SPI faults, the window between two reads, and keys used again |
| `rx_live` | holds | the pool recovers, pending packets are released under PTP traffic |
| `tx` | holds | buffer and banks stay the sender's, stamps are its own, a time transmitter gets rid of late captures, sends return, no interrupt is lost |
| `mac_csr` | holds | the filter is the set of joined groups, until a PHY read collides with a join; a link that is up has its carrier |
| `ptp_clock` | holds | undisturbed reads are one instant, undisturbed sets and steps exact, 1PPS goes on |
| `bringup` | holds | the mDNS group is reported on the present link; address and memberships return and stay; excepted are failed joins and leaves and a link change without IF_UP |
| `launch` | holds | core1 starts only from the right image; no word is left over; the launch returns |

Bounds, and why they suffice:

- `motion`: TxDepth 2 (full, partly full and empty occur; the theorems cover
  every depth), speeds below, inside and above the range, an acceleration below
  both defaults and an invalid one that restores them, moves of -3, 0 and 4
  steps, which include a triangle profile. INT_MIN is -8. `motion_direction`
  uses the real depth, 4.
- `system_*`: MaxCommands commands per shell (3 with one shell, 2 with two).
  MboxDepth is the hardware's 4. Two shells with up to six words in transit
  reach the full FIFO, the unknown opcode and the timeout. Deadlock checking is
  off in `system_two_return` only: core1 may stop in `fifo_read_blocking()`
  when all commands have been typed, which is the case the run is about.
- `rx_*`: two packets, two keys. `rx_safety` has lists of one entry, so that
  the oldest is evicted, two frames in the chip's FIFO, one capture visible and
  one on its way to it, and everything in `FaultKinds`; `rx_live` lists of two,
  which can hold the whole pool and have more than one candidate slot, and no
  faults or lingering captures, with which liveness has nothing to do. TIMEOUT
  1 is "has expired or not". A key has two generations and Unsure; of a key
  only one capture on its way is Unsure. The theorems have any depth.
- `mac_csr`: two threads, three groups of which two share a bit, bits in both
  registers. The two threads, and the two groups that share a bit, are
  interchangeable (symmetry).
- `tx`: a sender of PTP frames and one of others, one frame and one capture in
  the chip, two received frames (so that one can be behind the edge of the
  other), two polls, one fault: the smallest instance in which a capture is
  late, another frame reads it, and the semaphore is kept by a failed call. A
  fault is a failed transfer, a late capture, or a frame in the window of
  `RxNothing`. SeqMod 3 is the least that keeps frames in the chip apart.
  The theorems cover all depths and any number of senders.
- `ptp_clock`: 2 nanoseconds in a second, 4 seconds to the wrap, a second
  beyond it to set, steps of more than a second of both signs, a rate in and
  one out of range; a call lasts up to a second (Latency 2), the most for which
  "a couple of seconds in the future" is meant to suffice.
- `bringup`: up to three pending events, four counted joins, two failed
  reports or leaves: link losses before, during and after the handler and the
  rejoin, any number of changes between two reads of the PHY.
  Deadlock checking is off: a board whose link stays down has nothing to do.
- `launch`: both FIFOs hold any number of old words up to the hardware's depth, 4.

Fairness. core1 is a busy loop and the PIO a clocked machine (WF of each).
Interrupts are served and runnable threads run (WF of `ReceiveIsr` and of each
shell). Users need not type. In `RxTimestamp` the driver thread, the stack and
the clock make progress; `PtpTraffic` (SF: general PTP messages keep entering
the FIFO) is what a PTP network with a master gives through Announce and
Follow_Up. `mac_csr` and `ptp_clock` check
safety only. In `TxPath` the threads run and the chip sends; whoever waits for
`bank_lock` gets it (SF of some sender's `LockBank`, and of `RxCheck` or
`Sweep`), because k_mutex_unlock() hands the mutex to a waiter and only one
sender has the interface; faults are bounded, so the window between two reads
does not take every frame; frames keep arriving and not all
of them fail for lack of a packet (SF of `RxFrame`, which is what PoolRecovers
shows of the receive path); general messages keep being sent (SF of `Send`),
which is what makes the port a time transmitter and is needed for Realigns
alone. In `NetBringup` the threads (the driver's too) run, the timer expires, a DHCP server
answers and the PTP transport joins while there is a link; about the link
itself nothing is assumed except in the properties, which speak of a link that
stays up. In `Core1Launch` both cores run. `Launches` is claimed when core0's FIFO
starts empty. With old answers in it core0 leaves `core1_reset()` early, and
each restart of the sequence drains the FIFO and can be overtaken by the answer
to the word before: no fairness of the two cores excludes that this repeats.

## 4. Proofs

Each theorem holds for every value of the constants that satisfies the ASSUMEs
of the component's module, and the hypotheses it states itself. The ASSUMEs say
that bounds are positive, tables have their domain, and None and NaN are not
among the values they stand beside. In each module the argument is the same: an
invariant `IInv` (the names differ) holds initially, every action keeps it, and
it implies the property. The invariants of Core1Launch, PtpClock and MacCsr were
also checked by TLC on small instances.
What follows is why the properties alone are not inductive.

**StepperMotionProofs.**

- `TypeCorrect`: TypeOK.
- `StepsAccounted`: StepAccounting, if no move asks for INT32_MIN steps. The
  invariant `AccountingInv` adds that `remaining` is not negative during a move
  (or FeedHalt would leave a debt).
- `StopsWithinFifo`: StopBound. `StopInv` adds that during a halt core1 is idle
  or has `stop_req` set, so nothing more is pushed.
- `BrakesInTime` and `RateWithinLimits`: BrakeBound and RateLimits, if no
  setting is NaN. `ProfileInv` keeps the settings within their clamps, the
  speed between the minimum and the absolute maximum during a move, every
  queued word between the words of these two rates, and the excess of the speed
  below what the remaining steps can shed plus one acceleration. The rate part
  rests on the lemma that `hz_to_half_period` is antitone (a subset of a
  finite set has at most its cardinality).

The hypotheses about NaN and INT32_MIN are needed: section 5 has the first; a
move of INT32_MIN steps makes `motion_start()` store a negative `remaining`,
`feed_step()` ends it at once, and the shell has reported "moving"
(stepper_shell.c:177).

**StepperSystemProofs**, for one shell (`Clients = {u}`) and `MboxDepth >= 2`.
With two shells OwnReply is false (`system_two_reply`); with one word of depth a
payload sent before core1 has taken the opcode is lost. The hardware has four.

- `SystemTypeCorrect`, `AlwaysResponsive`, `NeverStarved`, `RepliesAreOwn`:
  SysTypeOK, Responsive, ShortWait, OwnReply. `SysInv` lists, for each place of
  the shell in its round trip, where the words of its one request can be: sent,
  half read, being served, replied, stored. Everything else in the mailbox is
  empty, which is why no reply can be foreign or stale and the timeout never
  strikes.
- `MailboxIsRpc`: ImplementsService, the refinement of StepperService. Initial
  states map to initial states. Under `SysInv` the mapping's value at each stage
  is `StageMap`; `SendOpcode` is the call, the step in which
  core1 performs the request is the service step, `ReadReply` the return, and
  all others stutter.
- `StopsWithinFifoByMail`, `StepsAccountedByMail`, `ProfileByMail`: what is
  proved of core1 alone holds when the shell drives it. `MotionStep` shows that
  a step of the system is a step of StepperMotion or leaves it alone, as what
  core1 unpacks is what a shell packed.

**RxTimestampProofs**, for any packets, keys, slots, timeout, depths and faults.

- `TypeCorrect`, `RefsAlwaysBalanced`, `StampsAreCorrect`, `NeverMissed`: TypeOK,
  RefsBalanced, StampCorrect, NoMissedMatch. The invariant is stated of a
  working record, and each stage of `rx_timestamp_check` (sweep, claim, drain,
  match, stash, queue, evict) is shown to keep it, so that the proof follows the
  function. It adds: a packet is in at most one slot; an unexpired entry, and
  every capture and frame in the chip, belongs to the current use of its key,
  unless that use, or the waiting frame, is Unsure; a forgotten packet does not
  wait. `KeyQuiet` and `Lingers` enter where a key is used again: without a
  lingering capture everything old under the key has expired, so the new use
  starts clean; with one it is Unsure and the invariant asks no more of it.

**Core1LaunchProofs**, for any FIFO depth and any old words.

- `TypeCorrect`, `StartsImageOnly`, `LaunchLeavesNothing`: TypeOK, StartsImage,
  NothingLeft. core0 can mistake an old word for core1's greeting and is then
  one answer ahead. The invariant (six stretches, `Resetting` to `Launched`)
  says what is under way between the cores: at most one word ahead before words
  1 to 3, nothing before words 4 to 6. The answer to the "1" tells the two
  apart.

**TxPathProofs**, for any senders, frame kinds and depths (`TxAssumption`:
sequence numbers do not repeat within the chip).

- `TypeCorrect`: TypeOK, which contains that no queue exceeds its depth and
  that `int_sem` never counts more than one edge. The invariant adds
  `RoomKept` (an event frame was accepted with room for it), `CountKept` (a
  frame that was counted is there when its status is read) and `EdgesCounted`:
  while the thread waits, `int_sem` is 1 exactly if the line is active; while
  it works, interrupts are masked and no edge is pending.
- `NeverDisturbed`: Undisturbed. `tx_rx_sem` cannot be the reason, as received
  frames raise it without limit. The invariant `Locks` says what is: only the
  holder of the interface's lock is in `lan9250_tx()`, whoever is in the check
  holds `bank_lock`, the bank selected is the one the next transfer is about,
  and only the sender itself takes a capture away.
- `StampsAreOwn`: StampOwn, if `SeqMod >= WireDepth + CapDepth + MaxFaults`. The
  driver compares sequence numbers, so a capture that waits for 2^16 event
  frames would be taken for the present one's. `StampInv` shows what that takes:
  an event frame makes everything in the chip one older, and its check removes
  a capture, finds the chip empty, or fails; so age plus place in the queues
  stays below the depths plus the number of failures. With 2^16 numbers the
  hypothesis allows about 65 000 failed transfers (of senders or the receiver),
  late captures and frames lost between two reads.

**MacCsrProofs**, for any threads, groups and hash bits.

- `TypeCorrect`, `CarrierFollowsLink`: TypeOK, CarrierWhenUp. `LinkRead` says
  where the PHY's interrupt source is on its way from the latch through
  MII_DATA and MAC_CSR_DATA to `tmp`. An application thread may overwrite the
  pair's data only while the driver's thread is idle or asleep, which the
  invariant shows is never between its command and its read.
- `FilterFollowsGroups`: FilterMatches, for at most 255 groups, because a
  reference count is a byte (256 groups of one bit would count 0). `Holder` and
  `Progress` say how far the one thread in `set_config()` is with its two
  words, `DriverCommand` and `AppCommand` whose command the chip executes, and
  `Counted` that a count is the number of joined groups of its bit.

**PtpClockProofs**, for any threads, second length and counter width, with
`Latency <= NSEC` (a call lasts at most a second).

- `TypeCorrect`, `ReadsAreConsistent`, `LoadsAreExact`: TypeOK, ReadConsistent,
  LoadExact. For each thread between two transfers `ReadHalf` and `WriteHalf`
  relate its locals and the registers to the clock now minus the age of its
  snapshot, as long as nobody else used the pair. That `adjusted` is exact rests
  on lemmas about remainders (`DivMod`, `ModUnique`, `ModPlus`, `SecondsWrap`,
  `AdjustExact`), which cover carry, borrow and wrap of the counter.
- `PulsesForever`: PulsesSustained. Another thread's snapshot may fall between
  the two reads of `pps_enable()`; `NearBy` says the seconds read are still
  those of a moment of this call, so the target two seconds on is ahead when it
  is written, and `NextPulse` that it is reached in time.

**NetBringupProofs** proves `RejoinAlwaysReports`, RejoinReports, for every bound on
events, joins and faults. The invariant `Owed` is the reason: a bound board with a
link, whose mDNS group is marked joined without a report on this link, has an up
for the driver to read, an event to handle or is handling one, or is excused;
`Registered` says that such an event is not delivered past the handler,
`Counted` that a drained group is not joined.

Only model-checked: the liveness properties (MoveTerminates, Settles,
CommandsReturn, PoolRecovers, PendingReleased, Realigns, SendsReturn,
FramesServed, Launches, StaysReachable, BoundAgain), because liveness under
fairness and ENABLED are outside what the prover handles; and that
`hz_to_half_period` and the profile compute the code's numbers up to rounding,
which is a matter of modelling and no theorem.

## 5. Differences met between text and code

Two are runs (section 3) and findings in PROJECT.json. The others follow
from the same models, as the exceptions their properties name:

- NaN. core1_main.c:33 gives a limit of 160000 steps per second, but the clamp
  of CMD_SPEED consists of two comparisons (lines 295-299), both false for NaN,
  which strtof() accepts in the shell. `max_speed` becomes NaN and
  `hz_to_half_period()` gives the word 0, which stepper.pio:17 calls
  "~25.0 MHz  (not useful)". With NaN among the Speeds of `motion`, RateLimits
  fails.
- "Entries nobody ever claims - on either side - expire" (eth_lan9250.c:1822):
  the sweep runs only when a PTP frame is checked or an allocation fails. With
  other traffic that leaves a packet free an entry is kept for ever, hence the
  PTP traffic in the fairness of `rx_live`.
- `hash_lock` does not cover the other user of MAC_CSR_DATA and MAC_CSR_CMD.
  `lan9250_thread()` reads the PHY through the same pair; between the data and
  the command write of a join it replaces the data, and a wrong word goes to
  the hash register, although "a bit can only be cleared in hardware once every
  group that mapped to it has been left" (eth_lan9250_priv.h:601). FilterMatches
  excepts what follows such a `clash`.
- A late egress capture, or one whose acknowledgement failed, makes each event
  frame read its predecessor's capture. It gets no wrong stamp (StampOwn), but
  none. A general message ends this (Realigns); a time receiver sends only
  Delay_Req, which are event messages, and stays in it.
- "so they can be read back consistently" (eth_lan9250.c:1333) and "trivially
  correct for any increment_ns value" (1393): true for a call that has the
  registers for itself (ReadConsistent, LoadExact). A `ptp clock` in the shell
  during a servo step replaces the words about to be loaded by a snapshot, and
  the step is lost.
- "the pulse train self-sustains forever once armed" (1526): until the clock is
  loaded with a time past the target, which is then reached only at the wrap.
  PulsesSustained excepts a loaded clock, and arming while another call writes
  CLOCK_SEC or CLOCK_NS, after which the target is computed from what that call
  wrote, whether or not it went on to load it.
- A stamp may be of a sender's former life. Deadlines keep entries of the lists
  from meeting a restarted sender's frames, but a capture still in the chip
  (drained by PTP frames alone, one each) has none, and gets 2 s from the
  moment it is drained (eth_lan9250.c:2008). The sender's new frame with the
  same messageType and sequenceId claims it. StampCorrect excepts the frames
  for which this can happen (Unsure). The comment at 1826-1833 names the same
  comparison as not enough for two senders.
- lan9250_rx() pops RX_STATUS_FIFO (717) before it looks at the count it read
  before (723). A frame that lands in between is lost, and so is the alignment
  of the data FIFO, for good: the effect the comment at 731-739 describes of an
  earlier fault. RefsBalanced, NoMissedMatch and the key in StampCorrect hold
  in spite of it.
- "Restart DHCP fresh on every link-up transition" (main.c:46): on every
  transition the driver sees. With both bits latched, lan9250_thread()
  (eth_lan9250.c:957-971) repeats net_eth_carrier_on(), which raises no IF_UP:
  DHCP is not restarted and nothing is rejoined until the refresh. The
  exceptions `missed` in RejoinReports, StaysReachable and BoundAgain.
- "leave() in a loop until the address is actually gone, i.e. -ENOENT"
  (eth_id.c:43-44): the loop ends on any error (line 49). If a leave cannot be
  sent the join after it may find the group still joined and send nothing; the
  refresh makes up for it. RejoinReports excepts it (`undrained`).
- A forced rejoin whose report fails (eth_id.c:55) leaves the group counted and
  not joined. The refresh reports joined groups only and nothing retries, until
  the next link-up: the exception in RejoinReports and StaysReachable.
- A failed restore of INT_EN (eth_lan9250.c:980) leaves the interrupts masked;
  no code path notices.

- "will halt after current step" (stepper_shell.c:210): a stop only keeps new
  words from being pushed; up to a FIFO of steps follows. StopBound is the
  bound that holds.
- "reaches MIN_SPEED_HZ on the last step with no overshoot"
  (THEORY_OF_OPERATION.md:269-271): the brake test uses the speed before a step
  of acceleration; with accel # decel the last step is faster. BrakeBound is
  the bound that holds.
- "read with a short blocking wait since core0 always sends them back-to-back"
  (core1_main.c:265-266): true with one shell (ShortWait), not with two.
- "Every call ... also drains one CAP_INFO event" (eth_lan9250.c:1804-1806): a
  frame that claims its capture from `rx_unclaimed` does not.
- THEORY_OF_OPERATION.md gives 4 for RX_PENDING_MAX; the code has 16.

## 6. Not modelled, and the plan

Not modelled, and why:

- float rounding, and the rate trim's effect on the clock: below what the
  properties tell apart;
- PIO cycle timing: the PIO is a step per instruction group, its delays are not;
- parsing and printing in the shells, hostname and MAC address: conversions
  without a state;
- initialisation of the chip: a straight line of register writes before
  anything else runs;
- startup code, vector table, bootloader shell: no state beyond the call;
- `ptp txtest` and `ptp rxdrop`: a sender with a sequence counter of its own
  (section 2, TxPath), and one register read;
- `ptp_multicast_rejoin()`: nothing calls it (main.c:79-88 says why);
- failing transfers in MacCsr and of the interrupt loop's own registers;
- the CRC of `mcast_hash_bit()`: MacCsr takes the bit of a group as given;
- Zephyr itself, and the PTP port state machine that the upstream patch
  corrects, whose source is not in the repository.

Order of work: (1) motion controller with proofs, (2) mailbox with refinement,
(3) receive path, (4) MAC access, (5) launch, (6) transmit path and interrupt
loop with proofs, (7) clock, (8) network bring-up with proof, (9) proofs of the
safety properties of 2 to 7: done. Next: a type invariant and the counting of
memberships for NetBringup, how many commands two shells can lose (what of
SysTypeOK holds for any set of shells), and lemmas that the abstract
StepperService keeps (a request is served once).
