------------------------- MODULE RxTimestampProofs -------------------------
(***************************************************************************)
(* Proofs about the receive path, for every number of packets, keys and    *)
(* slots, every timeout, every FIFO depth and every set of failing         *)
(* transfers.                                                              *)
(***************************************************************************)
EXTENDS RxTimestamp, SequenceTheorems, WellFoundedInduction, TLAPS

----------------------------------------------------------------------------
(* The inductive invariant, stated of a working record s = [pend, uncl,    *)
(* hw, refs, stamp] so that the stages of rx_timestamp_check() can be      *)
(* followed one by one.  fr are the frames the packets carry and held the  *)
(* references to a packet outside the pending list.                        *)

WorkType(s) ==
  /\ DOMAIN s = {"pend", "uncl", "hw", "refs", "stamp"}
  /\ s.pend \in [Slots -> Waiting \cup {None}]
  /\ s.uncl \in [Slots -> Stashed \cup {None}]
  /\ s.hw \in Seq(Capture)
  /\ s.refs \in [Pkts -> Int]
  /\ s.stamp \in [Pkts -> Capture \cup {None}]

\* The use of key k that is under way, and one that cannot be told from others.
Current(k)  == [key |-> k, gen |-> gen[k]]
Doubtful(k) == [key |-> k, gen |-> Unsure]

\* A capture is of the use under way, unless that one is itself Unsure.
Counts(c) == c.gen = gen[c.key] \/ gen[c.key] = Unsure

In(s, q) == \E i \in Slots : s.pend[i] # None /\ s.pend[i].pkt = q

\* No packet is in two slots.
OnceEach(s) ==
  \A i, j \in Slots :
    s.pend[i] # None /\ s.pend[j] # None /\ s.pend[i].pkt = s.pend[j].pkt => i = j

\* A packet still waiting carries the current event of its key or an Unsure one;
\* one the driver has forgotten does not wait.
WaitsForCurrent(s, fr) ==
  \A i \in Slots : s.pend[i] # None =>
    /\ s.pend[i].left > 0
         => fr[s.pend[i].pkt] \in {Event(Current(s.pend[i].key)), Event(Doubtful(s.pend[i].key))}
    /\ s.pend[i].pkt \notin lost

\* The captures that may still be matched count for the current event.
CapturesCurrent(s) ==
  /\ \A i \in Slots : s.uncl[i] # None /\ s.uncl[i].left > 0 => Counts(s.uncl[i])
  /\ \A i \in 1 .. Len(s.hw) : Counts(s.hw[i])

Counted(s, held) == \A q \in Pkts : s.refs[q] = One(In(s, q)) + held[q]

StampsMatch(s, fr) ==
  \A q \in Pkts : s.stamp[q] # None => fr[q] \in {Event(s.stamp[q]), Event(Doubtful(s.stamp[q].key))}

NoneMissed(s) ==
  \A i, j \in Slots :
    s.pend[i] # None /\ s.uncl[j] # None /\ s.pend[i].key = s.uncl[j].key
      => s.pend[i].left = 0 \/ s.uncl[j].left = 0

Good(s, fr, held) ==
  /\ WorkType(s)
  /\ held \in [Pkts -> Int]
  /\ Len(s.hw) <= HwDepth
  /\ OnceEach(s)
  /\ WaitsForCurrent(s, fr)
  /\ CapturesCurrent(s)
  /\ Counted(s, held)
  /\ StampsMatch(s, fr)
  /\ NoneMissed(s)

\* Right after the sweep no entry has expired.
Fresh(s) ==
  \A i \in Slots : /\ s.pend[i] # None => s.pend[i].left > 0
                   /\ s.uncl[i] # None => s.uncl[i].left > 0

\* References held by the stack and by calls that failed.
Held == [q \in Pkts |-> One(q \in stack) + One(q \in lost)]

\* What the chip still has to deliver belongs to the current events.
ChipCurrent ==
  /\ \A i \in 1 .. Len(rxfifo) :
       rxfifo[i].kind = "event" => rxfifo[i] = Event(Current(rxfifo[i].key))
  /\ \A c \in latent : Counts(c)

IInv ==
  /\ TypeOK
  /\ ChipCurrent
  /\ stack \cap lost = {}
  /\ Good(Working, frame, Held)
----------------------------------------------------------------------------
(* The operators on slots.                                                 *)

\* A non-empty set of numbers has a least one.
LEMMA LeastExists ==
  ASSUME NEW T, T \subseteq Nat, T # {}
  PROVE  \E x \in T : \A y \in T : x <= y
<1> DEFINE R == OpToRel(<, Nat)
<1>1. IsWellFoundedOn(R, Nat)
  BY NatLessThanWellFounded
<1> HIDE DEF R
<1>2. PICK x \in T : \A y \in T : ~(<<y, x>> \in R)
  BY <1>1, WFMin
<1>3. ASSUME NEW y \in T PROVE x <= y
  <2>1. x \in Nat /\ y \in Nat
    OBVIOUS
  <2>2. y < x => <<y, x>> \in R
    BY <2>1 DEF OpToRel, R
  <2> QED
    BY <1>2, <2>1, <2>2
<1> QED
  BY <1>3

\* The first slot of a set is in it.
LEMMA FirstIsIn ==
  ASSUME NEW T, T \subseteq Slots, T # {}
  PROVE  First(T) \in T
<1>1. T \subseteq Nat
  BY RxAssumption DEF Slots
<1>2. \E i \in T : \A j \in T : i <= j
  BY <1>1, LeastExists
<1> QED
  BY <1>2 DEF First

\* A new entry always finds a slot.
LEMMA FreeSlotIsSlot ==
  ASSUME NEW list \in [Slots -> Waiting \cup {None}] \cup [Slots -> Stashed \cup {None}]
  PROVE  FreeSlot(list) \in Slots
<1> DEFINE free == {i \in Slots : list[i] = None}
<1> DEFINE oldest == {i \in Slots : \A j \in Slots : list[i].left <= list[j].left}
<1>1. CASE free # {}
  <2>1. First(free) \in free
    BY <1>1, FirstIsIn
  <2> QED
    BY <1>1, <2>1 DEF FreeSlot
<1>2. CASE free = {}
  <2>1. \A i \in Slots : list[i] \in Waiting \cup Stashed
    BY <1>2
  <2>2. \A i \in Slots : list[i].left \in Nat
    BY <2>1, RxAssumption DEF Waiting, Stashed
  <2> DEFINE lefts == {list[i].left : i \in Slots}
  <2>3. 1 \in Slots
    BY RxAssumption DEF Slots
  <2>4. lefts # {} /\ lefts \subseteq Nat
    BY <2>2, <2>3
  <2>5. \E x \in lefts : \A y \in lefts : x <= y
    BY <2>4, LeastExists
  <2>6. oldest # {}
    BY <2>5
  <2>7. First(oldest) \in oldest
    BY <2>6, FirstIsIn
  <2> QED
    BY <1>2, <2>7 DEF FreeSlot
<1> QED
  BY <1>1, <1>2

\* The first slot that holds a key is a slot that holds it.
LEMMA HoldingFirst ==
  ASSUME NEW list, NEW k, Holding(list, k) # {}
  PROVE  /\ First(Holding(list, k)) \in Slots
         /\ list[First(Holding(list, k))] # None
         /\ list[First(Holding(list, k))].key = k
<1>1. Holding(list, k) \subseteq Slots
  BY DEF Holding
<1>2. First(Holding(list, k)) \in Holding(list, k)
  BY <1>1, FirstIsIn
<1> QED
  BY <1>2 DEF Holding
----------------------------------------------------------------------------
(* The stages of rx_timestamp_check() keep a working record good.          *)

\* The sweep drops the reference of each expired packet once, and leaves only
\* entries that have not expired.
LEMMA ExpireGood ==
  ASSUME NEW s, NEW fr, NEW held, Good(s, fr, held)
  PROVE  /\ Good(rx_pending_expire(s), fr, held)
         /\ Fresh(rx_pending_expire(s))
         /\ rx_pending_expire(s).stamp = s.stamp
         /\ \A q \in Pkts : In(rx_pending_expire(s), q) => In(s, q)
<1> DEFINE t == rx_pending_expire(s)
<1> DEFINE gone == {s.pend[i].pkt : i \in Expired(s.pend)}
<1>1. WorkType(s) /\ held \in [Pkts -> Int] /\ Len(s.hw) <= HwDepth
  BY DEF Good
<1>2. /\ t.pend = [i \in Slots |-> IF i \in Expired(s.pend) THEN None ELSE s.pend[i]]
      /\ t.uncl = [i \in Slots |-> IF i \in Expired(s.uncl) THEN None ELSE s.uncl[i]]
      /\ t.hw = s.hw /\ t.stamp = s.stamp
      /\ t.refs = [q \in Pkts |-> IF q \in gone THEN s.refs[q] - 1 ELSE s.refs[q]]
      /\ WorkType(t)
  <2>1. /\ t.pend = [i \in Slots |-> IF i \in Expired(s.pend) THEN None ELSE s.pend[i]]
        /\ t.uncl = [i \in Slots |-> IF i \in Expired(s.uncl) THEN None ELSE s.uncl[i]]
    BY <1>1 DEF rx_pending_expire, WorkType
  <2>2. t.hw = s.hw /\ t.stamp = s.stamp /\ DOMAIN t = DOMAIN s
    BY <1>1 DEF rx_pending_expire, WorkType
  <2>3. t.refs = [q \in Pkts |-> IF q \in gone THEN s.refs[q] - 1 ELSE s.refs[q]]
    BY <1>1 DEF rx_pending_expire, net_pkt_unref, WorkType
  <2> HIDE DEF t, gone
  <2> QED
    BY <1>1, <2>1, <2>2, <2>3 DEF WorkType
<1> HIDE DEF t
<1>3. \A i \in Slots : /\ t.pend[i] # None => t.pend[i] = s.pend[i] /\ i \notin Expired(s.pend)
                       /\ i \notin Expired(s.pend) => t.pend[i] = s.pend[i]
                       /\ t.uncl[i] # None => t.uncl[i] = s.uncl[i] /\ i \notin Expired(s.uncl)
  BY <1>2
<1>4. Fresh(t)
  <2> SUFFICES ASSUME NEW i \in Slots
               PROVE  /\ t.pend[i] # None => t.pend[i].left > 0
                      /\ t.uncl[i] # None => t.uncl[i].left > 0
    BY DEF Fresh
  <2>1. /\ t.pend[i] # None => t.pend[i].left \in 0 .. TIMEOUT
        /\ t.uncl[i] # None => t.uncl[i].left \in 0 .. TIMEOUT
    BY <1>2 DEF WorkType, Waiting, Stashed
  <2>2. /\ t.pend[i] # None => t.pend[i].left # 0
        /\ t.uncl[i] # None => t.uncl[i].left # 0
    BY <1>3 DEF Expired
  <2> QED
    BY <2>1, <2>2, RxAssumption
<1>5. OnceEach(t)
  BY <1>3 DEF Good, OnceEach
<1>6. WaitsForCurrent(t, fr)
  BY <1>3 DEF Good, WaitsForCurrent
<1>7. CapturesCurrent(t)
  BY <1>2, <1>3 DEF Good, CapturesCurrent
<1>8. NoneMissed(t)
  BY <1>3 DEF Good, NoneMissed
<1>9. StampsMatch(t, fr)
  BY <1>2 DEF Good, StampsMatch
<1>10. \A q \in Pkts : In(t, q) => In(s, q)
  BY <1>3 DEF In
<1>11. Counted(t, held)
  <2> SUFFICES ASSUME NEW q \in Pkts PROVE t.refs[q] = One(In(t, q)) + held[q]
    BY DEF Counted
  <2>1. s.refs[q] = One(In(s, q)) + held[q] /\ s.refs[q] \in Int /\ held[q] \in Int
    BY <1>1 DEF Good, Counted, WorkType
  <2>2. CASE q \in gone
    <3>1. PICK i \in Slots : s.pend[i] # None /\ s.pend[i].pkt = q /\ i \in Expired(s.pend)
      BY <2>2 DEF Expired
    <3>2. In(s, q)
      BY <3>1 DEF In
    <3>3. ~In(t, q)
      BY <1>3, <3>1 DEF In, Good, OnceEach
    <3>4. t.refs[q] = s.refs[q] - 1
      BY <1>2, <2>2
    <3> QED
      BY <2>1, <3>2, <3>3, <3>4 DEF One
  <2>3. CASE q \notin gone
    <3>1. In(s, q) => In(t, q)
      BY <1>3, <2>3 DEF In
    <3>2. t.refs[q] = s.refs[q]
      BY <1>2, <2>3
    <3> QED
      BY <1>10, <2>1, <3>1, <3>2 DEF One
  <2> QED
    BY <2>2, <2>3
<1> QED
  BY <1>1, <1>2, <1>4, <1>5, <1>6, <1>7, <1>8, <1>9, <1>10, <1>11 DEF Good, t

\* A capture that counts fits a frame that waits for it.
LEMMA TakesCapture ==
  ASSUME NEW e \in Capture, Counts(e), NEW x, x \in {Event(Current(e.key)), Event(Doubtful(e.key))}
  PROVE  x \in {Event(e), Event(Doubtful(e.key))}
BY DEF Counts, Event, Current, Doubtful

\* A frame whose capture was read before it gets that capture.
LEMMA ClaimGood ==
  ASSUME NEW s, NEW fr, NEW held, NEW p \in Pkts, NEW k \in Keys,
         Good(s, fr, held), Fresh(s), Holding(s.uncl, k) # {},
         fr[p] \in {Event(Current(k)), Event(Doubtful(k))}
  PROVE  Good(Claim(s, p, k), fr, held)
<1> DEFINE t == Claim(s, p, k)
<1> DEFINE n == First(Holding(s.uncl, k))
<1> DEFINE c == [key |-> k, gen |-> s.uncl[n].gen]
<1>1. WorkType(s) /\ held \in [Pkts -> Int] /\ Len(s.hw) <= HwDepth
  BY DEF Good
<1>2. n \in Slots /\ s.uncl[n] # None /\ s.uncl[n].key = k
  BY HoldingFirst
<1>3. s.uncl[n] \in Stashed
  BY <1>1, <1>2 DEF WorkType
<1>4. c \in Capture /\ c.key = k /\ fr[p] \in {Event(c), Event(Doubtful(c.key))}
  <2>1. Counts(s.uncl[n])
    BY <1>2 DEF Good, CapturesCurrent, Fresh
  <2>2. c \in Capture /\ c.key = k /\ Counts(c)
    BY <1>2, <1>3, <2>1 DEF Counts, Capture, Stashed
  <2> HIDE DEF c
  <2> QED
    BY <2>2, TakesCapture
<1> HIDE DEF n
<1>5. /\ t.pend = s.pend /\ t.hw = s.hw /\ t.refs = s.refs
      /\ t.uncl = [s.uncl EXCEPT ![n] = None]
      /\ t.stamp = [s.stamp EXCEPT ![p] = c]
      /\ WorkType(t)
  <2>1. t.pend = s.pend /\ t.hw = s.hw /\ t.refs = s.refs /\ DOMAIN t = DOMAIN s
    BY <1>1 DEF Claim, WorkType
  <2>2. t.uncl = [s.uncl EXCEPT ![n] = None] /\ t.stamp = [s.stamp EXCEPT ![p] = c]
    BY <1>1 DEF Claim, WorkType, n
  <2> HIDE DEF t, c
  <2> QED
    BY <1>1, <1>2, <1>4, <2>1, <2>2 DEF WorkType
<1> HIDE DEF t, c
<1>6. \A i \in Slots : t.uncl[i] # None => t.uncl[i] = s.uncl[i]
  BY <1>1, <1>5 DEF WorkType
<1>7. StampsMatch(t, fr)
  BY <1>1, <1>4, <1>5 DEF Good, StampsMatch, WorkType
<1>8. CapturesCurrent(t)
  BY <1>5, <1>6 DEF Good, CapturesCurrent
<1>9. NoneMissed(t)
  BY <1>5, <1>6 DEF Good, NoneMissed
<1>10. OnceEach(t) /\ WaitsForCurrent(t, fr)
  BY <1>5 DEF Good, OnceEach, WaitsForCurrent
<1>11. Counted(t, held)
  <2>1. \A q : In(t, q) <=> In(s, q)
    BY <1>5 DEF In
  <2> QED
    BY <1>5, <2>1 DEF Good, Counted, One
<1> QED
  BY <1>1, <1>5, <1>7, <1>8, <1>9, <1>10, <1>11 DEF Good, t
\* A capture matched with an earlier packet is that packet's, and its slot and
\* the reference the slot held go together.
LEMMA MatchGood ==
  ASSUME NEW s, NEW fr, NEW held, NEW e \in Capture, Counts(e),
         Good(s, fr, held), Fresh(s), Holding(s.pend, e.key) # {}
  PROVE  LET t == MatchPending(s, e)
         IN  /\ Good(t, fr, held) /\ Fresh(t)
             /\ t.uncl = s.uncl /\ t.hw = s.hw
             /\ \A q \in Pkts : In(t, q) => In(s, q)
<1> DEFINE t == MatchPending(s, e)
<1> DEFINE n == First(Holding(s.pend, e.key))
<1> DEFINE o == s.pend[n].pkt
<1>1. WorkType(s) /\ held \in [Pkts -> Int] /\ Len(s.hw) <= HwDepth
  BY DEF Good
<1>2. n \in Slots /\ s.pend[n] # None /\ s.pend[n].key = e.key
  BY HoldingFirst
<1>3. o \in Pkts
  BY <1>1, <1>2 DEF WorkType, Waiting
<1>4. fr[o] \in {Event(e), Event(Doubtful(e.key))}
  <2>1. s.pend[n].left > 0
    BY <1>2 DEF Fresh
  <2>2. fr[o] \in {Event(Current(e.key)), Event(Doubtful(e.key))}
    BY <1>2, <2>1 DEF Good, WaitsForCurrent
  <2> HIDE DEF o
  <2> QED
    BY <2>2, TakesCapture
<1> HIDE DEF n
<1>5. /\ t.uncl = s.uncl /\ t.hw = s.hw
      /\ t.pend = [s.pend EXCEPT ![n] = None]
      /\ t.refs = [q \in Pkts |-> IF q = o THEN s.refs[q] - 1 ELSE s.refs[q]]
      /\ t.stamp = [s.stamp EXCEPT ![o] = e]
      /\ WorkType(t)
  <2>1. t.uncl = s.uncl /\ t.hw = s.hw /\ DOMAIN t = DOMAIN s
    BY <1>1 DEF MatchPending, WorkType
  <2>2. t.pend = [s.pend EXCEPT ![n] = None] /\ t.stamp = [s.stamp EXCEPT ![o] = e]
    BY <1>1 DEF MatchPending, WorkType, n
  <2>3. t.refs = [q \in Pkts |-> IF q = o THEN s.refs[q] - 1 ELSE s.refs[q]]
    BY <1>1 DEF MatchPending, WorkType, n, net_pkt_unref
  <2> HIDE DEF t, o
  <2> QED
    BY <1>1, <1>2, <1>3, <2>1, <2>2, <2>3 DEF WorkType
<1> HIDE DEF t, o
<1>6. /\ \A i \in Slots : t.pend[i] # None => t.pend[i] = s.pend[i] /\ i # n
      /\ \A i \in Slots : i # n => t.pend[i] = s.pend[i]
  BY <1>1, <1>5 DEF WorkType
<1>7. Fresh(t)
  BY <1>5, <1>6 DEF Fresh
<1>8. OnceEach(t) /\ NoneMissed(t) /\ WaitsForCurrent(t, fr)
  <2>1. OnceEach(t)
    BY <1>6 DEF Good, OnceEach
  <2>2. NoneMissed(t)
    BY <1>5, <1>6 DEF Good, NoneMissed
  <2>3. WaitsForCurrent(t, fr)
    BY <1>6 DEF Good, WaitsForCurrent
  <2> QED
    BY <2>1, <2>2, <2>3
<1>9. CapturesCurrent(t)
  BY <1>5 DEF Good, CapturesCurrent
<1>10. StampsMatch(t, fr)
  BY <1>1, <1>4, <1>5 DEF Good, StampsMatch, WorkType
<1>11. \A q \in Pkts : In(t, q) => In(s, q)
  BY <1>6 DEF In
<1>12. Counted(t, held)
  <2> SUFFICES ASSUME NEW q \in Pkts PROVE t.refs[q] = One(In(t, q)) + held[q]
    BY DEF Counted
  <2>1. s.refs[q] = One(In(s, q)) + held[q] /\ s.refs[q] \in Int /\ held[q] \in Int
    BY <1>1 DEF Good, Counted, WorkType
  <2>2. CASE q = o
    <3>1. In(s, q)
      BY <1>2, <2>2 DEF In, o
    <3>2. ~In(t, q)
      BY <1>2, <1>6, <2>2 DEF In, Good, OnceEach, o
    <3>3. t.refs[q] = s.refs[q] - 1
      BY <1>5, <2>2
    <3> QED
      BY <2>1, <3>1, <3>2, <3>3 DEF One
  <2>3. CASE q # o
    <3>1. In(s, q) => In(t, q)
      BY <1>6, <2>3 DEF In, o
    <3>2. t.refs[q] = s.refs[q]
      BY <1>5, <2>3
    <3> QED
      BY <1>11, <2>1, <3>1, <3>2 DEF One
  <2> QED
    BY <2>2, <2>3
<1> QED
  BY <1>1, <1>5, <1>7, <1>8, <1>9, <1>10, <1>11, <1>12 DEF Good, t

\* A capture no packet waits for is kept; it adds no key but its own.
LEMMA StashGood ==
  ASSUME NEW s, NEW fr, NEW held, NEW e \in Capture, Counts(e),
         Good(s, fr, held), Fresh(s), Holding(s.pend, e.key) = {}
  PROVE  LET t == Stash(s, e)
         IN  /\ Good(t, fr, held) /\ Fresh(t)
             /\ t.pend = s.pend /\ t.hw = s.hw /\ t.stamp = s.stamp
             /\ \A k : k # e.key /\ Holding(s.uncl, k) = {} => Holding(t.uncl, k) = {}
<1> DEFINE t == Stash(s, e)
<1> DEFINE n == FreeSlot(s.uncl)
<1> DEFINE x == [key |-> e.key, gen |-> e.gen, left |-> TIMEOUT]
<1>1. WorkType(s) /\ held \in [Pkts -> Int] /\ Len(s.hw) <= HwDepth
  BY DEF Good
<1>2. n \in Slots
  BY <1>1, FreeSlotIsSlot DEF WorkType
<1>3. x \in Stashed /\ x # None /\ x.left > 0 /\ x.key = e.key /\ Counts(x)
  BY RxAssumption, NoneIsNothing DEF Stashed, Capture, Counts
<1> HIDE DEF n
<1>4. /\ t.pend = s.pend /\ t.hw = s.hw /\ t.refs = s.refs /\ t.stamp = s.stamp
      /\ t.uncl = [s.uncl EXCEPT ![n] = x]
      /\ WorkType(t)
  <2>1. t.pend = s.pend /\ t.hw = s.hw /\ t.refs = s.refs /\ t.stamp = s.stamp /\ DOMAIN t = DOMAIN s
    BY <1>1 DEF Stash, WorkType
  <2>2. t.uncl = [s.uncl EXCEPT ![n] = x]
    BY <1>1 DEF Stash, WorkType, n
  <2> HIDE DEF t, x
  <2> QED
    BY <1>1, <1>2, <1>3, <2>1, <2>2 DEF WorkType
<1> HIDE DEF t, x
<1>5. \A i \in Slots : t.uncl[i] = x \/ t.uncl[i] = s.uncl[i]
  BY <1>1, <1>4 DEF WorkType
<1>6. Fresh(t)
  BY <1>3, <1>4, <1>5 DEF Fresh
<1>7. CapturesCurrent(t)
  BY <1>3, <1>4, <1>5 DEF Good, CapturesCurrent
<1>8. NoneMissed(t)
  <2>1. \A i \in Slots : s.pend[i] # None => s.pend[i].key # e.key
    BY DEF Holding
  <2> QED
    BY <1>3, <1>4, <1>5, <2>1 DEF Good, NoneMissed
<1>9. OnceEach(t) /\ WaitsForCurrent(t, fr)
  BY <1>4 DEF Good, OnceEach, WaitsForCurrent
<1>10. Counted(t, held)
  <2>1. \A q : In(t, q) <=> In(s, q)
    BY <1>4 DEF In
  <2> QED
    BY <1>4, <2>1 DEF Good, Counted, One
<1>11. StampsMatch(t, fr)
  BY <1>4 DEF Good, StampsMatch
<1>12. \A k : k # e.key /\ Holding(s.uncl, k) = {} => Holding(t.uncl, k) = {}
  BY <1>3, <1>5 DEF Holding
<1> QED
  BY <1>1, <1>4, <1>6, <1>7, <1>8, <1>9, <1>10, <1>11, <1>12 DEF Good, t

\* An event frame without timestamp waits with a reference of its own; the
\* packet it evicts loses the one the slot held.
LEMMA QueueGood ==
  ASSUME NEW s, NEW fr, NEW held, NEW p \in Pkts, NEW f,
         Good(s, fr, held), Fresh(s), ~In(s, p), p \notin lost,
         f.kind = "event" => f.key \in Keys /\ fr[p] \in {Event(Current(f.key)), Event(Doubtful(f.key))},
         f.kind = "event" /\ s.stamp[p] = None => Holding(s.uncl, f.key) = {}
  PROVE  Good(Queue(s, p, f), fr, held)
<1> DEFINE t == Queue(s, p, f)
<1> DEFINE n == FreeSlot(s.pend)
<1> DEFINE x == [pkt |-> p, key |-> f.key, left |-> TIMEOUT]
<1> DEFINE gone == IF s.pend[n] = None THEN {} ELSE {s.pend[n].pkt}
<1> SUFFICES ASSUME f.kind = "event", s.stamp[p] = None
             PROVE  Good(t, fr, held)
  BY DEF Queue
<1>1. WorkType(s) /\ held \in [Pkts -> Int] /\ Len(s.hw) <= HwDepth
  BY DEF Good
<1>2. n \in Slots
  BY <1>1, FreeSlotIsSlot DEF WorkType
<1>3. /\ x \in Waiting /\ x # None /\ x.left > 0 /\ x.key = f.key /\ x.pkt = p
      /\ fr[p] \in {Event(Current(f.key)), Event(Doubtful(f.key))} /\ Holding(s.uncl, f.key) = {}
  BY RxAssumption, NoneIsNothing DEF Waiting
<1>4. /\ t.uncl = s.uncl /\ t.hw = s.hw /\ t.stamp = s.stamp
      /\ t.pend = [s.pend EXCEPT ![n] = x]
      /\ t.refs = [q \in Pkts |-> IF q = p THEN net_pkt_unref(s.refs, gone)[q] + 1
                                  ELSE net_pkt_unref(s.refs, gone)[q]]
      /\ WorkType(t)
  <2> DEFINE r == [net_pkt_unref(s.refs, gone) EXCEPT ![p] = @ + 1]
  <2>1. t = [s EXCEPT !.refs = r, !.pend[n] = x]
    BY DEF Queue
  <2> HIDE DEF t, n, x, gone, r
  <2>2. t.uncl = s.uncl /\ t.hw = s.hw /\ t.stamp = s.stamp /\ DOMAIN t = DOMAIN s
    BY <1>1, <2>1 DEF WorkType
  <2>3. t.pend = [s.pend EXCEPT ![n] = x]
    BY <1>1, <2>1 DEF WorkType
  <2>4. t.refs = r
    BY <1>1, <2>1 DEF WorkType
  <2>5. net_pkt_unref(s.refs, gone) \in [Pkts -> Int]
    BY <1>1 DEF WorkType, net_pkt_unref
  <2>6. t.refs = [q \in Pkts |-> IF q = p THEN net_pkt_unref(s.refs, gone)[q] + 1
                                 ELSE net_pkt_unref(s.refs, gone)[q]]
    BY <2>4, <2>5 DEF r
  <2> QED
    BY <1>1, <1>2, <1>3, <2>2, <2>3, <2>5, <2>6 DEF WorkType
<1> HIDE DEF t, n, x
<1>5. /\ t.pend[n] = x
      /\ \A i \in Slots : i # n => t.pend[i] = s.pend[i]
  BY <1>1, <1>2, <1>4 DEF WorkType
<1>6. \A i \in Slots : s.pend[i] # None => s.pend[i].pkt # p
  BY DEF In
<1>7. OnceEach(t)
  BY <1>3, <1>5, <1>6 DEF Good, OnceEach
<1>8. WaitsForCurrent(t, fr)
  BY <1>3, <1>5 DEF Good, WaitsForCurrent
<1>9. NoneMissed(t)
  BY <1>3, <1>4, <1>5 DEF Good, NoneMissed, Holding
<1>10. CapturesCurrent(t) /\ StampsMatch(t, fr)
  BY <1>4 DEF Good, CapturesCurrent, StampsMatch
<1>11. Counted(t, held)
  <2> SUFFICES ASSUME NEW q \in Pkts PROVE t.refs[q] = One(In(t, q)) + held[q]
    BY DEF Counted
  <2>1. s.refs[q] = One(In(s, q)) + held[q] /\ s.refs[q] \in Int /\ held[q] \in Int
    BY <1>1 DEF Good, Counted, WorkType
  <2>2. net_pkt_unref(s.refs, gone)[q] = IF q \in gone THEN s.refs[q] - 1 ELSE s.refs[q]
    BY DEF net_pkt_unref
  <2>3. CASE q = p
    <3>1. In(t, q)
      BY <1>2, <1>3, <1>5, <2>3 DEF In
    <3>2. q \notin gone
      BY <1>2, <1>6, <2>3
    <3> QED
      BY <1>4, <2>1, <2>2, <2>3, <3>1, <3>2 DEF One
  <2>4. CASE q # p /\ q \in gone
    <3>1. s.pend[n] # None /\ s.pend[n].pkt = q
      BY <2>4
    <3>2. In(s, q)
      BY <1>2, <3>1 DEF In
    <3>3. ~In(t, q)
      BY <1>2, <1>3, <1>5, <2>4, <3>1 DEF In, Good, OnceEach
    <3> QED
      BY <1>4, <2>1, <2>2, <2>4, <3>2, <3>3 DEF One
  <2>5. CASE q # p /\ q \notin gone
    <3>1. In(s, q) => In(t, q)
      BY <1>5, <2>5 DEF In
    <3>2. In(t, q) => In(s, q)
      BY <1>3, <1>5, <2>5 DEF In
    <3> QED
      BY <1>4, <2>1, <2>2, <2>5, <3>1, <3>2 DEF One
  <2> QED
    BY <2>3, <2>4, <2>5
<1> QED
  BY <1>1, <1>4, <1>7, <1>8, <1>9, <1>10, <1>11 DEF Good, t
\* The event read last goes to this frame, to an earlier one, or is kept.
LEMMA AttachGood ==
  ASSUME NEW s, NEW fr, NEW held, NEW p \in Pkts, NEW f, NEW e \in Capture,
         Counts(e), Good(s, fr, held), Fresh(s), ~In(s, p),
         f.kind = "event" => /\ fr[p] \in {Event(Current(f.key)), Event(Doubtful(f.key))}
                             /\ Holding(s.uncl, f.key) = {}
  PROVE  LET t == Attach(s, p, f, e)
         IN  /\ Good(t, fr, held) /\ Fresh(t) /\ ~In(t, p) /\ t.hw = s.hw
             /\ f.kind = "event" /\ t.stamp[p] = None => Holding(t.uncl, f.key) = {}
<1> DEFINE t == Attach(s, p, f, e)
<1>1. WorkType(s) /\ held \in [Pkts -> Int] /\ Len(s.hw) <= HwDepth
  BY DEF Good
<1>2. CASE f.kind = "event" /\ f.key = e.key
  <2>1. t = [s EXCEPT !.stamp[p] = e]
    BY <1>2 DEF Attach
  <2> HIDE DEF t
  <2>2. /\ t.pend = s.pend /\ t.uncl = s.uncl /\ t.hw = s.hw /\ t.refs = s.refs
        /\ t.stamp = [s.stamp EXCEPT ![p] = e]
        /\ WorkType(t)
    BY <1>1, <2>1 DEF WorkType
  <2>3. t.stamp[p] = e /\ e # None
    BY <1>1, <2>2, NoneIsNothing DEF WorkType
  <2>4. fr[p] \in {Event(e), Event(Doubtful(e.key))}
    BY <1>2, TakesCapture
  <2>5. StampsMatch(t, fr)
    BY <1>1, <2>2, <2>4 DEF Good, StampsMatch, WorkType
  <2>6. OnceEach(t) /\ WaitsForCurrent(t, fr)
    BY <2>2 DEF Good, OnceEach, WaitsForCurrent
  <2>7. CapturesCurrent(t) /\ NoneMissed(t) /\ Fresh(t)
    BY <2>2 DEF Good, CapturesCurrent, NoneMissed, Fresh
  <2>8. \A q : In(t, q) <=> In(s, q)
    BY <2>2 DEF In
  <2>9. Counted(t, held)
    BY <2>2, <2>8 DEF Good, Counted, One
  <2> QED
    BY <1>1, <2>2, <2>3, <2>5, <2>6, <2>7, <2>8, <2>9 DEF Good, t
<1>3. CASE ~(f.kind = "event" /\ f.key = e.key) /\ Holding(s.pend, e.key) # {}
  <2>1. t = MatchPending(s, e)
    BY <1>3 DEF Attach
  <2> HIDE DEF t
  <2>2. /\ Good(t, fr, held) /\ Fresh(t) /\ t.uncl = s.uncl /\ t.hw = s.hw
        /\ \A q \in Pkts : In(t, q) => In(s, q)
    BY <1>3, <2>1, MatchGood
  <2> QED
    BY <2>2 DEF t
<1>4. CASE ~(f.kind = "event" /\ f.key = e.key) /\ Holding(s.pend, e.key) = {}
  <2>1. t = Stash(s, e)
    BY <1>4 DEF Attach
  <2> HIDE DEF t
  <2>2. /\ Good(t, fr, held) /\ Fresh(t) /\ t.pend = s.pend /\ t.hw = s.hw
        /\ \A k : k # e.key /\ Holding(s.uncl, k) = {} => Holding(t.uncl, k) = {}
    BY <1>4, <2>1, StashGood
  <2>3. ~In(t, p)
    BY <2>2 DEF In
  <2> QED
    BY <1>4, <2>2, <2>3 DEF t
<1> QED
  BY <1>2, <1>3, <1>4

\* Acknowledging an event, or failing to, only shortens the list of captures.
LEMMA DrainGood ==
  ASSUME NEW s, NEW fr, NEW held, NEW hw, Good(s, fr, held), s.hw # <<>>, hw \in {s.hw, Tail(s.hw)}
  PROVE  LET t == [s EXCEPT !.hw = hw]
         IN  /\ Good(t, fr, held)
             /\ t.pend = s.pend /\ t.uncl = s.uncl /\ t.stamp = s.stamp
<1> DEFINE t == [s EXCEPT !.hw = hw]
<1>1. WorkType(s) /\ held \in [Pkts -> Int] /\ Len(s.hw) <= HwDepth /\ HwDepth \in Nat
  BY RxAssumption DEF Good
<1>2. /\ hw \in Seq(Capture) /\ Len(hw) <= HwDepth
      /\ \A i \in 1 .. Len(hw) : \E j \in 1 .. Len(s.hw) : hw[i] = s.hw[j]
  <2>1. s.hw \in Seq(Capture) /\ Len(s.hw) \in Nat
    BY <1>1 DEF WorkType
  <2>2. CASE hw = s.hw
    BY <1>1, <2>1, <2>2
  <2>3. CASE hw = Tail(s.hw)
    <3>1. /\ hw \in Seq(Capture) /\ Len(hw) = Len(s.hw) - 1
          /\ \A i \in 1 .. Len(hw) : hw[i] = s.hw[i + 1]
      BY <2>1, <2>3, HeadTailProperties
    <3>2. \A i \in 1 .. Len(hw) : i + 1 \in 1 .. Len(s.hw)
      BY <2>1, <3>1
    <3> QED
      BY <1>1, <2>1, <3>1, <3>2
  <2> QED
    BY <2>2, <2>3
<1>3. /\ t.pend = s.pend /\ t.uncl = s.uncl /\ t.stamp = s.stamp /\ t.refs = s.refs /\ t.hw = hw
      /\ WorkType(t)
  BY <1>1, <1>2 DEF WorkType
<1> HIDE DEF t
<1>4. OnceEach(t) /\ WaitsForCurrent(t, fr) /\ StampsMatch(t, fr) /\ NoneMissed(t)
  BY <1>3 DEF Good, OnceEach, WaitsForCurrent, StampsMatch, NoneMissed
<1>5. CapturesCurrent(t)
  BY <1>2, <1>3 DEF Good, CapturesCurrent
<1>6. Counted(t, held)
  <2>1. \A q : In(t, q) <=> In(s, q)
    BY <1>3 DEF In
  <2> QED
    BY <1>3, <2>1 DEF Good, Counted, One
<1> QED
  BY <1>1, <1>2, <1>3, <1>4, <1>5, <1>6 DEF Good, t

\* Every outcome of rx_timestamp_check() for the frame in hand is good.
LEMMA CheckGood ==
  ASSUME NEW s0, NEW fr, NEW held, NEW p \in Pkts, NEW f,
         Good(s0, fr, held), ~In(s0, p), p \notin lost,
         f.kind = "event" => f.key \in Keys /\ fr[p] \in {Event(Current(f.key)), Event(Doubtful(f.key))},
         NEW z \in rx_timestamp_check(s0, p, f)
  PROVE  Good(z, fr, held)
<1> DEFINE s == rx_pending_expire(s0)
<1>1. Good(s, fr, held) /\ Fresh(s) /\ ~In(s, p)
  BY ExpireGood
<1> DEFINE claims == f.kind = "event" /\ Holding(s.uncl, f.key) # {}
<1> DEFINE drained == {Tail(s.hw)} \cup (IF "ack" \in Faults THEN {s.hw} ELSE {})
<1>2. \/ claims /\ z = Claim(s, p, f.key)
      \/ ~claims /\ z = Queue(s, p, f)
      \/ /\ ~claims /\ s.hw # <<>>
         /\ \E hw \in drained : z = Queue([Attach(s, p, f, Head(s.hw)) EXCEPT !.hw = hw], p, f)
  BY DEF rx_timestamp_check
<1> HIDE DEF s
<1>3. CASE claims /\ z = Claim(s, p, f.key)
  BY <1>1, <1>3, ClaimGood
<1>4. CASE ~claims /\ z = Queue(s, p, f)
  BY <1>1, <1>4, QueueGood
<1>5. ASSUME ~claims, s.hw # <<>>, NEW hw \in drained,
             z = Queue([Attach(s, p, f, Head(s.hw)) EXCEPT !.hw = hw], p, f)
      PROVE  Good(z, fr, held)
  <2> DEFINE e == Head(s.hw)
  <2> DEFINE a == Attach(s, p, f, e)
  <2> DEFINE b == [a EXCEPT !.hw = hw]
  <2>1. e \in Capture /\ Counts(e)
    <3>1. s.hw \in Seq(Capture)
      BY <1>1 DEF Good, WorkType
    <3>2. Len(s.hw) \in Nat \ {0} /\ e = s.hw[1]
      BY <1>5, <3>1, EmptySeq
    <3>3. 1 \in 1 .. Len(s.hw)
      BY <3>2
    <3> QED
      BY <1>1, <3>1, <3>2, <3>3 DEF Good, CapturesCurrent
  <2> HIDE DEF e
  <2>2. /\ Good(a, fr, held) /\ Fresh(a) /\ ~In(a, p) /\ a.hw = s.hw
        /\ f.kind = "event" /\ a.stamp[p] = None => Holding(a.uncl, f.key) = {}
    BY <1>1, <1>5, <2>1, AttachGood
  <2> HIDE DEF a
  <2>3. /\ Good(b, fr, held)
        /\ b.pend = a.pend /\ b.uncl = a.uncl /\ b.stamp = a.stamp
    <3>1. a.hw # <<>> /\ hw \in {a.hw, Tail(a.hw)}
      BY <1>5, <2>2
    <3> QED
      BY <2>2, <3>1, DrainGood
  <2>4. z = Queue(b, p, f)
    BY <1>5 DEF a, e
  <2> HIDE DEF b
  <2>5. Fresh(b) /\ ~In(b, p)
    BY <2>2, <2>3 DEF Fresh, In
  <2> QED
    BY <2>2, <2>3, <2>4, <2>5, QueueGood
<1> QED
  BY <1>2, <1>3, <1>4, <1>5
----------------------------------------------------------------------------
(* From working records to states.                                         *)

\* Kinds and fields of the frames.
LEMMA FrameParts ==
  ASSUME NEW f \in Frames
  PROVE  /\ f.kind = "event" => f.key \in Keys /\ f.gen \in Gens
         /\ Plain.kind = "plain" /\ General.kind = "general"
         /\ Plain \in Frames /\ General \in Frames
BY DEF Frames, Plain, General, Event, Capture

\* Dropping a reference held outside the pending list.
LEMMA UnrefGood ==
  ASSUME NEW s, NEW fr, NEW held, NEW p \in Pkts, Good(s, fr, held)
  PROVE  Good([s EXCEPT !.refs = net_pkt_unref(@, {p})], fr, [held EXCEPT ![p] = @ - 1])
<1> DEFINE t == [s EXCEPT !.refs = net_pkt_unref(@, {p})]
<1> DEFINE h == [held EXCEPT ![p] = @ - 1]
<1>1. WorkType(s) /\ held \in [Pkts -> Int] /\ Len(s.hw) <= HwDepth
  BY DEF Good
<1>2. h \in [Pkts -> Int] /\ \A q \in Pkts : h[q] = IF q = p THEN held[q] - 1 ELSE held[q]
  BY <1>1
<1>3. /\ t.pend = s.pend /\ t.uncl = s.uncl /\ t.hw = s.hw /\ t.stamp = s.stamp
      /\ t.refs = [q \in Pkts |-> IF q = p THEN s.refs[q] - 1 ELSE s.refs[q]]
      /\ WorkType(t)
  <2>1. /\ t.pend = s.pend /\ t.uncl = s.uncl /\ t.hw = s.hw /\ t.stamp = s.stamp
        /\ DOMAIN t = DOMAIN s
    BY <1>1 DEF WorkType
  <2>2. t.refs = [q \in Pkts |-> IF q = p THEN s.refs[q] - 1 ELSE s.refs[q]]
    BY <1>1 DEF WorkType, net_pkt_unref
  <2> HIDE DEF t
  <2> QED
    BY <1>1, <2>1, <2>2 DEF WorkType
<1> HIDE DEF t, h
<1>4. OnceEach(t) /\ WaitsForCurrent(t, fr) /\ StampsMatch(t, fr)
  BY <1>3 DEF Good, OnceEach, WaitsForCurrent, StampsMatch
<1>5. CapturesCurrent(t) /\ NoneMissed(t)
  BY <1>3 DEF Good, CapturesCurrent, NoneMissed
<1>6. Counted(t, h)
  <2> SUFFICES ASSUME NEW q \in Pkts PROVE t.refs[q] = One(In(t, q)) + h[q]
    BY DEF Counted
  <2>1. s.refs[q] = One(In(s, q)) + held[q] /\ s.refs[q] \in Int /\ held[q] \in Int
    BY <1>1 DEF Good, Counted, WorkType
  <2>2. In(t, q) <=> In(s, q)
    BY <1>3 DEF In
  <2> QED
    BY <1>2, <1>3, <2>1, <2>2 DEF One
<1> QED
  BY <1>1, <1>2, <1>3, <1>4, <1>5, <1>6 DEF Good, t, h

\* A packet from the pool is in no list; with a frame in it and one reference
\* it makes a good record.
LEMMA AllocatedGood ==
  ASSUME IInv, NEW p \in Free, NEW f \in Frames
  PROVE  /\ p \in Pkts /\ p \notin stack /\ p \notin lost /\ ~In(Allocated(p), p)
         /\ Good(Allocated(p), [q \in Pkts |-> IF q = p THEN f ELSE frame[q]], [Held EXCEPT ![p] = 1])
<1> DEFINE t == Allocated(p)
<1> DEFINE w == Working
<1> DEFINE fr == [q \in Pkts |-> IF q = p THEN f ELSE frame[q]]
<1> DEFINE h == [Held EXCEPT ![p] = 1]
<1>1. p \in Pkts /\ refs[p] = 0
  BY DEF Free
<1>2. /\ w.pend = rx_pending /\ w.uncl = rx_unclaimed /\ w.hw = captured
      /\ w.refs = refs /\ w.stamp = stamp
  BY DEF Working
<1>3. Good(w, frame, Held) /\ TypeOK
  BY DEF IInv
<1>4. WorkType(w) /\ Held \in [Pkts -> Int] /\ Len(w.hw) <= HwDepth
  BY <1>3 DEF Good
<1>5. p \notin stack /\ p \notin lost /\ ~In(w, p) /\ Held[p] = 0
  <2>1. refs[p] = One(In(w, p)) + Held[p]
    BY <1>1, <1>2, <1>3 DEF Good, Counted
  <2>2. Held[p] = One(p \in stack) + One(p \in lost)
    BY <1>1 DEF Held
  <2> QED
    BY <1>1, <2>1, <2>2 DEF One
<1> HIDE DEF w
<1>6. /\ t.pend = w.pend /\ t.uncl = w.uncl /\ t.hw = w.hw
      /\ t.refs = [w.refs EXCEPT ![p] = 1] /\ t.stamp = [w.stamp EXCEPT ![p] = None]
      /\ WorkType(t)
  <2>1. t = [w EXCEPT !.refs[p] = 1, !.stamp[p] = None]
    BY DEF Allocated, w
  <2> HIDE DEF t
  <2> QED
    BY <1>1, <1>4, <2>1 DEF WorkType
<1> HIDE DEF t
<1>7. h \in [Pkts -> Int] /\ \A q \in Pkts : h[q] = IF q = p THEN 1 ELSE Held[q]
  BY <1>1, <1>4
<1> HIDE DEF h
<1>8. \A q : In(t, q) <=> In(w, q)
  BY <1>6 DEF In
<1>9. WaitsForCurrent(t, fr)
  <2> SUFFICES ASSUME NEW i \in Slots, t.pend[i] # None
               PROVE  /\ t.pend[i].left > 0
                           => fr[t.pend[i].pkt] \in {Event(Current(t.pend[i].key)), Event(Doubtful(t.pend[i].key))}
                      /\ t.pend[i].pkt \notin lost
    BY DEF WaitsForCurrent
  <2>1. /\ w.pend[i].left > 0
             => frame[w.pend[i].pkt] \in {Event(Current(w.pend[i].key)), Event(Doubtful(w.pend[i].key))}
        /\ w.pend[i].pkt \notin lost
    BY <1>3, <1>6 DEF Good, WaitsForCurrent
  <2>2. w.pend[i].pkt \in Pkts
    BY <1>4, <1>6 DEF WorkType, Waiting
  <2>3. w.pend[i].pkt # p
    BY <1>5, <1>6 DEF In
  <2> QED
    BY <1>6, <2>1, <2>2, <2>3
<1>10. StampsMatch(t, fr)
  BY <1>1, <1>3, <1>4, <1>6 DEF Good, StampsMatch, WorkType
<1>11. OnceEach(t) /\ CapturesCurrent(t) /\ NoneMissed(t)
  BY <1>3, <1>6 DEF Good, OnceEach, CapturesCurrent, NoneMissed
<1>12. Counted(t, h)
  <2> SUFFICES ASSUME NEW q \in Pkts PROVE t.refs[q] = One(In(t, q)) + h[q]
    BY DEF Counted
  <2>1. w.refs[q] = One(In(w, q)) + Held[q]
    BY <1>3 DEF Good, Counted
  <2>2. CASE q = p
    BY <1>1, <1>4, <1>5, <1>6, <1>7, <1>8, <2>2 DEF One, WorkType
  <2>3. CASE q # p
    BY <1>4, <1>6, <1>7, <1>8, <2>1, <2>3 DEF One, WorkType
  <2> QED
    BY <2>2, <2>3
<1> QED
  BY <1>1, <1>4, <1>5, <1>6, <1>7, <1>8, <1>9, <1>10, <1>11, <1>12 DEF Good, t, h

\* A good record whose outside references are those of the next state becomes
\* a state of the invariant.
LEMMA BecomeGood ==
  ASSUME NEW s, NEW p, NEW f, NEW fr \in [Pkts -> Frames], NEW held,
         \A q \in Pkts : fr[q] = IF q = p THEN f ELSE frame[q],
         held = Held', stack' \cap lost' = {}, \A q \in Pkts : q \in lost' => ~In(s, q),
         gen' = gen, Good(s, fr, held), Become(s, p, f)
  PROVE  /\ Good(Working, frame, Held)'
         /\ captured' \in Seq(Capture) /\ Len(captured') <= HwDepth
         /\ rx_pending' \in [Slots -> Waiting \cup {None}]
         /\ rx_unclaimed' \in [Slots -> Stashed \cup {None}]
         /\ refs' \in [Pkts -> 0 .. 2]
         /\ frame' \in [Pkts -> Frames]
         /\ stamp' \in [Pkts -> Capture \cup {None}]
<1>1. WorkType(s) /\ held \in [Pkts -> Int] /\ Len(s.hw) <= HwDepth
  BY DEF Good
<1>2. /\ rx_pending' = s.pend /\ rx_unclaimed' = s.uncl /\ captured' = s.hw /\ refs' = s.refs
      /\ stamp' = [q \in Pkts |-> IF s.refs[q] = 0 THEN None ELSE s.stamp[q]]
      /\ frame' = [q \in Pkts |-> IF s.refs[q] # 0 /\ (s.stamp[q] # None \/ In(s, q)) THEN fr[q] ELSE Plain]
  BY DEF Become, KeepIn, In
<1>3. \A q \in Pkts : held[q] \in {0, 1}
  BY DEF Held, One
<1>4. \A q \in Pkts : s.refs[q] = One(In(s, q)) + held[q]
  BY DEF Good, Counted
<1>5. refs' \in [Pkts -> 0 .. 2]
  <2>1. \A q \in Pkts : s.refs[q] \in 0 .. 2
    BY <1>3, <1>4 DEF One
  <2> QED
    BY <1>1, <1>2, <2>1 DEF WorkType
<1>6. frame' \in [Pkts -> Frames] /\ stamp' \in [Pkts -> Capture \cup {None}]
  BY <1>1, <1>2 DEF WorkType, Frames
<1> DEFINE w == Working
<1>7. /\ w'.pend = s.pend /\ w'.uncl = s.uncl /\ w'.hw = s.hw /\ w'.refs = s.refs /\ w'.stamp = stamp'
      /\ DOMAIN w' = {"pend", "uncl", "hw", "refs", "stamp"}
  BY <1>2 DEF Working
<1> HIDE DEF w
<1>8. WorkType(w)'
  BY <1>1, <1>6, <1>7 DEF WorkType
<1>9. OnceEach(w)' /\ NoneMissed(w)'
  BY <1>7 DEF Good, OnceEach, NoneMissed
<1>10. CapturesCurrent(w)'
  BY <1>7 DEF Good, CapturesCurrent, Counts
<1>11. WaitsForCurrent(w, frame)'
  <2> SUFFICES ASSUME NEW i \in Slots, s.pend[i] # None
               PROVE  /\ s.pend[i].left > 0
                           => frame'[s.pend[i].pkt] \in {Event(Current(s.pend[i].key)), Event(Doubtful(s.pend[i].key))}
                      /\ s.pend[i].pkt \notin lost'
    BY <1>7 DEF WaitsForCurrent, Current, Doubtful
  <2>1. s.pend[i].pkt \in Pkts /\ In(s, s.pend[i].pkt)
    BY <1>1 DEF WorkType, Waiting, In
  <2>2. s.refs[s.pend[i].pkt] # 0
    BY <1>3, <1>4, <2>1 DEF One
  <2>3. frame'[s.pend[i].pkt] = fr[s.pend[i].pkt]
    BY <1>2, <2>1, <2>2
  <2> QED
    BY <2>1, <2>3 DEF Good, WaitsForCurrent
<1>12. StampsMatch(w, frame)'
  BY <1>2, <1>7 DEF Good, StampsMatch, Doubtful
<1>13. Counted(w, Held)'
  <2>1. \A q : In(w, q)' <=> In(s, q)
    BY <1>7 DEF In
  <2> QED
    BY <1>4, <1>7, <2>1 DEF Counted, One
<1> QED
  BY <1>1, <1>2, <1>5, <1>6, <1>7, <1>8, <1>9, <1>10, <1>11, <1>12, <1>13 DEF Good, WorkType, w
----------------------------------------------------------------------------
(* Every step keeps the invariant.                                         *)

LEMMA InitHolds == Init => IInv
<1> SUFFICES ASSUME Init PROVE IInv
  OBVIOUS
<1> USE DEF Init
<1>1. TypeOK
  <2>1. /\ rxfifo \in Seq(Frames) /\ Len(rxfifo) <= FifoDepth
        /\ captured \in Seq(Capture) /\ Len(captured) <= HwDepth
    BY RxAssumption
  <2>2. Plain \in Frames /\ 0 \in Gens
    BY DEF Frames, Gens
  <2>3. refs \in [Pkts -> 0 .. 2] /\ frame \in [Pkts -> Frames] /\ gen \in [Keys -> Gens]
    BY <2>2
  <2> QED
    BY <2>1, <2>3 DEF TypeOK
<1>2. ChipCurrent /\ stack \cap lost = {}
  BY DEF ChipCurrent
<1> DEFINE w == Working
<1>3. /\ w.pend = [i \in Slots |-> None] /\ w.uncl = [i \in Slots |-> None] /\ w.hw = <<>>
      /\ w.refs = [p \in Pkts |-> 0] /\ w.stamp = [p \in Pkts |-> None]
      /\ DOMAIN w = {"pend", "uncl", "hw", "refs", "stamp"}
  BY DEF Working
<1> HIDE DEF w
<1>4. WorkType(w) /\ Len(w.hw) <= HwDepth
  BY <1>3, RxAssumption DEF WorkType
<1>5. Held = [q \in Pkts |-> 0]
  BY DEF Held, One
<1>6. \A q : ~In(w, q)
  BY <1>3 DEF In
<1>7. Counted(w, Held)
  BY <1>3, <1>5, <1>6 DEF Counted, One
<1>8. OnceEach(w) /\ WaitsForCurrent(w, frame) /\ CapturesCurrent(w) /\ StampsMatch(w, frame)
      /\ NoneMissed(w)
  BY <1>3 DEF OnceEach, WaitsForCurrent, CapturesCurrent, StampsMatch, NoneMissed
<1> QED
  BY <1>1, <1>2, <1>4, <1>5, <1>7, <1>8 DEF IInv, Good, w

\* What a frame taken from the FIFO leaves there was there before.
LEMMA TailOfFifo ==
  ASSUME IInv, rxfifo # <<>>
  PROVE  /\ Head(rxfifo) \in Frames
         /\ Head(rxfifo).kind = "event" => Head(rxfifo) = Event(Current(Head(rxfifo).key))
         /\ Tail(rxfifo) \in Seq(Frames) /\ Len(Tail(rxfifo)) <= FifoDepth
         /\ \A i \in 1 .. Len(Tail(rxfifo)) : \E j \in 1 .. Len(rxfifo) : Tail(rxfifo)[i] = rxfifo[j]
<1>1. rxfifo \in Seq(Frames) /\ Len(rxfifo) <= FifoDepth /\ FifoDepth \in Nat
  BY RxAssumption DEF IInv, TypeOK
<1>2. Len(rxfifo) \in Nat \ {0} /\ Head(rxfifo) = rxfifo[1] /\ Head(rxfifo) \in Frames
  BY <1>1, EmptySeq
<1>3. 1 \in 1 .. Len(rxfifo)
  BY <1>2
<1>4. Head(rxfifo).kind = "event" => Head(rxfifo) = Event(Current(Head(rxfifo).key))
  BY <1>2, <1>3 DEF IInv, ChipCurrent
<1>5. /\ Tail(rxfifo) \in Seq(Frames) /\ Len(Tail(rxfifo)) = Len(rxfifo) - 1
      /\ \A i \in 1 .. Len(Tail(rxfifo)) : Tail(rxfifo)[i] = rxfifo[i + 1]
  BY <1>1, HeadTailProperties
<1>6. \A i \in 1 .. Len(Tail(rxfifo)) : i + 1 \in 1 .. Len(rxfifo)
  BY <1>2, <1>5
<1> QED
  BY <1>1, <1>2, <1>4, <1>5, <1>6

\* What the driver reads is a frame, and if it is an event, the current one of
\* its key or an Unsure one.
LEMMA SeenCurrent ==
  ASSUME IInv, rxfifo # <<>>, NEW f \in Seen
  PROVE  /\ f \in Frames
         /\ f.kind = "event" => f.key \in Keys /\ f \in {Event(Current(f.key)), Event(Doubtful(f.key))}
<1>1. CASE skewed
  <2>1. CASE f \in {Plain, General}
    BY <2>1 DEF Frames, Plain, General
  <2>2. ASSUME NEW k \in Keys, f = Event(Doubtful(k)) PROVE f \in Frames /\ f.key = k
    BY <2>2 DEF Frames, Event, Doubtful, Capture, Gens
  <2> QED
    BY <1>1, <2>1, <2>2 DEF Seen, Doubtful
<1>2. CASE ~skewed
  <2>1. f = Head(rxfifo)
    BY <1>2 DEF Seen
  <2> QED
    BY <2>1, TailOfFifo, FrameParts
<1> QED
  BY <1>1, <1>2

\* A frame taken from the FIFO leaves what the chip has current.
LEMMA ChipAfterTail ==
  ASSUME IInv, rxfifo # <<>>, rxfifo' = Tail(rxfifo), latent' = latent, gen' = gen
  PROVE  /\ ChipCurrent'
         /\ rxfifo' \in Seq(Frames) /\ Len(rxfifo') <= FifoDepth
<1>1. /\ rxfifo' \in Seq(Frames) /\ Len(rxfifo') <= FifoDepth
      /\ \A i \in 1 .. Len(rxfifo') : \E j \in 1 .. Len(rxfifo) : rxfifo'[i] = rxfifo[j]
  BY TailOfFifo
<1>2. \A k : Current(k)' = Current(k)
  BY DEF Current
<1>3. \A i \in 1 .. Len(rxfifo') :
        rxfifo'[i].kind = "event" => rxfifo'[i] = Event(Current(rxfifo'[i].key))
  BY <1>1 DEF IInv, ChipCurrent
<1> QED
  BY <1>1, <1>2, <1>3 DEF IInv, ChipCurrent, Counts

\* A good record stays good when a key is used again: what waits under the key
\* has expired or is Unsure, and if a capture is left, the new use is Unsure.
LEMMA RecordIgnoresNewUse ==
  ASSUME NEW k \in Keys, NEW c \in Gens, IInv, KeyQuiet(k), Lingers(k) => c = Unsure,
         gen' = [gen EXCEPT ![k] = c], UNCHANGED <<matcher, captured, packets>>
  PROVE  Good(Working, frame, Held)'
<1>1. gen \in [Keys -> Gens] /\ TypeOK /\ Good(Working, frame, Held)
  BY DEF IInv, TypeOK
<1>2. gen'[k] = c /\ \A j : j \in Keys /\ j # k => gen'[j] = gen[j]
  BY <1>1
<1> DEFINE w == Working
<1> DEFINE Now(j) == [key |-> j, gen |-> gen'[j]]
<1>3. /\ w.pend = rx_pending /\ w.uncl = rx_unclaimed /\ w.hw = captured
      /\ w' = w /\ frame' = frame /\ lost' = lost /\ Held' = Held
  BY DEF Working, matcher, packets, Held
<1> HIDE DEF w
<1>4. WorkType(w) /\ Held \in [Pkts -> Int] /\ Len(w.hw) <= HwDepth
  BY <1>1 DEF Good, w
<1>5. WaitsForCurrent(w, frame)'
  <2> SUFFICES ASSUME NEW i \in Slots, w.pend[i] # None
               PROVE  /\ w.pend[i].left > 0
                           => frame[w.pend[i].pkt] \in {Event(Now(w.pend[i].key)), Event(Doubtful(w.pend[i].key))}
                      /\ w.pend[i].pkt \notin lost
    BY <1>3 DEF WaitsForCurrent, Current, Doubtful
  <2>1. w.pend[i].key \in Keys /\ w.pend[i].left \in 0 .. TIMEOUT
    BY <1>4 DEF WorkType, Waiting
  <2>2. /\ w.pend[i].left > 0
             => frame[w.pend[i].pkt] \in {Event(Current(w.pend[i].key)), Event(Doubtful(w.pend[i].key))}
        /\ w.pend[i].pkt \notin lost
    BY <1>1 DEF Good, WaitsForCurrent, w
  <2>3. CASE w.pend[i].key # k
    <3>1. Now(w.pend[i].key) = Current(w.pend[i].key)
      BY <1>2, <2>1, <2>3 DEF Current
    <3> QED
      BY <2>2, <3>1
  <2>4. CASE w.pend[i].key = k /\ w.pend[i].left > 0
    <3>1. frame[w.pend[i].pkt].gen = Unsure
      BY <1>3, <2>1, <2>4 DEF KeyQuiet
    <3>2. frame[w.pend[i].pkt] = Event(Doubtful(k))
      BY <2>2, <2>4, <3>1 DEF Event, Current, Doubtful
    <3> QED
      BY <2>2, <2>4, <3>2
  <2> QED
    BY <2>2, <2>3, <2>4
<1>6. CapturesCurrent(w)'
  <2>1. ASSUME NEW i \in Slots, w.uncl[i] # None, w.uncl[i].left > 0
        PROVE  w.uncl[i].gen = gen'[w.uncl[i].key] \/ gen'[w.uncl[i].key] = Unsure
    <3>1. w.uncl[i].key \in Keys /\ Counts(w.uncl[i])
      BY <1>1, <1>4, <2>1 DEF WorkType, Stashed, Good, CapturesCurrent, w
    <3>2. w.uncl[i].key = k => c = Unsure
      BY <1>3, <2>1 DEF Lingers
    <3> QED
      BY <1>2, <3>1, <3>2 DEF Counts
  <2>2. ASSUME NEW i \in 1 .. Len(w.hw)
        PROVE  w.hw[i].gen = gen'[w.hw[i].key] \/ gen'[w.hw[i].key] = Unsure
    <3>1. w.hw[i].key \in Keys
      <4>1. w.hw \in Seq(Capture)
        BY <1>4 DEF WorkType
      <4>2. w.hw[i] \in Capture
        BY <4>1
      <4> QED
        BY <4>2 DEF Capture
    <3>2. w.hw[i].key = k => c = Unsure
      BY <1>3 DEF Lingers
    <3>3. Counts(w.hw[i])
      BY <1>1 DEF Good, CapturesCurrent, w
    <3> QED
      BY <1>2, <3>1, <3>2, <3>3 DEF Counts
  <2> QED
    BY <1>3, <2>1, <2>2 DEF CapturesCurrent, Counts
<1>7. OnceEach(w)' /\ Counted(w, Held)' /\ StampsMatch(w, frame)' /\ NoneMissed(w)'
  <2>1. OnceEach(w) /\ Counted(w, Held) /\ StampsMatch(w, frame) /\ NoneMissed(w)
    BY <1>1 DEF Good, w
  <2>2. OnceEach(w)' /\ StampsMatch(w, frame)' /\ NoneMissed(w)'
    BY <1>3, <2>1 DEF OnceEach, StampsMatch, NoneMissed, Doubtful
  <2>3. Counted(w, Held)'
    BY <1>3, <2>1 DEF Counted, In
  <2> QED
    BY <2>2, <2>3
<1> QED
  BY <1>3, <1>4, <1>5, <1>6, <1>7 DEF Good, WorkType, w

\* A key is used again: everything but the FIFO is as the invariant wants it,
\* and the events in the FIFO stay current.
LEMMA NewUse ==
  ASSUME IInv, NEW k \in Keys, Captures(NextUse(k)), UNCHANGED <<matcher, captured, packets>>
  PROVE  /\ NextUse(k) \in Capture /\ Event(NextUse(k)) \in Frames
         /\ Event(NextUse(k)) = Event([key |-> k, gen |-> gen'[k]])
         /\ gen' \in [Keys -> Gens] /\ latent' \subseteq Capture
         /\ \A d \in latent' : d.gen = gen'[d.key] \/ gen'[d.key] = Unsure
         /\ \A i \in 1 .. Len(rxfifo) : rxfifo[i].kind = "event" =>
              rxfifo[i] = Event([key |-> rxfifo[i].key, gen |-> gen'[rxfifo[i].key]])
         /\ Good(Working, frame, Held)'
<1> DEFINE c == NextUse(k)
<1>1. /\ c.key = k /\ c.gen \in Gens /\ c = [key |-> k, gen |-> c.gen]
      /\ Lingers(k) => c.gen = Unsure
  BY DEF NextUse, Gens
<1> HIDE DEF c
<1>2. /\ KeyQuiet(k) /\ gen' = [gen EXCEPT ![k] = c.gen] /\ latent' = latent \cup {c}
  BY <1>1 DEF Captures, c
<1>3. gen \in [Keys -> Gens] /\ latent \subseteq Capture /\ rxfifo \in Seq(Frames) /\ ChipCurrent
  BY DEF IInv, TypeOK
<1>4. c \in Capture /\ Event(c) \in Frames
  BY <1>1 DEF Capture, Frames
<1>5. gen' \in [Keys -> Gens] /\ gen'[k] = c.gen /\ \A j \in Keys : j # k => gen'[j] = gen[j]
  BY <1>1, <1>2, <1>3
<1>6. ASSUME NEW d \in latent' PROVE d.gen = gen'[d.key] \/ gen'[d.key] = Unsure
  <2>1. CASE d = c
    BY <1>1, <1>5, <2>1
  <2>2. CASE d \in latent
    <3>1. d.key \in Keys /\ Counts(d)
      BY <1>3, <2>2 DEF Capture, ChipCurrent
    <3>2. d.key = k => c.gen = Unsure
      BY <1>1, <2>2 DEF Lingers
    <3> QED
      BY <1>5, <3>1, <3>2 DEF Counts
  <2> QED
    BY <1>2, <2>1, <2>2
<1>7. ASSUME NEW i \in 1 .. Len(rxfifo), rxfifo[i].kind = "event"
      PROVE  rxfifo[i] = Event([key |-> rxfifo[i].key, gen |-> gen'[rxfifo[i].key]])
  <2>1. rxfifo[i] \in Frames
    BY <1>3
  <2>2. rxfifo[i].key \in Keys
    BY <1>7, <2>1, FrameParts
  <2>3. rxfifo[i].key # k
    BY <1>2, <1>7 DEF KeyQuiet
  <2>4. rxfifo[i] = Event(Current(rxfifo[i].key))
    BY <1>3, <1>7 DEF ChipCurrent
  <2> QED
    BY <1>5, <2>2, <2>3, <2>4 DEF Current
<1>8. Good(Working, frame, Held)'
  <2>1. PICK x \in Gens : x = c.gen
    BY <1>1
  <2> QED
    BY <1>1, <1>2, <2>1, RecordIgnoresNewUse
<1> QED
  BY <1>1, <1>2, <1>3, <1>4, <1>5, <1>6, <1>7, <1>8 DEF c

\* The steps of lan9250_rx() keep the invariant.
LEMMA DriverHolds == ASSUME IInv, Driver PROVE IInv'
<1>t. TypeOK /\ stack \cap lost = {} /\ Good(Working, frame, Held)
  BY DEF IInv
<1>h. Held \in [Pkts -> Int] /\ \A q \in Pkts : Held[q] = One(q \in stack) + One(q \in lost)
  BY DEF Held, One
<1>1. CASE NoBuffer
  <2>1. /\ rxfifo # <<>> /\ rxfifo' = Tail(rxfifo) /\ UNCHANGED <<latent, stack, lost, gen>>
        /\ skewed' \in {skewed, TRUE}
        /\ Become(rx_pending_expire(Working), None, Plain)
    BY <1>1 DEF NoBuffer
  <2>2. PICK s : s = rx_pending_expire(Working)
    OBVIOUS
  <2>3. Good(s, frame, Held) /\ \A q \in Pkts : In(s, q) => In(Working, q)
    BY <1>t, <2>2, ExpireGood
  <2>4. PICK held : held = Held
    OBVIOUS
  <2>5. held = Held'
    BY <2>1, <2>4 DEF Held
  <2>6. PICK fr : fr = frame
    OBVIOUS
  <2>7. fr \in [Pkts -> Frames] /\ \A q \in Pkts : fr[q] = IF q = None THEN Plain ELSE frame[q]
    BY <1>t, <2>6, RxAssumption DEF TypeOK
  <2>8. \A q \in Pkts : q \in lost' => ~In(s, q)
    BY <2>1, <2>3 DEF Good, WaitsForCurrent, In
  <2>9. Good(s, fr, held) /\ stack' \cap lost' = {} /\ gen' = gen /\ Become(s, None, Plain)
    BY <1>t, <2>1, <2>2, <2>3, <2>4, <2>6
  <2>10. /\ Good(Working, frame, Held)'
         /\ captured' \in Seq(Capture) /\ Len(captured') <= HwDepth
         /\ rx_pending' \in [Slots -> Waiting \cup {None}]
         /\ rx_unclaimed' \in [Slots -> Stashed \cup {None}]
         /\ refs' \in [Pkts -> 0 .. 2]
         /\ frame' \in [Pkts -> Frames]
         /\ stamp' \in [Pkts -> Capture \cup {None}]
    BY <2>5, <2>7, <2>8, <2>9, BecomeGood
  <2>11. ChipCurrent' /\ rxfifo' \in Seq(Frames) /\ Len(rxfifo') <= FifoDepth
    BY <2>1, ChipAfterTail
  <2> QED
    BY <1>t, <2>1, <2>9, <2>10, <2>11 DEF IInv, TypeOK
<1>2. ASSUME NEW p \in Pkts, ReadFails(p) PROVE IInv'
  <2>1. /\ rxfifo # <<>> /\ p \in Free /\ rxfifo' = Tail(rxfifo) /\ skewed' = TRUE
        /\ Become(Allocated(p), p, Plain) /\ lost' = lost \cup {p}
        /\ UNCHANGED <<latent, stack, gen>>
    BY <1>2 DEF ReadFails
  <2>2. PICK s : s = Allocated(p)
    OBVIOUS
  <2>3. PICK fr : fr = [q \in Pkts |-> IF q = p THEN Plain ELSE frame[q]]
    OBVIOUS
  <2>4. PICK held : held = [Held EXCEPT ![p] = 1]
    OBVIOUS
  <2>5. Plain \in Frames
    BY DEF Frames
  <2>6. p \notin stack /\ p \notin lost /\ ~In(s, p) /\ Good(s, fr, held)
    BY <2>1, <2>2, <2>3, <2>4, <2>5, AllocatedGood
  <2>7. held = Held'
    <3>1. \A q \in Pkts : held[q] = Held'[q]
      BY <1>h, <2>1, <2>4, <2>6 DEF Held, One
    <3>2. held \in [Pkts -> Int] /\ Held' = [q \in Pkts |-> Held'[q]]
      BY <1>h, <2>4 DEF Held
    <3> QED
      BY <3>1, <3>2
  <2>8. fr \in [Pkts -> Frames] /\ \A q \in Pkts : fr[q] = IF q = p THEN Plain ELSE frame[q]
    BY <1>t, <2>3, <2>5 DEF TypeOK
  <2>9. \A q \in Pkts : q \in lost' => ~In(s, q)
    BY <2>1, <2>6 DEF Good, WaitsForCurrent, In
  <2>10. stack' \cap lost' = {} /\ gen' = gen /\ Become(s, p, Plain)
    BY <1>t, <2>1, <2>2, <2>6
  <2>11. /\ Good(Working, frame, Held)'
         /\ captured' \in Seq(Capture) /\ Len(captured') <= HwDepth
         /\ rx_pending' \in [Slots -> Waiting \cup {None}]
         /\ rx_unclaimed' \in [Slots -> Stashed \cup {None}]
         /\ refs' \in [Pkts -> 0 .. 2]
         /\ frame' \in [Pkts -> Frames]
         /\ stamp' \in [Pkts -> Capture \cup {None}]
    BY <2>6, <2>7, <2>8, <2>9, <2>10, BecomeGood
  <2>12. ChipCurrent' /\ rxfifo' \in Seq(Frames) /\ Len(rxfifo') <= FifoDepth
    BY <2>1, ChipAfterTail
  <2> QED
    BY <1>t, <2>1, <2>10, <2>11, <2>12 DEF IInv, TypeOK
<1>3. ASSUME NEW p \in Pkts, Receive(p) PROVE IInv'
  <2>1. /\ rxfifo # <<>> /\ p \in Free /\ rxfifo' = Tail(rxfifo)
        /\ UNCHANGED <<latent, skewed, lost, gen>>
    BY <1>3 DEF Receive
  <2>0. PICK g \in Seen :
          \E s \in IF g.kind = "plain" THEN {Allocated(p)} ELSE rx_timestamp_check(Allocated(p), p, g) :
            \/ Become(s, p, g) /\ stack' = stack \cup {p}
            \/ Become([s EXCEPT !.refs = net_pkt_unref(@, {p})], p, g) /\ UNCHANGED stack
    BY <1>3 DEF Receive
  <2>2. PICK s \in IF g.kind = "plain" THEN {Allocated(p)} ELSE rx_timestamp_check(Allocated(p), p, g) :
          \/ Become(s, p, g) /\ stack' = stack \cup {p}
          \/ Become([s EXCEPT !.refs = net_pkt_unref(@, {p})], p, g) /\ UNCHANGED stack
    BY <2>0
  <2>4. /\ g \in Frames
        /\ g.kind = "event" => g.key \in Keys /\ g \in {Event(Current(g.key)), Event(Doubtful(g.key))}
    BY <2>1, SeenCurrent
  <2>5. PICK fr : fr = [q \in Pkts |-> IF q = p THEN g ELSE frame[q]]
    OBVIOUS
  <2>6. PICK held : held = [Held EXCEPT ![p] = 1]
    OBVIOUS
  <2>7. PICK a : a = Allocated(p)
    OBVIOUS
  <2>8. p \notin stack /\ p \notin lost /\ ~In(a, p) /\ Good(a, fr, held)
    BY <2>1, <2>4, <2>5, <2>6, <2>7, AllocatedGood
  <2>9. fr \in [Pkts -> Frames] /\ \A q \in Pkts : fr[q] = IF q = p THEN g ELSE frame[q]
    BY <1>t, <2>4, <2>5 DEF TypeOK
  <2>10. Good(s, fr, held)
    <3>1. CASE s = a
      BY <2>8, <3>1
    <3>2. CASE s \in rx_timestamp_check(a, p, g)
      BY <2>4, <2>8, <2>9, <3>2, CheckGood
    <3> QED
      BY <2>2, <2>7, <3>1, <3>2
  <2>11. ChipCurrent' /\ rxfifo' \in Seq(Frames) /\ Len(rxfifo') <= FifoDepth
    BY <2>1, ChipAfterTail
  <2>12. ASSUME NEW z, NEW h, Good(z, fr, h), h = Held', Become(z, p, g),
                stack' \in {stack, stack \cup {p}}
         PROVE  IInv'
    <3>1. stack' \cap lost' = {} /\ gen' = gen
      BY <1>t, <2>1, <2>8, <2>12
    <3>2. \A q \in Pkts : q \in lost' => ~In(z, q)
      BY <2>1, <2>12 DEF Good, WaitsForCurrent, In
    <3>3. /\ Good(Working, frame, Held)'
          /\ captured' \in Seq(Capture) /\ Len(captured') <= HwDepth
          /\ rx_pending' \in [Slots -> Waiting \cup {None}]
          /\ rx_unclaimed' \in [Slots -> Stashed \cup {None}]
          /\ refs' \in [Pkts -> 0 .. 2]
          /\ frame' \in [Pkts -> Frames]
          /\ stamp' \in [Pkts -> Capture \cup {None}]
      BY <2>9, <2>12, <3>1, <3>2, BecomeGood
    <3>4. skewed' \in BOOLEAN /\ latent' \subseteq Capture /\ lost' \subseteq Pkts
          /\ gen' \in [Keys -> Gens] /\ stack' \subseteq Pkts
      BY <1>t, <2>1, <2>12 DEF TypeOK
    <3> QED
      BY <2>11, <3>1, <3>3, <3>4 DEF IInv, TypeOK
  <2>13. CASE Become(s, p, g) /\ stack' = stack \cup {p}
    <3>1. held = Held'
      <4>1. \A q \in Pkts : held[q] = Held'[q]
        BY <1>h, <2>1, <2>6, <2>8, <2>13 DEF Held, One
      <4>2. held \in [Pkts -> Int] /\ Held' = [q \in Pkts |-> Held'[q]]
        BY <1>h, <2>6 DEF Held
      <4> QED
        BY <4>1, <4>2
    <3> QED
      BY <2>10, <2>12, <2>13, <3>1
  <2>14. CASE Become([s EXCEPT !.refs = net_pkt_unref(@, {p})], p, g) /\ UNCHANGED stack
    <3>1. PICK z : z = [s EXCEPT !.refs = net_pkt_unref(@, {p})]
      OBVIOUS
    <3>2. PICK h : h = [held EXCEPT ![p] = @ - 1]
      OBVIOUS
    <3>3. Good(z, fr, h)
      BY <2>10, <3>1, <3>2, UnrefGood
    <3>4. h = Held'
      <4>1. \A q \in Pkts : h[q] = Held'[q]
        BY <1>h, <2>1, <2>6, <2>8, <2>14, <3>2 DEF Held, One
      <4>2. h \in [Pkts -> Int] /\ Held' = [q \in Pkts |-> Held'[q]]
        BY <1>h, <2>6, <3>2 DEF Held
      <4> QED
        BY <4>1, <4>2
    <3> QED
      BY <2>12, <2>14, <3>1, <3>3, <3>4
  <2> QED
    BY <2>2, <2>13, <2>14
<1>4. ASSUME UNCHANGED <<matcher, packets, captured, gen>>
      PROVE  Good(Working, frame, Held)'
  <2>1. /\ Working' = Working /\ frame' = frame /\ Held' = Held /\ lost' = lost /\ gen' = gen
        /\ \A j : Current(j)' = Current(j)
    BY <1>4 DEF Working, Held, matcher, packets, Current
  <2> QED
    BY <1>t, <2>1 DEF Good, WorkType, OnceEach, WaitsForCurrent, CapturesCurrent, Counted, In,
                      StampsMatch, NoneMissed, Counts, Doubtful
<1>5. CASE HeaderFails
  <2>1. /\ rxfifo # <<>> /\ rxfifo' = Tail(rxfifo) /\ skewed' = TRUE
        /\ UNCHANGED <<latent, captured, matcher, packets, gen>>
    BY <1>5 DEF HeaderFails
  <2>2. ChipCurrent' /\ rxfifo' \in Seq(Frames) /\ Len(rxfifo') <= FifoDepth
    BY <2>1, ChipAfterTail
  <2> QED
    BY <1>t, <1>4, <2>1, <2>2 DEF IInv, TypeOK, matcher, packets
<1>6. CASE LandsBetweenReads
  <2>1. skewed' = TRUE /\ UNCHANGED <<rxfifo, captured, matcher, packets>>
    BY <1>6 DEF LandsBetweenReads
  <2>2. CASE UNCHANGED <<latent, gen>>
    <3>1. ChipCurrent'
      BY <2>1, <2>2 DEF IInv, ChipCurrent, Counts, Current
    <3> QED
      BY <1>t, <1>4, <2>1, <2>2, <3>1 DEF IInv, TypeOK, matcher, packets
  <2>3. ASSUME NEW k \in Keys, Captures(NextUse(k)) PROVE IInv'
    <3>1. /\ gen' \in [Keys -> Gens] /\ latent' \subseteq Capture
          /\ \A d \in latent' : d.gen = gen'[d.key] \/ gen'[d.key] = Unsure
          /\ \A i \in 1 .. Len(rxfifo) : rxfifo[i].kind = "event" =>
               rxfifo[i] = Event([key |-> rxfifo[i].key, gen |-> gen'[rxfifo[i].key]])
          /\ Good(Working, frame, Held)'
      BY <2>1, <2>3, NewUse
    <3>2. ChipCurrent'
      BY <2>1, <3>1 DEF ChipCurrent, Counts, Current
    <3> QED
      BY <1>t, <2>1, <3>1, <3>2 DEF IInv, TypeOK, matcher, packets
  <2> QED
    BY <1>6, <2>2, <2>3 DEF LandsBetweenReads
<1> QED
  BY <1>1, <1>2, <1>3, <1>5, <1>6 DEF Driver
\* What arrives on the wire and what the chip captures keep the invariant.
LEMMA WireHolds == ASSUME IInv, Wire PROVE IInv'
<1>t. TypeOK /\ ChipCurrent /\ stack \cap lost = {} /\ Good(Working, frame, Held)
  BY DEF IInv
<1>n. FifoDepth \in Nat /\ HwDepth \in Nat
  BY RxAssumption
<1>f. rxfifo \in Seq(Frames) /\ Len(rxfifo) \in Nat /\ captured \in Seq(Capture) /\ Len(captured) \in Nat
  BY <1>t DEF TypeOK
<1>1. ASSUME NEW f \in {Plain, General}, Arrive(f) PROVE IInv'
  <2>1. Len(rxfifo) < FifoDepth /\ rxfifo' = Append(rxfifo, f)
        /\ UNCHANGED <<latent, captured, skewed, matcher, packets, gen>>
    BY <1>1 DEF Arrive
  <2>2. f \in Frames /\ f.kind # "event"
    BY DEF Frames, Plain, General
  <2>3. /\ rxfifo' \in Seq(Frames) /\ Len(rxfifo') = Len(rxfifo) + 1
        /\ \A i \in 1 .. Len(rxfifo) : rxfifo'[i] = rxfifo[i]
        /\ rxfifo'[Len(rxfifo) + 1] = f
    BY <1>f, <2>1, <2>2, AppendProperties
  <2>4. TypeOK'
    BY <1>t, <1>n, <1>f, <2>1, <2>3 DEF TypeOK, matcher, packets
  <2>5. \A i \in 1 .. Len(rxfifo') :
          rxfifo'[i].kind = "event" => rxfifo'[i] = Event(Current(rxfifo'[i].key))
    <3> SUFFICES ASSUME NEW i \in 1 .. Len(rxfifo'), rxfifo'[i].kind = "event"
                 PROVE  rxfifo'[i] = Event(Current(rxfifo'[i].key))
      OBVIOUS
    <3>1. i \in 1 .. Len(rxfifo) \/ i = Len(rxfifo) + 1
      BY <1>f, <2>3
    <3> QED
      BY <1>t, <2>2, <2>3, <3>1 DEF ChipCurrent
  <2>6. ChipCurrent'
    BY <1>t, <2>1, <2>5 DEF ChipCurrent, Current, Counts
  <2>7. Good(Working, frame, Held)'
    <3>1. /\ Working' = Working /\ frame' = frame /\ Held' = Held /\ lost' = lost /\ gen' = gen
          /\ \A j : Current(j)' = Current(j)
      BY <2>1 DEF Working, Held, matcher, packets, Current
    <3> QED
      BY <1>t, <3>1 DEF Good, WorkType, OnceEach, WaitsForCurrent, CapturesCurrent, Counted, In,
                        StampsMatch, NoneMissed, Counts, Doubtful
  <2> QED
    BY <1>t, <2>1, <2>4, <2>6, <2>7 DEF IInv, packets
<1>2. ASSUME NEW k \in Keys, ArriveEvent(k) PROVE IInv'
  <2> DEFINE c == NextUse(k)
  <2>1. /\ Captures(c)
        /\ rxfifo' = IF Len(rxfifo) < FifoDepth THEN Append(rxfifo, Event(c)) ELSE rxfifo
        /\ UNCHANGED <<captured, skewed, matcher, packets>>
    BY <1>2 DEF ArriveEvent
  <2>2. /\ Event(c) \in Frames /\ Event(c) = Event([key |-> k, gen |-> gen'[k]])
        /\ gen' \in [Keys -> Gens] /\ latent' \subseteq Capture
        /\ \A d \in latent' : d.gen = gen'[d.key] \/ gen'[d.key] = Unsure
        /\ \A i \in 1 .. Len(rxfifo) : rxfifo[i].kind = "event" =>
             rxfifo[i] = Event([key |-> rxfifo[i].key, gen |-> gen'[rxfifo[i].key]])
        /\ Good(Working, frame, Held)'
    BY <2>1, NewUse
  <2>3. PICK x : x = Event(c)
    OBVIOUS
  <2> HIDE DEF c
  <2>4. x \in Frames /\ x = Event([key |-> x.key, gen |-> gen'[x.key]])
    BY <2>2, <2>3 DEF Event
  <2>6. /\ rxfifo' \in Seq(Frames) /\ Len(rxfifo') <= FifoDepth
        /\ \A i \in 1 .. Len(rxfifo') : \/ i \in 1 .. Len(rxfifo) /\ rxfifo'[i] = rxfifo[i]
                                        \/ rxfifo'[i] = x
    <3>1. CASE Len(rxfifo) < FifoDepth
      <4>1. /\ rxfifo' \in Seq(Frames) /\ Len(rxfifo') = Len(rxfifo) + 1
            /\ \A i \in 1 .. Len(rxfifo) : rxfifo'[i] = rxfifo[i]
            /\ rxfifo'[Len(rxfifo) + 1] = x
        BY <1>f, <2>1, <2>3, <2>4, <3>1, AppendProperties
      <4>2. \A i \in 1 .. Len(rxfifo') : i \in 1 .. Len(rxfifo) \/ i = Len(rxfifo) + 1
        BY <1>f, <4>1
      <4> QED
        BY <1>n, <1>f, <3>1, <4>1, <4>2
    <3>2. CASE ~(Len(rxfifo) < FifoDepth)
      BY <1>t, <2>1, <3>2 DEF TypeOK
    <3> QED
      BY <3>1, <3>2
  <2>7. TypeOK'
    BY <1>t, <2>1, <2>2, <2>6 DEF TypeOK, matcher, packets
  <2>8. ChipCurrent'
    <3>1. ASSUME NEW i \in 1 .. Len(rxfifo'), rxfifo'[i].kind = "event"
          PROVE  rxfifo'[i] = Event([key |-> rxfifo'[i].key, gen |-> gen'[rxfifo'[i].key]])
      BY <2>2, <2>4, <2>6, <3>1
    <3> QED
      BY <2>2, <3>1 DEF ChipCurrent, Current, Counts
  <2> QED
    BY <1>t, <2>1, <2>2, <2>7, <2>8 DEF IInv, packets
<1>3. ASSUME NEW c \in Capture, Capturing(c) PROVE IInv'
  <2>1. /\ c \in latent /\ latent' = latent \ {c}
        /\ captured' = IF Len(captured) < HwDepth THEN Append(captured, c) ELSE captured
        /\ UNCHANGED <<rxfifo, skewed, matcher, packets, gen>>
    BY <1>3 DEF Capturing
  <2>2. Counts(c)
    BY <1>t, <2>1 DEF ChipCurrent
  <2>3. /\ captured' \in Seq(Capture) /\ Len(captured') <= HwDepth
        /\ \A i \in 1 .. Len(captured') : \/ i \in 1 .. Len(captured) /\ captured'[i] = captured[i]
                                          \/ captured'[i] = c
    <3>1. CASE Len(captured) < HwDepth
      <4>1. /\ captured' \in Seq(Capture) /\ Len(captured') = Len(captured) + 1
            /\ \A i \in 1 .. Len(captured) : captured'[i] = captured[i]
            /\ captured'[Len(captured) + 1] = c
        BY <1>f, <2>1, <3>1, AppendProperties
      <4>2. \A i \in 1 .. Len(captured') : i \in 1 .. Len(captured) \/ i = Len(captured) + 1
        BY <1>f, <4>1
      <4> QED
        BY <1>n, <1>f, <3>1, <4>1, <4>2
    <3>2. CASE ~(Len(captured) < HwDepth)
      BY <1>t, <2>1, <3>2 DEF TypeOK
    <3> QED
      BY <3>1, <3>2
  <2>4. TypeOK'
    BY <1>t, <2>1, <2>3 DEF TypeOK, matcher, packets
  <2>5. ChipCurrent'
    BY <1>t, <2>1 DEF ChipCurrent, Current, Counts
  <2>6. Good(Working, frame, Held)'
    <3> DEFINE w == Working
    <3>1. /\ w'.pend = w.pend /\ w'.uncl = w.uncl /\ w'.refs = w.refs /\ w'.stamp = w.stamp
          /\ w'.hw = captured' /\ w.hw = captured
          /\ DOMAIN w' = {"pend", "uncl", "hw", "refs", "stamp"}
          /\ frame' = frame /\ Held' = Held /\ lost' = lost /\ gen' = gen
          /\ \A j : Current(j)' = Current(j)
      BY <2>1 DEF Working, Held, matcher, packets, Current
    <3>2. Good(w, frame, Held)
      BY <1>t
    <3> HIDE DEF w
    <3>3. WorkType(w)' /\ Len(w'.hw) <= HwDepth
      BY <2>3, <3>1, <3>2 DEF Good, WorkType
    <3>4. CapturesCurrent(w)'
      BY <2>2, <2>3, <3>1, <3>2 DEF Good, CapturesCurrent, Counts
    <3>5. Counted(w, Held)' /\ OnceEach(w)' /\ NoneMissed(w)'
      <4>1. \A q : In(w, q)' <=> In(w, q)
        BY <3>1 DEF In
      <4>2. Counted(w, Held)'
        BY <3>1, <3>2, <4>1 DEF Good, Counted, One
      <4> QED
        BY <3>1, <3>2, <4>2 DEF Good, OnceEach, NoneMissed
    <3>6. WaitsForCurrent(w, frame)' /\ StampsMatch(w, frame)'
      BY <3>1, <3>2 DEF Good, WaitsForCurrent, StampsMatch, Doubtful
    <3> QED
      BY <3>1, <3>2, <3>3, <3>4, <3>5, <3>6 DEF Good, w
  <2> QED
    BY <1>t, <2>1, <2>4, <2>5, <2>6 DEF IInv, packets
<1> QED
  BY <1>1, <1>2, <1>3 DEF Wire
\* The stack gives a packet back.
LEMMA ConsumeHolds == ASSUME IInv, NEW p \in Pkts, Consume(p) PROVE IInv'
<1>t. TypeOK /\ ChipCurrent /\ stack \cap lost = {} /\ Good(Working, frame, Held)
  BY DEF IInv
<1>1. /\ p \in stack /\ stack' = stack \ {p}
      /\ Become([Working EXCEPT !.refs = net_pkt_unref(@, {p})], None, Plain)
      /\ UNCHANGED <<rxfifo, latent, skewed, lost, gen>>
  BY DEF Consume
<1>2. PICK z : z = [Working EXCEPT !.refs = net_pkt_unref(@, {p})]
  OBVIOUS
<1>3. PICK h : h = [Held EXCEPT ![p] = @ - 1]
  OBVIOUS
<1>4. PICK fr : fr = frame
  OBVIOUS
<1>5. Good(z, fr, h)
  BY <1>t, <1>2, <1>3, <1>4, UnrefGood
<1>6. h = Held'
  <2>1. Held \in [Pkts -> Int] /\ \A q \in Pkts : Held[q] = One(q \in stack) + One(q \in lost)
    BY DEF Held, One
  <2>2. \A q \in Pkts : h[q] = Held'[q]
    BY <1>1, <1>3, <2>1 DEF Held, One
  <2>3. h \in [Pkts -> Int] /\ Held' = [q \in Pkts |-> Held'[q]]
    BY <1>3, <2>1 DEF Held
  <2> QED
    BY <2>2, <2>3
<1>7. fr \in [Pkts -> Frames] /\ \A q \in Pkts : fr[q] = IF q = None THEN Plain ELSE frame[q]
  BY <1>t, <1>4, RxAssumption DEF TypeOK
<1>8. \A q \in Pkts : q \in lost' => ~In(z, q)
  BY <1>1, <1>5 DEF Good, WaitsForCurrent, In
<1>9. stack' \cap lost' = {} /\ gen' = gen /\ Become(z, None, Plain)
  BY <1>t, <1>1, <1>2
<1>10. /\ Good(Working, frame, Held)'
       /\ captured' \in Seq(Capture) /\ Len(captured') <= HwDepth
       /\ rx_pending' \in [Slots -> Waiting \cup {None}]
       /\ rx_unclaimed' \in [Slots -> Stashed \cup {None}]
       /\ refs' \in [Pkts -> 0 .. 2]
       /\ frame' \in [Pkts -> Frames]
       /\ stamp' \in [Pkts -> Capture \cup {None}]
  BY <1>5, <1>6, <1>7, <1>8, <1>9, BecomeGood
<1>11. ChipCurrent'
  BY <1>t, <1>1 DEF ChipCurrent, Current, Counts
<1>12. TypeOK'
  BY <1>t, <1>1, <1>10 DEF TypeOK
<1> QED
  BY <1>9, <1>10, <1>11, <1>12 DEF IInv

\* Time passes: deadlines only come nearer, nothing else changes.
LEMMA TickHolds == ASSUME IInv, Tick PROVE IInv'
<1>t. TypeOK /\ ChipCurrent /\ stack \cap lost = {} /\ Good(Working, frame, Held)
  BY DEF IInv
<1>1. /\ rx_pending' = Elapse(rx_pending) /\ rx_unclaimed' = Elapse(rx_unclaimed)
      /\ UNCHANGED <<rxfifo, latent, captured, skewed, refs, frame, stamp, stack, lost, gen>>
  BY DEF Tick, chip, packets
<1>2. ASSUME NEW list, NEW i \in Slots, list[i] \in Waiting \cup Stashed, list[i] # None
      PROVE  /\ Elapse(list)[i].left <= list[i].left
             /\ Elapse(list)[i].left \in 0 .. TIMEOUT
             /\ Elapse(list)[i].key = list[i].key
             /\ list[i] \in Waiting => Elapse(list)[i] \in Waiting /\ Elapse(list)[i].pkt = list[i].pkt
             /\ list[i] \in Stashed => Elapse(list)[i] \in Stashed /\ Elapse(list)[i].gen = list[i].gen
  <2>1. list[i].left \in 0 .. TIMEOUT /\ TIMEOUT \in Nat
    BY <1>2, RxAssumption DEF Waiting, Stashed
  <2>2. CASE list[i].left = 0
    <3>1. Elapse(list)[i] = list[i]
      BY <2>2 DEF Elapse
    <3> QED
      BY <2>1, <3>1
  <2>3. CASE list[i].left # 0
    <3>1. Elapse(list)[i] = [list[i] EXCEPT !.left = @ - 1]
      BY <1>2, <2>3 DEF Elapse
    <3>2. list[i].left - 1 \in 0 .. TIMEOUT /\ list[i].left - 1 <= list[i].left
      BY <2>1, <2>3
    <3>3. CASE list[i] \in Waiting
      <4>1. list[i] = [pkt |-> list[i].pkt, key |-> list[i].key, left |-> list[i].left]
            /\ list[i].pkt \in Pkts /\ list[i].key \in Keys
        BY <3>3 DEF Waiting
      <4>2. Elapse(list)[i] = [pkt |-> list[i].pkt, key |-> list[i].key, left |-> list[i].left - 1]
        BY <3>1, <4>1
      <4>3. Elapse(list)[i] \in Waiting
        BY <3>2, <4>1, <4>2 DEF Waiting
      <4>4. list[i] \notin Stashed
        BY <3>3 DEF Waiting, Stashed
      <4> QED
        BY <3>2, <4>2, <4>3, <4>4
    <3>4. CASE list[i] \in Stashed
      <4>1. list[i] = [key |-> list[i].key, gen |-> list[i].gen, left |-> list[i].left]
            /\ list[i].key \in Keys /\ list[i].gen \in Gens
        BY <3>4 DEF Stashed
      <4>2. Elapse(list)[i] = [key |-> list[i].key, gen |-> list[i].gen, left |-> list[i].left - 1]
        BY <3>1, <4>1
      <4>3. Elapse(list)[i] \in Stashed
        BY <3>2, <4>1, <4>2 DEF Stashed
      <4>4. list[i] \notin Waiting
        BY <3>4 DEF Waiting, Stashed
      <4> QED
        BY <3>2, <4>2, <4>3, <4>4
    <3> QED
      BY <1>2, <3>3, <3>4
  <2> QED
    BY <2>2, <2>3
<1>3. /\ rx_pending \in [Slots -> Waiting \cup {None}]
      /\ rx_unclaimed \in [Slots -> Stashed \cup {None}]
  BY <1>t DEF TypeOK
<1>4. /\ rx_pending' \in [Slots -> Waiting \cup {None}]
      /\ \A i \in Slots :
           /\ rx_pending'[i] = None <=> rx_pending[i] = None
           /\ rx_pending[i] # None =>
                /\ rx_pending'[i].pkt = rx_pending[i].pkt /\ rx_pending'[i].key = rx_pending[i].key
                /\ rx_pending'[i].left <= rx_pending[i].left
                /\ rx_pending'[i].left \in 0 .. TIMEOUT /\ rx_pending[i].left \in 0 .. TIMEOUT
  <2>1. ASSUME NEW i \in Slots, rx_pending[i] # None
        PROVE  /\ rx_pending'[i] \in Waiting
               /\ rx_pending'[i].pkt = rx_pending[i].pkt /\ rx_pending'[i].key = rx_pending[i].key
               /\ rx_pending'[i].left <= rx_pending[i].left
               /\ rx_pending'[i].left \in 0 .. TIMEOUT /\ rx_pending[i].left \in 0 .. TIMEOUT
    <3>1. rx_pending[i] \in Waiting
      BY <1>3, <2>1
    <3> QED
      BY <1>1, <1>2, <2>1, <3>1 DEF Waiting
  <2>2. ASSUME NEW i \in Slots, rx_pending[i] = None PROVE rx_pending'[i] = None
    BY <1>1, <2>2 DEF Elapse
  <2>3. None \notin Waiting
    BY NoneIsNothing
  <2>4. rx_pending' = [i \in Slots |-> rx_pending'[i]]
    BY <1>1 DEF Elapse
  <2>5. \A i \in Slots : rx_pending'[i] \in Waiting \cup {None}
    BY <2>1, <2>2
  <2>6. rx_pending' \in [Slots -> Waiting \cup {None}]
    BY <2>4, <2>5
  <2> QED
    BY <2>1, <2>2, <2>3, <2>6
<1>5. /\ rx_unclaimed' \in [Slots -> Stashed \cup {None}]
      /\ \A i \in Slots :
           /\ rx_unclaimed'[i] = None <=> rx_unclaimed[i] = None
           /\ rx_unclaimed[i] # None =>
                /\ rx_unclaimed'[i].gen = rx_unclaimed[i].gen /\ rx_unclaimed'[i].key = rx_unclaimed[i].key
                /\ rx_unclaimed'[i].left <= rx_unclaimed[i].left
                /\ rx_unclaimed'[i].left \in 0 .. TIMEOUT /\ rx_unclaimed[i].left \in 0 .. TIMEOUT
  <2>1. ASSUME NEW i \in Slots, rx_unclaimed[i] # None
        PROVE  /\ rx_unclaimed'[i] \in Stashed
               /\ rx_unclaimed'[i].gen = rx_unclaimed[i].gen /\ rx_unclaimed'[i].key = rx_unclaimed[i].key
               /\ rx_unclaimed'[i].left <= rx_unclaimed[i].left
               /\ rx_unclaimed'[i].left \in 0 .. TIMEOUT /\ rx_unclaimed[i].left \in 0 .. TIMEOUT
    <3>1. rx_unclaimed[i] \in Stashed
      BY <1>3, <2>1
    <3> QED
      BY <1>1, <1>2, <2>1, <3>1 DEF Stashed
  <2>2. ASSUME NEW i \in Slots, rx_unclaimed[i] = None PROVE rx_unclaimed'[i] = None
    BY <1>1, <2>2 DEF Elapse
  <2>3. None \notin Stashed
    BY NoneIsNothing
  <2>4. rx_unclaimed' = [i \in Slots |-> rx_unclaimed'[i]]
    BY <1>1 DEF Elapse
  <2>5. \A i \in Slots : rx_unclaimed'[i] \in Stashed \cup {None}
    BY <2>1, <2>2
  <2>6. rx_unclaimed' \in [Slots -> Stashed \cup {None}]
    BY <2>4, <2>5
  <2> QED
    BY <2>1, <2>2, <2>3, <2>6
<1>6. TypeOK' /\ ChipCurrent'
  BY <1>t, <1>1, <1>4, <1>5 DEF TypeOK, ChipCurrent, Current, Counts
<1> DEFINE w == Working
<1>7. /\ w.pend = rx_pending /\ w'.pend = rx_pending' /\ w.uncl = rx_unclaimed /\ w'.uncl = rx_unclaimed'
      /\ w'.hw = w.hw /\ w'.refs = w.refs /\ w'.stamp = w.stamp
      /\ DOMAIN w' = {"pend", "uncl", "hw", "refs", "stamp"}
      /\ frame' = frame /\ Held' = Held /\ lost' = lost /\ gen' = gen
      /\ \A j : Current(j)' = Current(j)
  BY <1>1 DEF Working, Held, Current
<1>8. Good(w, frame, Held)
  BY <1>t
<1> HIDE DEF w
<1>9. WorkType(w)'
  BY <1>4, <1>5, <1>7, <1>8 DEF Good, WorkType
<1>10. OnceEach(w)'
  BY <1>4, <1>7, <1>8 DEF Good, OnceEach
<1>11. ASSUME NEW m \in 0 .. TIMEOUT, NEW n \in 0 .. TIMEOUT, m <= n
       PROVE  (m > 0 => n > 0) /\ (n = 0 => m = 0)
  BY <1>11, RxAssumption
<1>12. WaitsForCurrent(w, frame)'
  <2>0. ASSUME NEW i \in Slots, rx_pending'[i] # None
        PROVE  /\ rx_pending'[i].left > 0
                    => frame[rx_pending'[i].pkt] \in {Event([key |-> rx_pending'[i].key, gen |-> gen[rx_pending'[i].key]]),
                                                     Event(Doubtful(rx_pending'[i].key))}
               /\ rx_pending'[i].pkt \notin lost
    <3>1. /\ rx_pending[i] # None /\ rx_pending'[i].pkt = rx_pending[i].pkt
          /\ rx_pending'[i].key = rx_pending[i].key
          /\ rx_pending'[i].left > 0 => rx_pending[i].left > 0
      BY <1>4, <1>11, <2>0
    <3>2. /\ rx_pending[i].left > 0
               => frame[rx_pending[i].pkt] \in {Event(Current(rx_pending[i].key)), Event(Doubtful(rx_pending[i].key))}
          /\ rx_pending[i].pkt \notin lost
      BY <1>7, <1>8, <3>1 DEF Good, WaitsForCurrent
    <3> QED
      BY <3>1, <3>2 DEF Current
  <2> QED
    BY <1>7, <2>0 DEF WaitsForCurrent, Current, Doubtful
<1>13. CapturesCurrent(w)'
  BY <1>5, <1>7, <1>8, <1>11 DEF Good, CapturesCurrent, Counts
<1>14. NoneMissed(w)'
  BY <1>4, <1>5, <1>7, <1>8, <1>11 DEF Good, NoneMissed
<1>15. StampsMatch(w, frame)'
  BY <1>7, <1>8 DEF Good, StampsMatch, Doubtful
<1>16. Counted(w, Held)'
  <2>1. \A q : In(w, q)' <=> In(w, q)
    BY <1>4, <1>7 DEF In
  <2> QED
    BY <1>7, <1>8, <2>1 DEF Good, Counted, One
<1>17. Good(w, frame, Held)'
  BY <1>7, <1>8, <1>9, <1>10, <1>12, <1>13, <1>14, <1>15, <1>16 DEF Good
<1> QED
  BY <1>t, <1>1, <1>6, <1>17 DEF IInv, w

LEMMA StepHolds == IInv /\ [Next]_vars => IInv'
<1> SUFFICES ASSUME IInv, [Next]_vars PROVE IInv'
  OBVIOUS
<1>1. CASE UNCHANGED vars
  <2>1. UNCHANGED <<rxfifo, latent, captured, skewed, rx_pending, rx_unclaimed, refs, frame, stamp,
                    stack, lost, gen>>
    BY <1>1 DEF vars, chip, matcher, packets
  <2>2. Working' = Working /\ Held' = Held /\ \A j : Current(j)' = Current(j)
    BY <2>1 DEF Working, Held, Current
  <2>3. TypeOK' /\ ChipCurrent'
    BY <2>1 DEF IInv, TypeOK, ChipCurrent, Current, Counts
  <2>4. Good(Working, frame, Held)'
    BY <2>1, <2>2 DEF IInv, Good, WorkType, OnceEach, WaitsForCurrent, CapturesCurrent, Counted, In,
                      StampsMatch, NoneMissed, Counts, Doubtful
  <2> QED
    BY <2>1, <2>3, <2>4 DEF IInv
<1> QED
  BY <1>1, DriverHolds, WireHolds, TickHolds, ConsumeHolds DEF Next

----------------------------------------------------------------------------
(* The theorems.                                                           *)

\* Every variable keeps its type: in particular a packet has never more than
\* two references and never fewer than none.
THEOREM TypeCorrect == Spec => []TypeOK
<1>1. IInv => TypeOK
  BY DEF IInv
<1> QED
  BY <1>1, InitHolds, StepHolds, PTL DEF Spec

\* The reference count of every packet is the number of its holders, for every
\* pool, list length and pattern of failing transfers: lan9250_rx() never
\* frees a packet the stack or the list still has, and never keeps one too
\* many, except the packet of a failed read, which it loses.
THEOREM RefsAlwaysBalanced == Spec => []RefsBalanced
<1>1. IInv => RefsBalanced
  <2> SUFFICES ASSUME IInv, NEW p \in Pkts
               PROVE  refs[p] = One(Pending(p)) + One(p \in stack) + One(p \in lost)
    BY DEF RefsBalanced
  <2>1. refs[p] = One(In(Working, p)) + (One(p \in stack) + One(p \in lost))
    BY DEF IInv, Good, Counted, Held, Working
  <2>2. In(Working, p) <=> Pending(p)
    BY DEF In, Pending, Working
  <2> QED
    BY <2>1, <2>2 DEF One
<1> QED
  BY <1>1, InitHolds, StepHolds, PTL DEF Spec

\* A timestamp is attached only to a frame with its messageType and sequenceId,
\* and only to the one it was captured for, whatever the order in which frames
\* and captures are seen and whichever were lost: unless the frame came, after
\* its sender restarted, while a capture from before was still unmatched, or
\* was read out of step with the FIFO.
THEOREM StampsAreCorrect == Spec => []StampCorrect
<1>1. IInv => StampCorrect
  <2> SUFFICES ASSUME IInv, NEW p \in Pkts, stamp[p] # None
               PROVE  /\ frame[p].kind = "event" /\ frame[p].key = stamp[p].key
                      /\ frame[p].gen = stamp[p].gen \/ frame[p].gen = Unsure
    BY DEF StampCorrect
  <2>1. frame[p] \in {Event(stamp[p]), Event(Doubtful(stamp[p].key))}
    BY DEF IInv, Good, StampsMatch, Working
  <2> QED
    BY <2>1 DEF Event, Doubtful
<1> QED
  BY <1>1, InitHolds, StepHolds, PTL DEF Spec

\* The two halves of a match never wait in the two lists together.
THEOREM NeverMissed == Spec => []NoMissedMatch
<1>1. IInv => NoMissedMatch
  BY DEF IInv, Good, NoneMissed, NoMissedMatch, Working
<1> QED
  BY <1>1, InitHolds, StepHolds, PTL DEF Spec
=============================================================================
