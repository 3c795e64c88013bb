---------------------------- MODULE TxPathProofs ----------------------------
(***************************************************************************)
(* The transmit path's types, mutual exclusion and timestamps, for every   *)
(* set of senders, every mix of frames and every depth of the chip's       *)
(* queues.                                                                 *)
(***************************************************************************)
EXTENDS TxPath, Integers, TLAPS

Labels  == {"idle", "sem", "cmd", "data", "drain", "check", "select",
            "poll", "selecttx", "read", "ack", "out", "give"}
InCheck == {"select", "poll", "selecttx", "read", "ack", "out"}
OwnsBuf == {"data", "drain", "check", "select", "poll", "selecttx", "read", "ack"}

\* The interface lock, not tx_rx_sem, is what keeps senders apart.
OneSender == \A s \in Senders : pc[s] # "idle" => tx_lock = s

BufOwned == \A s \in Senders : pc[s] \in OwnsBuf => buf = s

\* bank_lock is held through the check, and by the receive thread through its own.
BankOwned == /\ \A s \in Senders : pc[s] \in InCheck => bank_lock = s
             /\ tpc = "unlock" => bank_lock = Thread

\* The bank selected is the one the next transfer is about.
BankSelected == \A s \in Senders :
  /\ pc[s] = "poll" => bank = "general"
  /\ pc[s] = "read" => bank = "tx"

\* Only the sender itself takes a capture away.
CaptureThere == \A s \in Senders : pc[s] \in {"selecttx", "read", "ack"} => cap # <<>>

\* An event frame was accepted with room for it.
RoomKept == \A s \in Senders :
  pc[s] \in {"sem", "cmd", "data"} /\ pkt[s] = "event" => Len(wire) < WireDepth

\* A count that was not 0 is not 0 when the status is read.
CountKept == tpc = "pop" => rxfifo > 0

\* int_sem counts edges the thread has not taken: at most the one that the
\* line, active now, made.
EdgesCounted ==
  /\ tpc = "take" => int_sem = IF Line THEN 1 ELSE 0
  /\ tpc = "mask" => int_sem = 0 /\ Line
  /\ tpc \notin {"take", "mask"} => int_sem = 0 /\ int_en = {}

Locks == OneSender /\ BufOwned /\ BankOwned /\ BankSelected /\ CaptureThere
IInv  == TypeOK /\ Locks /\ RoomKept /\ CountKept /\ EdgesCounted

----------------------------------------------------------------------------
LEMMA Bounds ==
  /\ SeqMod \in Nat /\ ATTEMPTS \in Nat \ {0} /\ WireDepth \in Nat /\ CapDepth \in Nat
  /\ RxDepth \in Nat /\ SemMax \in Nat \ {0} /\ MaxFaults \in Nat
  /\ None \notin Senders /\ Thread \notin Senders \cup {None}
  /\ \A s \in Senders : Sends[s] \subseteq Frames
BY TxAssumption DEF Thread, Frames

\* What appending to and removing from a bounded queue gives.
LEMMA Queues ==
  ASSUME NEW q \in Seq(Ages), NEW n \in Nat, Len(q) <= n
  PROVE  /\ \A a \in Ages : /\ Append(q, a) \in Seq(Ages) /\ Append(q, a) # <<>>
                            /\ Len(q) < n => Len(Append(q, a)) <= n
         /\ q # <<>> => Head(q) \in Ages /\ Tail(q) \in Seq(Ages) /\ Len(Tail(q)) < Len(q)
<1>1. ASSUME NEW a \in Ages
      PROVE  Append(q, a) \in Seq(Ages) /\ Append(q, a) # <<>> /\ (Len(q) < n => Len(Append(q, a)) <= n)
  <2>1. Append(q, a) \in Seq(Ages) /\ Len(Append(q, a)) = Len(q) + 1 /\ Len(q) \in Nat
    OBVIOUS
  <2>2. Append(q, a) # <<>>
    BY <2>1
  <2> QED  BY <2>1, <2>2
<1>2. ASSUME q # <<>> PROVE Head(q) \in Ages /\ Tail(q) \in Seq(Ages) /\ Len(Tail(q)) < Len(q)
  BY <1>2
<1> QED  BY <1>1, <1>2

LEMMA AgesAreNumbers == ASSUME NEW q \in Seq(Ages), NEW i \in 1 .. Len(q) PROVE q[i] \in Nat
<1>1. q[i] \in Ages
  OBVIOUS
<1> QED BY <1>1, Bounds DEF Ages

LEMMA NumberQueue == ASSUME NEW q \in Seq(Ages) PROVE q \in Seq(Nat)
<1>1. Len(q) \in Nat /\ q = [i \in 1 .. Len(q) |-> q[i]]
  OBVIOUS
<1>2. \A i \in 1 .. Len(q) : q[i] \in Nat
  BY AgesAreNumbers
<1>3. q \in [1 .. Len(q) -> Nat]
  BY ONLY <1>1, <1>2
<1> QED BY ONLY <1>1, <1>3

LEMMA OlderType ==
  ASSUME NEW ages \in Seq(Ages)
  PROVE  /\ Older(ages) \in Seq(Ages) /\ Len(Older(ages)) = Len(ages)
         /\ ages # <<>> => Older(ages) # <<>>
<1>1. SeqMod \in Nat
  BY TxAssumption
<1>2. DOMAIN ages = 1 .. Len(ages) /\ Len(ages) \in Nat
  OBVIOUS
<1>3. \A i \in 1 .. Len(ages) : (IF ages[i] < SeqMod THEN ages[i] + 1 ELSE SeqMod) \in Ages
  BY <1>1 DEF Ages
<1>4. Older(ages) \in [1 .. Len(ages) -> Ages]
  BY <1>2, <1>3 DEF Older
<1>5. Older(ages) \in Seq(Ages) /\ Len(Older(ages)) = Len(ages)
  BY <1>2, <1>4
<1> QED  BY <1>5

LEMMA InitHolds == Init => IInv
<1> SUFFICES ASSUME Init PROVE IInv
  OBVIOUS
<1>1. TypeOK
  <2>1. wire \in Seq(Ages) /\ Len(wire) <= WireDepth /\ cap \in Seq(Ages) /\ Len(cap) <= CapDepth
    BY Bounds DEF Init
  <2>2. /\ rxfifo \in 0 .. RxDepth /\ tx_rx_sem \in 0 .. SemMax /\ int_sem \in {0, 1}
        /\ attempt \in 0 .. ATTEMPTS - 1 /\ faults \in 0 .. MaxFaults
    BY Bounds DEF Init
  <2>3. /\ pkt \in [Senders -> Frames] /\ stamp \in [Senders -> Ages \cup {None}]
        /\ pc \in [Senders -> {"idle", "sem", "cmd", "data", "drain", "check", "select",
                              "poll", "selecttx", "read", "ack", "out", "give"}]
    BY DEF Init, Frames
  <2> QED  BY <2>1, <2>2, <2>3 DEF Init, TypeOK, Sources
<1>2. Locks /\ RoomKept
  BY DEF Init, Locks, OneSender, BufOwned, BankOwned, BankSelected, CaptureThere, RoomKept,
         InCheck, OwnsBuf
<1>3. EdgesCounted /\ CountKept
  BY DEF Init, EdgesCounted, Line, CountKept
<1> QED  BY <1>1, <1>2, <1>3 DEF IInv

----------------------------------------------------------------------------
\* Steps of the chip.
LEMMA ChipStep == ASSUME IInv, Arrive \/ LinkChange \/ Transmit PROVE IInv'
<1> USE DEF IInv
<1>1. CASE Arrive \/ LinkChange
  <2>1. UNCHANGED <<chip, thread, senders, tx_rx_sem, bank_lock, int_en>>
        /\ gpio_callback /\ sts \subseteq sts' /\ sts' \subseteq Sources
        /\ rxfifo' \in 0 .. RxDepth /\ rxfifo' >= rxfifo /\ faults' \in 0 .. MaxFaults
    <3>1. CASE Arrive
      BY <3>1, Bounds DEF Arrive, Fault, TypeOK, Sources
    <3>2. CASE LinkChange
      BY <3>2, Bounds DEF LinkChange, TypeOK, Sources
    <3> QED  BY <1>1, <3>1, <3>2
  <2>2. EdgesCounted'
    BY <2>1 DEF EdgesCounted, gpio_callback, Line, thread
  <2>3. int_sem' \in {0, 1}
    BY <2>2 DEF EdgesCounted
  <2>4. TypeOK'
    BY <2>1, <2>3 DEF TypeOK, chip, thread, senders
  <2>5. (Locks /\ RoomKept)'
    BY <2>1 DEF Locks, OneSender, BufOwned, BankOwned, BankSelected, CaptureThere, RoomKept,
                chip, thread, senders
  <2>6. CountKept'
    BY <2>1 DEF CountKept, thread, TypeOK
  <2> QED  BY <2>2, <2>4, <2>5, <2>6
<1>2. CASE Transmit
  <2>1. wire # <<>> /\ wire' = Tail(wire) /\ Head(wire) \in Ages
    BY <1>2 DEF Transmit, TypeOK
  <2>2. wire' \in Seq(Ages) /\ Len(wire') <= WireDepth /\ Len(wire') < Len(wire)
    BY <2>1, Bounds, Queues DEF TypeOK
  <2>3. cap' = cap \/ (Len(cap) < CapDepth /\ cap' = Append(cap, Head(wire)))
    BY <1>2 DEF Transmit
  <2>4. cap' \in Seq(Ages) /\ Len(cap') <= CapDepth /\ (cap # <<>> => cap' # <<>>)
    BY <2>1, <2>3, Bounds, Queues DEF TypeOK
  <2>5. UNCHANGED <<skewed, bank, rxfifo, sts, int_en, int_sem, tpc, int_sts, ier, tx_lock, pc, pkt,
                    stamp, attempt, buf, tx_rx_sem, bank_lock, faults>>
    BY <1>2 DEF Transmit, irq, thread, senders
  <2>6. TypeOK'
    BY <2>2, <2>4, <2>5 DEF TypeOK
  <2>7. Locks'
    BY <2>4, <2>5 DEF Locks, OneSender, BufOwned, BankOwned, BankSelected, CaptureThere
  <2>8. RoomKept'
    BY <2>2, <2>5, TxAssumption DEF RoomKept, TypeOK
  <2>9. EdgesCounted' /\ CountKept'
    BY <2>5 DEF EdgesCounted, Line, CountKept
  <2> QED  BY <2>6, <2>7, <2>8, <2>9
<1> QED  BY <1>1, <1>2

----------------------------------------------------------------------------
\* Steps of lan9250_thread().
LEMMA ThreadHolds == ASSUME IInv, ThreadStep PROVE IInv'
<1> USE DEF IInv
<1>1. UNCHANGED <<wire, cap, skewed, senders>>
      /\ (faults' = faults \/ (faults < MaxFaults /\ faults' = faults + 1))
  BY DEF ThreadStep, Rx, others, chip, TakeInt, Mask, ReadStatus, PhyBranch, AckRsfl,
         ReadCount, RxNothing, RxFails, Fault, RxNoBuffer, RxFrame, Sweep, RxCheck, RxUnlock, RxGive, RestoreEnable
<1>2. /\ sts' \subseteq Sources /\ int_en' \subseteq Sources
      /\ tpc' \in {"take", "mask", "status", "phy", "rsfl", "rx", "pop", "popnone",
                "sweep", "check", "unlock", "give", "restore"}
      /\ int_sts' \subseteq Sources /\ ier' \subseteq Sources
  BY DEF TypeOK, ThreadStep, Rx, irq, TakeInt, Mask, ReadStatus, PhyBranch, AckRsfl,
         ReadCount, RxNothing, RxFails, Fault, RxNoBuffer, RxFrame, Sweep, RxCheck, RxUnlock, RxGive, RestoreEnable
<1>3. rxfifo' \in 0 .. RxDepth
  <2>1. rxfifo' = rxfifo \/ (rxfifo > 0 /\ rxfifo' = rxfifo - 1)
    BY DEF CountKept, TypeOK, ThreadStep, Rx, irq, TakeInt, Mask, ReadStatus, PhyBranch, AckRsfl,
           ReadCount, RxNothing, RxFails, Fault, RxNoBuffer, RxFrame, Sweep, RxCheck, RxUnlock, RxGive, RestoreEnable
  <2> QED  BY <2>1, Bounds DEF TypeOK
<1>4. tx_rx_sem' \in 0 .. SemMax
  <2>1. tx_rx_sem' = tx_rx_sem \/ tx_rx_sem' = Saturate(tx_rx_sem)
    BY DEF ThreadStep, Rx, TakeInt, Mask, ReadStatus, PhyBranch, AckRsfl,
           ReadCount, RxNothing, RxFails, Fault, RxNoBuffer, RxFrame, Sweep, RxCheck, RxUnlock, RxGive, RestoreEnable
  <2> QED  BY <2>1, Bounds DEF TypeOK, Saturate
<1>5. EdgesCounted'
  <2>1. CASE TakeInt
    BY <2>1 DEF EdgesCounted, Line, TakeInt
  <2>2. CASE ReadStatus \/ Rx
    <3>1. UNCHANGED <<int_en, int_sem>> /\ tpc \notin {"take", "mask"} /\ tpc' \notin {"take", "mask"}
      BY <2>2 DEF irq, ReadStatus, Rx, ReadCount, RxNothing, RxFails, Fault, RxNoBuffer, RxFrame,
                  Sweep, RxCheck, RxUnlock, RxGive
    <3> QED  BY <3>1 DEF EdgesCounted
  <2>3. CASE Mask
    BY <2>3 DEF EdgesCounted, Line, gpio_callback, Mask
  <2>4. CASE PhyBranch \/ AckRsfl
    BY <2>4 DEF EdgesCounted, Line, gpio_callback, PhyBranch, AckRsfl
  <2>5. CASE RestoreEnable
    BY <2>5 DEF EdgesCounted, Line, gpio_callback, RestoreEnable
  <2> QED  BY <2>1, <2>3, <2>4, <2>5, <2>2 DEF ThreadStep
<1>6. int_sem' \in {0, 1}
  BY <1>5 DEF EdgesCounted
<1>7. \/ UNCHANGED <<bank, bank_lock>> /\ tpc # "unlock" /\ tpc' # "unlock"
      \/ bank_lock = None /\ bank_lock' = Thread /\ bank' \in {"general", "rx"}
      \/ tpc = "unlock" /\ bank_lock' = None /\ tpc' = "give" /\ UNCHANGED bank
  BY DEF ThreadStep, Rx, others, chip, TakeInt, Mask, ReadStatus, PhyBranch, AckRsfl,
         ReadCount, RxNothing, RxFails, Fault, RxNoBuffer, RxFrame, Sweep, RxCheck, RxUnlock, RxGive, RestoreEnable
<1>8. bank_lock' \in Senders \cup {Thread, None} /\ bank' \in {"general", "rx", "tx"}
  BY <1>7 DEF TypeOK
<1>9. TypeOK' /\ CountKept'
  <2>1. faults' \in 0 .. MaxFaults
    BY <1>1, Bounds DEF TypeOK
  <2>2. TypeOK'
    BY <1>1, <1>2, <1>6, <1>8, <1>3, <1>4, <2>1 DEF TypeOK, senders
  <2>3. CountKept'
    BY DEF CountKept, irq, ThreadStep, Rx, TakeInt, Mask, ReadStatus, PhyBranch, AckRsfl,
           ReadCount, RxNothing, RxFails, RxNoBuffer, RxFrame, Sweep, RxCheck, RxUnlock, RxGive, RestoreEnable
  <2> QED  BY <2>2, <2>3
<1>10. (OneSender /\ BufOwned /\ CaptureThere /\ RoomKept)'
  BY <1>1 DEF Locks, OneSender, BufOwned, CaptureThere, RoomKept, senders
<1>11. \A s \in Senders : s # None /\ s # Thread
  BY TxAssumption DEF Thread
<1>12. (BankOwned /\ BankSelected)'
  BY <1>1, <1>7, <1>11 DEF Locks, BankOwned, BankSelected, InCheck, senders
<1> QED  BY <1>5, <1>9, <1>10, <1>12 DEF Locks

----------------------------------------------------------------------------
\* A call begins: nobody else is in lan9250_tx().
LEMMA SendHolds == ASSUME IInv, NEW s \in Senders, NEW f \in Sends[s], Send(s, f) PROVE IInv'
<1> USE DEF IInv
<1>1. s # None /\ f \in Frames
  BY TxAssumption DEF Frames
<1>2. \A u \in Senders : pc[u] = "idle"
  BY <1>1, Bounds DEF Send, Locks, OneSender
<1>3. pc' = [pc EXCEPT ![s] = "sem"] /\ pkt' = [pkt EXCEPT ![s] = f] /\ tx_lock' = s
  BY DEF Send, Goto
<1>4. wire' \in Seq(Ages) /\ Len(wire') = Len(wire) /\ cap' \in Seq(Ages) /\ Len(cap') = Len(cap)
  BY OlderType DEF Send, TypeOK
<1>5. UNCHANGED <<skewed, bank, rxfifo, sts, int_en, int_sem, tpc, int_sts, ier,
                  stamp, attempt, buf, tx_rx_sem, bank_lock, faults>>
  BY DEF Send, irq, thread
<1>6. TypeOK'
  BY <1>1, <1>3, <1>4, <1>5 DEF TypeOK
<1>7. Locks'
  BY <1>2, <1>3, <1>5
  DEF TypeOK, Locks, OneSender, BufOwned, BankOwned, BankSelected, CaptureThere, InCheck, OwnsBuf
<1>8. RoomKept'
  <2>1. f = "event" => Len(wire) < WireDepth
    BY DEF Send
  <2> QED  BY <1>2, <1>3, <1>4, <2>1 DEF TypeOK, RoomKept
<1>9. EdgesCounted' /\ CountKept'
  BY <1>5 DEF EdgesCounted, Line, CountKept
<1> QED  BY <1>6, <1>7, <1>8, <1>9

----------------------------------------------------------------------------
\* Steps of lan9250_tx() and its check: the sender is the only one, so only its
\* own place matters.
LEMMA TxHolds == ASSUME IInv, NEW s \in Senders, TxStep(s) PROVE IInv'
<1> USE DEF IInv
<1>1. pc[s] # "idle" /\ UNCHANGED <<irq, thread>>
  BY DEF TxStep, Check, checker, TakeSem, WriteCommands, WriteBuf, DrainStatus, Give, TxFails, LockBank,
         SelectGeneral, Poll, SelectTx, ReadEvent, Acknowledge, CheckFails, UnlockBank
<1>2. EdgesCounted' /\ CountKept'
  BY <1>1 DEF EdgesCounted, Line, CountKept, irq, thread
<1>3. tx_lock = s /\ \A u \in Senders : u # s => pc[u] = "idle"
  BY <1>1 DEF Locks, OneSender
<1>4. s # None /\ None \notin Senders /\ s # Thread
  BY TxAssumption DEF Thread
<1>5. pc' \in [Senders -> Labels] /\ \A u \in Senders : u # s => pc'[u] = "idle"
  BY <1>3 DEF Labels, TypeOK, TxStep, Check, Goto, Return, TakeSem, WriteCommands, WriteBuf, DrainStatus, Give, TxFails,
         LockBank, SelectGeneral, Poll, SelectTx, ReadEvent, Acknowledge, CheckFails, UnlockBank
<1>6. tx_lock' \in {s, None} /\ (pc'[s] # "idle" => tx_lock' = s)
  BY <1>3 DEF TypeOK, TxStep, Check, checker, Goto, Return, TakeSem, WriteCommands, WriteBuf, DrainStatus, Give,
         TxFails, LockBank, SelectGeneral, Poll, SelectTx, ReadEvent, Acknowledge, CheckFails, UnlockBank
<1>7. buf' \in Senders \cup {None} /\ (pc'[s] \in OwnsBuf => buf' = s)
  BY DEF TypeOK, Locks, BufOwned, OwnsBuf, TxStep, Check, checker, Goto, Return, TakeSem, WriteCommands, WriteBuf,
         DrainStatus, Give, TxFails, LockBank, SelectGeneral, Poll, SelectTx, ReadEvent, Acknowledge,
         CheckFails, UnlockBank
<1>8. /\ bank_lock' \in Senders \cup {Thread, None} /\ (pc'[s] \in InCheck => bank_lock' = s)
      /\ bank_lock' # bank_lock => bank_lock \in {s, None}
  BY DEF TypeOK, Locks, BankOwned, InCheck, TxStep, Check, checker, Goto, Return, TakeSem, WriteCommands, WriteBuf,
         DrainStatus, Give, TxFails, LockBank, SelectGeneral, Poll, SelectTx, ReadEvent, Acknowledge,
         CheckFails, UnlockBank
<1>9. /\ bank' \in {"general", "rx", "tx"}
      /\ (pc'[s] = "poll" => bank' = "general") /\ (pc'[s] = "read" => bank' = "tx")
  BY DEF TypeOK, Locks, BankSelected, chip, TxStep, Check, checker, Goto, Return, TakeSem, WriteCommands, WriteBuf,
         DrainStatus, Give, TxFails, LockBank, SelectGeneral, Poll, SelectTx, ReadEvent, Acknowledge,
         CheckFails, UnlockBank
<1>10. (OneSender /\ BufOwned /\ BankOwned /\ BankSelected)'
  <2>1. tpc' = "unlock" => bank_lock' = Thread
    BY <1>1, <1>4, <1>8, Bounds DEF Locks, BankOwned, thread
  <2> QED  BY <2>1, <1>5, <1>6, <1>7, <1>8, <1>9
           DEF OneSender, BufOwned, BankOwned, BankSelected, InCheck, OwnsBuf
<1>11. CASE Acknowledge(s)
  <2>1. pc[s] = "ack" /\ cap # <<>> /\ pc' = [pc EXCEPT ![s] = "out"]
    BY <1>11 DEF Acknowledge, Goto, Locks, CaptureThere
  <2>2. cap' \in Seq(Ages) /\ Len(cap') <= CapDepth
    <3>1. cap' = cap \/ cap' = Tail(cap)
      BY <1>11 DEF Acknowledge
    <3>2. cap \in Seq(Ages) /\ Len(cap) <= CapDepth /\ CapDepth \in Nat
      BY Bounds DEF TypeOK
    <3>3. Tail(cap) \in Seq(Ages) /\ Len(Tail(cap)) < Len(cap) /\ Len(cap) \in Nat /\ Len(Tail(cap)) \in Nat
      BY <2>1, <3>2, Queues
    <3> QED  BY <3>1, <3>2, <3>3
  <2>3. UNCHANGED <<wire, skewed, pkt, stamp, attempt, tx_rx_sem>> /\ faults' \in 0 .. MaxFaults
    <3>1. UNCHANGED <<wire, skewed, pkt, stamp, attempt, tx_rx_sem>>
      BY <1>11 DEF Acknowledge, checker
    <3>2. faults' = faults \/ (faults < MaxFaults /\ faults' = faults + 1)
      BY <1>11 DEF Acknowledge, Fault
    <3> QED  BY <3>1, <3>2, Bounds DEF TypeOK
  <2>4. (CaptureThere /\ RoomKept)'
    BY <1>5, <2>1 DEF CaptureThere, RoomKept, TypeOK
  <2>5. TypeOK'
    BY <2>2, <2>3, <1>1, <1>5, <1>6, <1>7, <1>8, <1>9 DEF TypeOK, Labels, irq, thread
  <2> QED  BY <2>4, <2>5, <1>2, <1>10 DEF Locks
<1>12. CASE WriteBuf(s)
  <2>1. pc[s] = "data" /\ buf = s /\ pc' = [pc EXCEPT ![s] = "drain"]
    BY <1>12 DEF WriteBuf, Goto, Locks, BufOwned, OwnsBuf
  <2>2. wire' \in Seq(Ages) /\ Len(wire') <= WireDepth
    <3>1. wire' = wire \/ (pkt[s] = "event" /\ wire' = Append(wire, 0))
      BY <1>12, <2>1 DEF WriteBuf
    <3>2. pkt[s] = "event" => Len(wire) < WireDepth
      BY <2>1 DEF RoomKept
    <3>3. 0 \in Ages
      BY Bounds DEF Ages
    <3> QED  BY <3>1, <3>2, <3>3, Bounds, Queues DEF TypeOK
  <2>3. UNCHANGED <<cap, skewed, pkt, stamp, attempt, tx_rx_sem, faults>>
    BY <1>12 DEF WriteBuf
  <2>4. (CaptureThere /\ RoomKept)'
    BY <1>5, <2>1 DEF CaptureThere, RoomKept, TypeOK
  <2>5. TypeOK'
    BY <2>2, <2>3, <1>1, <1>5, <1>6, <1>7, <1>8, <1>9 DEF TypeOK, Labels, irq, thread
  <2> QED  BY <2>4, <2>5, <1>2, <1>10 DEF Locks
<1>13. CASE ~Acknowledge(s) /\ ~WriteBuf(s)
  <2>1. UNCHANGED <<wire, cap>>
    BY <1>13 DEF chip, TxStep, Check, TakeSem, WriteCommands, DrainStatus, Give, TxFails, LockBank,
           SelectGeneral, Poll, SelectTx, ReadEvent, CheckFails, UnlockBank
  <2>2. pc'[s] \in {"selecttx", "read", "ack"} => cap # <<>>
    BY <1>13 DEF TypeOK, Locks, CaptureThere, Goto, Return, TxStep, Check, TakeSem, WriteCommands, DrainStatus,
           Give, TxFails, LockBank, SelectGeneral, Poll, SelectTx, ReadEvent, CheckFails, UnlockBank
  <2>3. pc'[s] \in {"sem", "cmd", "data"} => pc[s] \in {"sem", "cmd", "data"} /\ pkt' = pkt
    BY <1>13 DEF TypeOK, Goto, Return, checker, TxStep, Check, TakeSem, WriteCommands, DrainStatus,
           Give, TxFails, LockBank, SelectGeneral, Poll, SelectTx, ReadEvent, CheckFails, UnlockBank
  <2>4. skewed' \in BOOLEAN /\ faults' \in 0 .. MaxFaults
    <3>1. faults' = faults \/ (faults < MaxFaults /\ faults' = faults + 1)
      BY <1>13 DEF Fault, TxStep, Check, TakeSem, WriteCommands, DrainStatus,
             Give, TxFails, LockBank, SelectGeneral, Poll, SelectTx, ReadEvent, CheckFails, UnlockBank
    <3>2. skewed' \in {skewed, TRUE}
      BY <1>13 DEF chip, TxStep, Check, TakeSem, WriteCommands, DrainStatus,
             Give, TxFails, LockBank, SelectGeneral, Poll, SelectTx, ReadEvent, CheckFails, UnlockBank
    <3>3. skewed' \in BOOLEAN
      BY <3>2, Zenon DEF TypeOK
    <3>4. faults' \in 0 .. MaxFaults
      BY <3>1, Bounds DEF TypeOK
    <3> QED  BY <3>3, <3>4
  <2>5. pkt' \in [Senders -> Frames] /\ tx_rx_sem' \in 0 .. SemMax /\ attempt' \in 0 .. ATTEMPTS - 1
    <3>1. pkt' = pkt \/ pkt' = [pkt EXCEPT ![s] = "plain"]
      BY <1>13 DEF Return, TxStep, Check, checker, TakeSem, WriteCommands, DrainStatus,
             Give, TxFails, LockBank, SelectGeneral, Poll, SelectTx, ReadEvent, CheckFails, UnlockBank
    <3>2. \/ tx_rx_sem' = tx_rx_sem \/ tx_rx_sem' = Saturate(tx_rx_sem)
          \/ tx_rx_sem > 0 /\ tx_rx_sem' = tx_rx_sem - 1
      BY <1>13 DEF TxStep, Check, checker, TakeSem, WriteCommands, DrainStatus,
             Give, TxFails, LockBank, SelectGeneral, Poll, SelectTx, ReadEvent, CheckFails, UnlockBank
    <3>3. attempt' = attempt \/ attempt' = 0 \/ (attempt < ATTEMPTS - 1 /\ attempt' = attempt + 1)
      BY <1>13 DEF TxStep, Check, TakeSem, WriteCommands, DrainStatus,
             Give, TxFails, LockBank, SelectGeneral, Poll, SelectTx, ReadEvent, CheckFails, UnlockBank
    <3>4. pkt' \in [Senders -> Frames]
      BY <3>1 DEF TypeOK, Frames
    <3>5. tx_rx_sem' \in 0 .. SemMax
      BY <3>2, Bounds DEF TypeOK, Saturate
    <3>6. attempt' \in 0 .. ATTEMPTS - 1
      BY <3>3, Bounds DEF TypeOK
    <3> QED  BY <3>4, <3>5, <3>6
  <2>6. stamp' \in [Senders -> Ages \cup {None}]
    <3>1. CASE ReadEvent(s)
      <4>1. Head(cap) \in Ages
        BY <3>1 DEF ReadEvent, TypeOK, Locks, CaptureThere
      <4> QED  BY <3>1, <4>1 DEF ReadEvent, TypeOK
    <3>2. CASE ~ReadEvent(s)
      BY <1>13, <3>2 DEF TypeOK, Return, TxStep, Check, TakeSem, WriteCommands,
             DrainStatus, Give, TxFails, LockBank, SelectGeneral, Poll, SelectTx, CheckFails, UnlockBank
    <3> QED  BY <3>1, <3>2
  <2>7. (CaptureThere /\ RoomKept)'
    BY <1>5, <2>1, <2>2, <2>3 DEF CaptureThere, RoomKept
  <2>8. TypeOK'
    BY <2>1, <2>4, <2>5, <2>6, <1>1, <1>5, <1>6, <1>7, <1>8, <1>9 DEF TypeOK, Labels, irq, thread
  <2> QED  BY <2>7, <2>8, <1>2, <1>10 DEF Locks
<1> QED  BY <1>11, <1>12, <1>13

LEMMA StepHolds == IInv /\ [Next]_vars => IInv'
<1> SUFFICES ASSUME IInv, [Next]_vars PROVE IInv'
  OBVIOUS
<1>1. CASE UNCHANGED vars
  BY <1>1 DEF IInv, TypeOK, Locks, OneSender, BufOwned, BankOwned, BankSelected, CaptureThere, RoomKept,
              EdgesCounted, CountKept, Line, vars, chip, irq, thread, senders
<1>2. CASE Next
  BY <1>2, ChipStep, ThreadHolds, SendHolds, TxHolds DEF Next
<1> QED  BY <1>1, <1>2

----------------------------------------------------------------------------
\* The chip's queues and the semaphores stay within their capacity; in
\* particular int_sem never counts more than one edge, as lan9250_thread()
\* releases the line before it looks at the status.
THEOREM TypeCorrect == Spec => []TypeOK
BY InitHolds, StepHolds, PTL DEF Spec, IInv

\* No other sender and no received frame disturbs ctx->buf or the bank selected
\* between its selection and the transfer, for any number of senders: the
\* interface lock of net_if_tx() and bank_lock do what tx_rx_sem does not.
THEOREM NeverDisturbed == Spec => []Undisturbed
<1>1. IInv => Undisturbed
  BY DEF IInv, Locks, BufOwned, BankSelected, CaptureThere, Undisturbed, OwnsBuf
<1> QED  BY InitHolds, StepHolds, <1>1, PTL DEF Spec

----------------------------------------------------------------------------
(* Timestamps.  Every event frame makes what is in the chip one older, and *)
(* its check takes one capture away, unless something fails.  So the age   *)
(* of a frame or capture, and what is ahead of it, is bounded by the       *)
(* depths and the failures.                                                *)

\* A call for an event frame that has not taken its capture yet.
Charged == \E s \in Senders : pkt[s] = "event" /\ pc[s] \notin {"idle", "out", "give"}

Limit == (WireDepth + CapDepth) + faults - (IF Charged THEN 0 ELSE 1)

CapAges  == \A i \in 1 .. Len(cap) : cap[i] + i <= Limit
WireAges == \A i \in 1 .. Len(wire) : wire[i] + (Len(cap) + i) <= Limit

\* A packet handed to the driver has no timestamp.
Unstamped == \A s \in Senders : pc[s] = "idle" => stamp[s] = None

StampInv == CapAges /\ WireAges /\ Unstamped /\ StampOwn

\* A raised limit keeps what the queues hold within it.
LEMMA SameQueues ==
  ASSUME IInv, StampInv, UNCHANGED <<wire, cap>>, Limit <= Limit', Limit \in Int, Limit' \in Int
  PROVE  (CapAges /\ WireAges)'
<1>1. \A i \in 1 .. Len(cap) : cap[i] \in Nat
  BY Bounds DEF IInv, TypeOK, Ages
<1>2. \A i \in 1 .. Len(wire) : wire[i] \in Nat
  BY Bounds DEF IInv, TypeOK, Ages
<1>3. Len(cap) \in Nat /\ Len(wire) \in Nat
  BY DEF IInv, TypeOK
<1> HIDE DEF Limit
<1>4. CapAges'
  BY <1>1, <1>3 DEF StampInv, CapAges
<1>5. WireAges'
  BY <1>2, <1>3 DEF StampInv, WireAges
<1> QED BY <1>4, <1>5

LEMMA LimitType == IInv => Limit \in Int /\ (WireDepth + CapDepth) \in Nat /\ faults \in Nat
<1> SUFFICES ASSUME IInv PROVE Limit \in Int /\ (WireDepth + CapDepth) \in Nat /\ faults \in Nat
  OBVIOUS
<1>1. (WireDepth + CapDepth) \in Nat /\ faults \in Nat
  BY Bounds DEF IInv, TypeOK
<1> QED BY <1>1 DEF Limit

\* The chip's own steps: a frame that is sent moves from the head of one queue
\* to the end of the other, or is gone.
LEMMA ChipAges == ASSUME IInv, StampInv, Arrive \/ LinkChange \/ Transmit, IInv' PROVE StampInv'
<1>1. UNCHANGED <<pc, pkt, stamp>> /\ faults' \in {faults, faults + 1}
  BY DEF Arrive, Fault, LinkChange, Transmit, senders
<1>2. Limit <= Limit' /\ Limit \in Int /\ Limit' \in Int
  BY <1>1, LimitType DEF Limit, Charged
<1>3. (Unstamped /\ StampOwn)'
  BY <1>1 DEF StampInv, Unstamped, StampOwn
<1>4. CASE Arrive \/ LinkChange
  <2>1. UNCHANGED <<wire, cap>>
    BY <1>4 DEF Arrive, LinkChange, chip
  <2> QED BY <2>1, <1>2, <1>3, SameQueues DEF StampInv
<1>5. CASE Transmit
  <2>1. /\ wire \in Seq(Nat) /\ cap \in Seq(Nat) /\ wire # <<>> /\ wire' = Tail(wire)
        /\ cap' = cap \/ cap' = Append(cap, Head(wire))
    <3>1. wire \in Seq(Ages) /\ cap \in Seq(Ages)
      BY DEF IInv, TypeOK
    <3>2. wire \in Seq(Nat) /\ cap \in Seq(Nat)
      BY <3>1, NumberQueue
    <3> QED BY <1>5, <3>2 DEF Transmit
  <2>2. Len(wire') = Len(wire) - 1 /\ \A i \in 1 .. Len(wire') : wire'[i] = wire[i + 1]
    BY <2>1
  <2>3. Len(wire) \in Nat /\ Len(wire) >= 1 /\ Len(cap) \in Nat
    BY <2>1
  <2> HIDE DEF Limit
  <2>4. ASSUME NEW i \in 1 .. Len(wire') PROVE wire'[i] + (Len(cap') + i) <= Limit'
    <3>1. i + 1 \in 1 .. Len(wire) /\ wire[i + 1] \in Nat
      BY <2>1, <2>2, <2>3
    <3>2. wire[i + 1] + (Len(cap) + (i + 1)) <= Limit
      BY <3>1 DEF StampInv, WireAges
    <3>3. Len(cap') \in Nat /\ Len(cap') <= Len(cap) + 1
      BY <2>1
    <3> QED BY <3>1, <3>2, <3>3, <2>2, <2>3, <1>2
  <2>5. ASSUME NEW i \in 1 .. Len(cap') PROVE cap'[i] + i <= Limit'
    <3>1. CASE i \in 1 .. Len(cap)
      <4>1. Append(cap, Head(wire))[i] = cap[i]
        <5>1. Head(wire) \in Nat
          BY <2>1
        <5> QED BY <2>1, <5>1, <3>1
      <4>2. cap'[i] = cap[i]
        BY <2>1, <4>1
      <4>3. cap[i] \in Nat /\ cap[i] + i <= Limit
        BY <3>1, <2>1 DEF StampInv, CapAges
      <4> QED BY <4>2, <4>3, <3>1, <1>2, <2>3
    <3>2. CASE i \notin 1 .. Len(cap)
      <4>1. cap' = Append(cap, Head(wire)) /\ i = Len(cap) + 1
        <5>1. cap' # cap
          BY <3>2
        <5>2. cap' = Append(cap, Head(wire)) /\ Len(cap') = Len(cap) + 1
          BY <5>1, <2>1
        <5> QED BY <5>2, <3>2, <2>3
      <4>2. cap'[i] = wire[1] /\ wire[1] \in Nat
        BY <4>1, <2>1
      <4>3. wire[1] + (Len(cap) + 1) <= Limit
        BY <2>3 DEF StampInv, WireAges
      <4> QED BY <4>1, <4>2, <4>3, <1>2, <2>3
    <3> QED BY <3>1, <3>2
  <2> QED BY <2>4, <2>5, <1>3 DEF StampInv, CapAges, WireAges
<1> QED BY <1>4, <1>5

LEMMA ThreadAges == ASSUME IInv, StampInv, ThreadStep, IInv' PROVE StampInv'
<1>1. UNCHANGED <<wire, cap, pc, pkt, stamp>> /\ faults' \in {faults, faults + 1}
  BY DEF ThreadStep, Rx, others, chip, senders, TakeInt, Mask, ReadStatus, PhyBranch, AckRsfl,
         ReadCount, RxNothing, RxFails, Fault, RxNoBuffer, RxFrame, Sweep, RxCheck, RxUnlock, RxGive, RestoreEnable
<1>2. Limit <= Limit' /\ Limit \in Int /\ Limit' \in Int
  BY <1>1, LimitType DEF Limit, Charged
<1> QED BY <1>1, <1>2, SameQueues DEF StampInv, Unstamped, StampOwn

\* An event frame makes everything one older, and is charged for it.
LEMMA SendAges ==
  ASSUME IInv, StampInv, NEW s \in Senders, NEW f \in Sends[s], Send(s, f), IInv'
  PROVE  StampInv'
<1>1. s # None /\ \A u \in Senders : pc[u] = "idle"
  BY Bounds DEF Send, IInv, Locks, OneSender
<1>2. pc' = [pc EXCEPT ![s] = "sem"] /\ pkt' = [pkt EXCEPT ![s] = f] /\ UNCHANGED <<stamp, faults>>
  BY DEF Send, Goto
<1>3. pc \in [Senders -> Labels] /\ pkt \in [Senders -> Frames]
  BY DEF IInv, TypeOK, Labels
<1>4. (Unstamped /\ StampOwn)'
  BY <1>1, <1>2, <1>3 DEF StampInv, Unstamped, StampOwn
<1>5. ~Charged /\ (Charged' <=> f = "event")
  BY <1>1, <1>2, <1>3 DEF Charged
<1>6. (WireDepth + CapDepth) \in Nat /\ faults \in Nat /\ Limit \in Int
  BY LimitType
<1>7. Limit' = IF f = "event" THEN Limit + 1 ELSE Limit
  BY <1>2, <1>5, <1>6 DEF Limit
<1> HIDE DEF Limit
<1>8. CASE f # "event"
  <2>1. UNCHANGED <<wire, cap>> /\ Limit <= Limit' /\ Limit' \in Int
    BY <1>6, <1>7, <1>8 DEF Send
  <2> QED BY <2>1, <1>4, <1>6, SameQueues DEF StampInv
<1>9. CASE f = "event"
  <2>1. wire' = Older(wire) /\ cap' = Older(cap)
    BY <1>9 DEF Send
  <2>2. wire \in Seq(Ages) /\ cap \in Seq(Ages) /\ SeqMod \in Nat
    BY Bounds DEF IInv, TypeOK
  <2>3. ASSUME NEW q \in Seq(Ages), NEW i \in 1 .. Len(q)
        PROVE  Older(q)[i] \in Nat /\ q[i] \in Nat /\ Older(q)[i] <= q[i] + 1
    <3>1. q[i] \in Ages /\ i \in DOMAIN q
      OBVIOUS
    <3> QED BY <3>1, <2>2 DEF Older, Ages
  <2>4. Len(wire') = Len(wire) /\ Len(cap') = Len(cap) /\ Len(wire) \in Nat /\ Len(cap) \in Nat
    BY <2>1, <2>2, OlderType
  <2>5. ASSUME NEW i \in 1 .. Len(cap) PROVE cap'[i] + i <= Limit'
    <3>1. cap'[i] \in Nat /\ cap[i] \in Nat /\ cap'[i] <= cap[i] + 1
      BY <2>1, <2>2, <2>3
    <3>2. cap[i] + i <= Limit
      BY DEF StampInv, CapAges
    <3> QED BY <3>1, <3>2, <1>6, <1>7, <1>9, <2>4
  <2>6. ASSUME NEW i \in 1 .. Len(wire) PROVE wire'[i] + (Len(cap) + i) <= Limit'
    <3>1. wire'[i] \in Nat /\ wire[i] \in Nat /\ wire'[i] <= wire[i] + 1
      BY <2>1, <2>2, <2>3
    <3>2. wire[i] + (Len(cap) + i) <= Limit
      BY DEF StampInv, WireAges
    <3> QED BY <3>1, <3>2, <1>6, <1>7, <1>9, <2>4
  <2> QED BY <2>4, <2>5, <2>6, <1>4 DEF StampInv, CapAges, WireAges
<1> QED BY <1>8, <1>9

\* A sender that leaves the charge behind without a failure has taken a
\* capture, or found the chip empty.
LEMMA TxAges == ASSUME IInv, StampInv, NEW s \in Senders, TxStep(s), IInv' PROVE (CapAges /\ WireAges)'
<1>1. pc[s] # "idle" /\ (\A u \in Senders : u # s => pc[u] = "idle" /\ pc'[u] = "idle")
  <2>1. pc[s] # "idle"
    BY DEF TxStep, Check, TakeSem, WriteCommands, WriteBuf, DrainStatus, Give, TxFails, LockBank,
           SelectGeneral, Poll, SelectTx, ReadEvent, Acknowledge, CheckFails, UnlockBank
  <2>2. \A u \in Senders : u # s => pc[u] = "idle"
    BY <2>1 DEF IInv, Locks, OneSender
  <2>3. \A u \in Senders : u # s => pc'[u] = pc[u]
    BY DEF IInv, TypeOK, TxStep, Check, Goto, Return, TakeSem, WriteCommands, WriteBuf, DrainStatus, Give, TxFails,
           LockBank, SelectGeneral, Poll, SelectTx, ReadEvent, Acknowledge, CheckFails, UnlockBank
  <2> QED BY <2>1, <2>2, <2>3
<1> DEFINE Done == {"idle", "out", "give"}
<1>2. Charged <=> pkt[s] = "event" /\ pc[s] \notin Done
  BY <1>1 DEF Charged
<1>3. Charged' <=> pkt'[s] = "event" /\ pc'[s] \notin Done
  BY <1>1 DEF Charged
<1>4. /\ (WireDepth + CapDepth) \in Nat /\ faults \in Nat /\ faults' \in Nat
      /\ Limit \in Int /\ Limit' \in Int
  <2>1. (WireDepth + CapDepth) \in Nat /\ faults \in Nat /\ faults' \in Nat
    BY Bounds DEF IInv, TypeOK
  <2> QED BY <2>1 DEF Limit
<1>5. buf = s \/ pc[s] \notin OwnsBuf
  BY DEF IInv, Locks, BufOwned
<1>6. CASE WriteBuf(s)
  <2>1. pc[s] = "data" /\ UNCHANGED <<cap, pkt, faults>> /\ pc'[s] = "drain" /\ buf = s
    BY <1>6, <1>5 DEF WriteBuf, Goto, OwnsBuf, IInv, TypeOK
  <2>2. Limit' = Limit
    BY <2>1, <1>2, <1>3 DEF Limit
  <2>3. CASE wire' = wire
    BY <2>1, <2>2, <2>3, <1>4, SameQueues
  <2>4. CASE wire' # wire
    <3>1. pkt[s] = "event" /\ wire' = Append(wire, 0)
      BY <1>6, <2>1, <2>4 DEF WriteBuf
    <3>2. Limit = (WireDepth + CapDepth) + faults
      BY <3>1, <2>1, <1>2, <1>4 DEF Limit
    <3>3. CapAges'
      BY <2>1, <2>2 DEF StampInv, CapAges
    <3>4. ASSUME NEW i \in 1 .. Len(wire') PROVE wire'[i] + (Len(cap') + i) <= Limit'
      <4>0. wire \in Seq(Ages) /\ Len(wire) \in Nat /\ Len(cap) \in Nat
        BY DEF IInv, TypeOK
      <4>1. wire \in Seq(Ages) /\ Len(wire) \in Nat /\ Len(wire') = Len(wire) + 1 /\ Len(cap) \in Nat
        <5>1. 0 \in Ages
          BY Bounds DEF Ages
        <5> QED BY ONLY <3>1, <4>0, <5>1
      <4>2. CASE i \in 1 .. Len(wire)
        <5>1. wire'[i] = wire[i]
          BY <3>1, <4>1, <4>2
        <5> QED BY <5>1, <4>2, <2>1, <2>2 DEF StampInv, WireAges
      <4>3. CASE i \notin 1 .. Len(wire)
        <5>1. i = Len(wire')
          BY <4>1, <4>3
        <5>2. wire'[i] = 0
          BY <3>1, <4>1, <5>1
        <5>3. Len(wire') <= WireDepth /\ Len(cap) <= CapDepth
          BY DEF IInv, TypeOK
        <5>4. 0 + (Len(cap) + Len(wire')) <= (WireDepth + CapDepth) + faults
          BY <5>3, <4>1, <1>4, Bounds
        <5> QED BY <5>1, <5>2, <5>4, <3>2, <2>1, <2>2
      <4> QED BY <4>2, <4>3
    <3> QED BY <3>3, <3>4 DEF WireAges
  <2> QED BY <2>3, <2>4
<1>7. CASE Acknowledge(s)
  <2>1. /\ pc[s] = "ack" /\ pc'[s] = "out" /\ UNCHANGED <<wire, pkt>>
        /\ \/ cap' = Tail(cap) /\ faults' = faults
           \/ cap' = cap /\ faults' = faults + 1
    BY <1>7 DEF Acknowledge, Goto, Fault, checker, IInv, TypeOK
  <2>2. CASE faults' = faults + 1 /\ cap' = cap
    <3>1. Limit <= Limit'
      BY <2>2, <1>4 DEF Limit
    <3> QED BY <3>1, <2>1, <2>2, <1>4, SameQueues
  <2>3. CASE cap' = Tail(cap) /\ faults' = faults
    <3>1. Limit - 1 <= Limit'
      BY <2>3, <1>4 DEF Limit
    <3>2. cap # <<>> /\ cap \in Seq(Nat)
      <4>1. cap # <<>> /\ cap \in Seq(Ages)
        BY <2>1 DEF IInv, TypeOK, Locks, CaptureThere
      <4> QED BY <4>1, NumberQueue
    <3>3. Len(cap) \in Nat /\ Len(cap') = Len(cap) - 1 /\ \A i \in 1 .. Len(cap') : cap'[i] = cap[i + 1]
      BY <2>3, <3>2
    <3> HIDE DEF Limit
    <3>4. ASSUME NEW i \in 1 .. Len(cap') PROVE cap'[i] + i <= Limit'
      <4>1. i + 1 \in 1 .. Len(cap) /\ cap[i + 1] \in Nat
        BY <3>2, <3>3
      <4>2. cap[i + 1] + (i + 1) <= Limit
        BY <4>1 DEF StampInv, CapAges
      <4> QED BY <4>1, <4>2, <3>1, <3>3, <1>4
    <3>5. ASSUME NEW i \in 1 .. Len(wire) PROVE wire[i] + (Len(cap') + i) <= Limit'
      <4>1. wire[i] \in Nat
        <5>1. wire \in Seq(Ages)
          BY DEF IInv, TypeOK
        <5> QED BY <5>1, AgesAreNumbers
      <4>2. wire[i] + (Len(cap) + i) <= Limit
        BY DEF StampInv, WireAges
      <4>3. Len(cap') = Len(cap) - 1 /\ Len(cap) \in Nat /\ Limit \in Int /\ Limit' \in Int
        BY <3>3, <1>4
      <4> QED BY ONLY <4>1, <4>2, <4>3, <3>1
    <3> QED BY <3>4, <3>5, <2>1 DEF CapAges, WireAges
  <2> QED BY <2>1, <2>2, <2>3
<1>8. CASE ~Acknowledge(s) /\ ~WriteBuf(s)
  <2>1. UNCHANGED <<wire, cap>>
    BY <1>8 DEF chip, TxStep, Check, TakeSem, WriteCommands, DrainStatus, Give, TxFails, LockBank,
           SelectGeneral, Poll, SelectTx, ReadEvent, CheckFails, UnlockBank
  <2>2. faults' = faults \/ faults' = faults + 1
    BY <1>8 DEF Fault, TxStep, Check, TakeSem, WriteCommands, DrainStatus,
           Give, TxFails, LockBank, SelectGeneral, Poll, SelectTx, ReadEvent, CheckFails, UnlockBank
  <2>3. CASE faults' = faults + 1
    <3>1. Limit <= Limit'
      BY <2>3, <1>4 DEF Limit
    <3> QED BY <3>1, <2>1, <1>4, SameQueues
  <2>4. CASE faults' = faults /\ (Charged' \/ ~Charged)
    <3>1. Limit <= Limit'
      BY <2>4, <1>4 DEF Limit
    <3> QED BY <3>1, <2>1, <1>4, SameQueues
  <2>5. CASE faults' = faults /\ Charged /\ ~Charged'
    <3>1. pkt[s] = "event" /\ pc[s] \notin Done
      BY <2>5, <1>2
    <3>2. Poll(s)
      <4>1. ~TxFails(s) /\ ~CheckFails(s)
        <5>1. faults' # faults + 1
          BY <2>5, <1>4
        <5> QED BY <5>1 DEF TxFails, CheckFails, Fault
      <4>2. ~Give(s) /\ ~UnlockBank(s)
        BY <3>1 DEF Give, UnlockBank
      <4>3. LockBank(s) => pc'[s] = "select" /\ pkt' = pkt
        <5>1. LockBank(s) => buf = s
          BY <1>5 DEF LockBank, OwnsBuf
        <5> QED BY <5>1, <3>1 DEF LockBank, parse_header, Goto, checker, IInv, TypeOK
      <4>4. TakeSem(s) \/ WriteCommands(s) \/ DrainStatus(s) \/ SelectGeneral(s) \/ SelectTx(s) \/ ReadEvent(s)
            => pc'[s] \notin Done /\ pkt' = pkt
        BY DEF TakeSem, WriteCommands, DrainStatus, SelectGeneral, SelectTx, ReadEvent, Goto, checker, IInv, TypeOK
      <4> QED BY <4>1, <4>2, <4>3, <4>4, <1>3, <1>8, <2>5, <3>1 DEF TxStep, Check
    <3>3. cap = <<>> /\ wire = <<>>
      <4>1. ~Fault
        BY <2>5, <1>4 DEF Fault
      <4>2. pc'[s] \in Done /\ pc[s] \notin Done
        BY <3>1, <3>2, <1>3, <2>5 DEF Poll, checker
      <4> QED BY <3>2, <4>1, <4>2 DEF Poll, Goto, IInv, TypeOK
    <3> QED BY <3>3, <2>1 DEF CapAges, WireAges
  <2> QED BY <2>2, <2>3, <2>4, <2>5
<1> QED BY <1>6, <1>7, <1>8

\* A capture whose number is the frame's is the frame's: one as old as SeqMod
\* events would take more failures than there are.
LEMMA TxStamps ==
  ASSUME SeqMod >= (WireDepth + CapDepth) + MaxFaults,
         IInv, StampInv, NEW s \in Senders, TxStep(s), IInv'
  PROVE  (Unstamped /\ StampOwn)'
<1>1. stamp \in [Senders -> Ages \cup {None}] /\ pkt \in [Senders -> Frames] /\ pc \in [Senders -> Labels]
  BY DEF IInv, TypeOK, Labels
<1>2. CASE TxFails(s) \/ Give(s)
  <2>1. /\ pc' = [pc EXCEPT ![s] = "idle"] /\ pkt' = [pkt EXCEPT ![s] = "plain"]
        /\ stamp' = [stamp EXCEPT ![s] = None]
    BY <1>2 DEF TxFails, Give, Return, Goto
  <2> QED BY <1>1, <2>1 DEF StampInv, Unstamped, StampOwn
<1>3. CASE ReadEvent(s)
  <2>1. /\ pc[s] = "read" /\ buf = s /\ cap # <<>> /\ UNCHANGED pkt /\ pc' = [pc EXCEPT ![s] = "ack"]
        /\ stamp' = [stamp EXCEPT ![s] = IF hw_matches(Head(cap), pkt[s]) THEN Head(cap) ELSE @]
    BY <1>3 DEF ReadEvent, checker, Goto, IInv, Locks, BufOwned, CaptureThere, OwnsBuf
  <2>2. ASSUME hw_matches(Head(cap), pkt[s]) PROVE Head(cap) = 0
    <3>1. Head(cap) = cap[1] /\ cap[1] \in Nat /\ 1 \in 1 .. Len(cap)
      <4>1. cap \in Seq(Ages)
        BY DEF IInv, TypeOK
      <4>2. cap # <<>>
        BY <2>1
      <4>3. Head(cap) = cap[1] /\ 1 \in 1 .. Len(cap)
        BY ONLY <4>1, <4>2
      <4> QED BY <4>1, <4>3, AgesAreNumbers
    <3>2. cap[1] + 1 <= Limit
      BY <3>1 DEF StampInv, CapAges
    <3>3. Limit <= SeqMod /\ Limit \in Int
      <4>1. faults \in Nat /\ faults <= MaxFaults /\ MaxFaults \in Nat
        BY Bounds DEF IInv, TypeOK
      <4> QED BY <4>1, LimitType, Bounds DEF Limit
    <3>4. cap[1] < SeqMod /\ SeqMod \in Nat \ {0}
      <4> HIDE DEF Limit
      <4> QED BY <3>1, <3>2, <3>3, TxAssumption
    <3>5. cap[1] % SeqMod = cap[1]
      BY <3>1, <3>4
    <3> QED BY <2>2, <3>1, <3>5 DEF hw_matches
  <2>3. \A u \in Senders : stamp'[u] = stamp[u] \/ (u = s /\ pkt[s] = "event" /\ stamp'[u] = 0)
    BY <2>1, <2>2, <1>1 DEF hw_matches
  <2> QED BY <2>1, <2>3, <1>1 DEF StampInv, Unstamped, StampOwn
<1>4. CASE ~TxFails(s) /\ ~Give(s) /\ ~ReadEvent(s)
  <2>1. UNCHANGED <<pkt, stamp>>
    BY <1>4 DEF TxStep, Check, checker, TakeSem, WriteCommands, WriteBuf, DrainStatus, LockBank,
           SelectGeneral, Poll, SelectTx, Acknowledge, CheckFails, UnlockBank
  <2>2. pc'[s] # "idle" /\ \A u \in Senders : u # s => pc'[u] = pc[u]
    BY <1>4, <1>1 DEF TxStep, Check, Goto, TakeSem, WriteCommands, WriteBuf, DrainStatus, LockBank,
           SelectGeneral, Poll, SelectTx, Acknowledge, CheckFails, UnlockBank
  <2> QED BY <2>1, <2>2 DEF StampInv, Unstamped, StampOwn
<1> QED BY <1>2, <1>3, <1>4

\* A timestamp given to a sent packet is its own egress capture, however late
\* captures come, as long as fewer transfers fail, in sending or receiving, than
\* it takes for a sequence number to come round again while a capture waits.
THEOREM StampsAreOwn ==
  ASSUME SeqMod >= (WireDepth + CapDepth) + MaxFaults
  PROVE  Spec => []StampOwn
<1>1. Init => StampInv
  BY DEF Init, StampInv, CapAges, WireAges, Unstamped, StampOwn
<1>2. IInv /\ StampInv /\ [Next]_vars => StampInv'
  <2> SUFFICES ASSUME IInv, StampInv, [Next]_vars PROVE StampInv'
    OBVIOUS
  <2>1. IInv'
    BY StepHolds
  <2>2. CASE UNCHANGED vars
    <3>1. UNCHANGED <<wire, cap, pc, pkt, stamp, faults>>
      BY <2>2 DEF vars, chip, senders
    <3> QED BY <3>1 DEF StampInv, CapAges, WireAges, Limit, Charged, Unstamped, StampOwn
  <2>3. CASE Next
    BY <2>1, <2>3, ChipAges, ThreadAges, SendAges, TxAges, TxStamps DEF Next, StampInv
  <2> QED BY <2>2, <2>3
<1>3. StampInv => StampOwn
  BY DEF StampInv
<1> QED BY InitHolds, StepHolds, <1>1, <1>2, <1>3, PTL DEF Spec
=============================================================================
