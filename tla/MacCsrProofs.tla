--------------------------- MODULE MacCsrProofs ----------------------------
(***************************************************************************)
(* The multicast filter and the carrier, for any number of threads, groups *)
(* and hash bits (as long as a reference count cannot overflow).           *)
(*                                                                         *)
(* Two threads share one pair of registers, so the inductive invariant     *)
(* says whose command the chip is executing (DriverCommand, AppCommand),   *)
(* how far the holder of hash_lock is with its two words when nobody came  *)
(* in between (Progress), and, for the driver's thread, where the PHY's    *)
(* interrupt source is on its way from the latch to tmp (LinkRead): a link *)
(* that is up is announced by LINK_UP somewhere on that way, or the        *)
(* carrier is on.                                                          *)
(***************************************************************************)
EXTENDS MacCsr, FiniteSetTheorems, SequenceTheorems, TLAPS

----------------------------------------------------------------------------
(* The accesses.                                                           *)

P == Poll(MII_ACC)
W == Write(MII_ACC, PHY_INTERRUPT_SOURCE)
R == Read(MII_DATA)

\* What lan9250_thread() does to log a link that came up.
UpOps == {P, R, Write(MII_ACC, PHY_SPECIAL_CONTROL_STATUS), Write(MII_ACC, PHY_SPECIAL_CONTROL_STAT_IND)}

\* The two words of the filter, and the accesses that write them.
Bits == {i \in 0 .. 63 : mcast_hash_refcount[i] > 0}
Low  == Bits \cap 0 .. 31
High == {i - 32 : i \in Bits \cap 32 .. 63}
WL   == Write(HASHL, Low)
WH   == Write(HASHH, High)

Command(op) == [reg |-> op.reg, read |-> op.read]

----------------------------------------------------------------------------
(* The inductive invariant.                                                *)

\* One thread at a time is in set_config(); it has both words to write.
Holder ==
  \A t \in Apps :
    IF hash_lock = t
    THEN /\ pc[t] \in {"ready", "data", "cmd", "wait"}
         /\ ops[t] \in {<<WL, WH>>, <<WH>>, <<>>}
         /\ ops[t] = <<>> => pc[t] = "ready"
    ELSE pc[t] = "idle" /\ ops[t] = <<>>

\* The reference counts, one byte each, count the joined groups.
GroupsFit == IsFiniteSet(Groups) /\ Cardinality(Groups) <= 255
At(b)     == {g \in joined : hash_bit[g] = b}
Counted   == GroupsFit => \A b \in 0 .. 63 : mcast_hash_refcount[b] = Cardinality(At(b))

\* The driver's thread and the command it has given.
DriverCommand ==
  /\ pc[Driver] = "idle" <=> stage = "idle"
  /\ stage = "idle" => ops[Driver] = <<>>
  /\ stage = "source" => ops[Driver] \in {<<P, W, P, R>>, <<W, P, R>>, <<P, R>>, <<R>>, <<>>}
  /\ stage = "up" => ops[Driver] \in Seq(UpOps)
  /\ pc[Driver] \in {"data", "cmd", "wait", "read", "sleep"} => ops[Driver] # <<>>
  /\ pc[Driver] \in {"data", "cmd"} => csr_cmd = None
  /\ pc[Driver] = "data" => ~Head(ops[Driver]).read
  /\ pc[Driver] = "read" => Head(ops[Driver]).read /\ csr_cmd = None
  /\ pc[Driver] = "wait" => csr_cmd \in {None, Command(Head(ops[Driver]))}
  /\ pc[Driver] = "cmd" \/ (pc[Driver] = "wait" /\ csr_cmd # None) =>
       Head(ops[Driver]).read \/ csr_data = Head(ops[Driver]).val

\* Any other command is the one the holder of hash_lock waits for.
AppCommand ==
  pc[Driver] # "wait" /\ csr_cmd # None =>
    /\ hash_lock \in Apps /\ pc[hash_lock] = "wait"
    /\ csr_cmd = Command(Head(ops[hash_lock]))

\* The holder t has got as far as w says with its first access.
Writing(t, w) ==
  /\ pc[t] = "cmd" => csr_data = w.val
  /\ pc[t] = "wait" => IF csr_cmd = None THEN mac[w.reg] = w.val ELSE csr_data = w.val

Progress ==
  ~clash =>
    /\ hash_lock = None => mac[HASHL] = Low /\ mac[HASHH] = High
    /\ \A t \in Apps : hash_lock = t =>
         /\ pc[Driver] \in {"idle", "sleep", "ready", "data", "cmd"}
         /\ ops[t] = <<WL, WH>> => Writing(t, WL)
         /\ ops[t] = <<WH>> => mac[HASHL] = Low /\ Writing(t, WH)
         /\ ops[t] = <<>> => mac[HASHL] = Low /\ mac[HASHH] = High

\* A PHY access in progress is none of the interrupt source.
NotSource == MIIBZY \in mac[MII_ACC] => mac[MII_ACC] \ {MIIBZY} # PHY_INTERRUPT_SOURCE

\* If the link is up, either what was read says so or there is more to read.
Heard(c) == link => LINK_UP \in source \/ LINK_UP \in c

\* The read of the interrupt source was given to the PHY.
Asked ==
  /\ mac[MII_ACC] \in {PHY_INTERRUPT_SOURCE, PHY_INTERRUPT_SOURCE \cup {MIIBZY}}
  /\ IF MIIBZY \in mac[MII_ACC] THEN source # {} ELSE Heard(mac[MII_DATA])

\* The chip has answered the driver's read.
Replied == pc[Driver] = "read" \/ (pc[Driver] = "wait" /\ csr_cmd = None)

LinkRead ==
  /\ link => source = {} \/ LINK_UP \in source
  /\ stage = "idle" => NotSource /\ Heard(IF carrier THEN {LINK_UP} ELSE {})
  /\ stage = "up" => NotSource
  /\ stage = "source" =>
       /\ ops[Driver] = <<P, W, P, R>> => source # {} /\ NotSource
       /\ ops[Driver] = <<W, P, R>> =>
            IF pc[Driver] = "wait" /\ csr_cmd = None THEN Asked
            ELSE source # {} /\ MIIBZY \notin mac[MII_ACC]
       /\ ops[Driver] = <<P, R>> => Asked
       /\ ops[Driver] = <<R>> => MIIBZY \notin mac[MII_ACC] /\ Heard(mac[MII_DATA])
       /\ ops[Driver] = <<>> => MIIBZY \notin mac[MII_ACC] /\ Heard(tmp)
       /\ Replied /\ ops[Driver] \in {<<P, W, P, R>>, <<P, R>>} =>
            (MIIBZY \in mac[MII_ACC] => MIIBZY \in csr_data)
       /\ Replied /\ ops[Driver] = <<R>> => csr_data = mac[MII_DATA]

IInv == TypeOK /\ Holder /\ Counted /\ DriverCommand /\ AppCommand /\ Progress /\ LinkRead

----------------------------------------------------------------------------
(* Facts about the accesses.                                               *)

LEMMA RegNames ==
  /\ HASHL # HASHH /\ HASHL # MII_ACC /\ HASHL # MII_DATA
  /\ HASHH # MII_ACC /\ HASHH # MII_DATA /\ MII_ACC # MII_DATA
  /\ HASHL \in MacRegs /\ HASHH \in MacRegs /\ MII_ACC \in MacRegs /\ MII_DATA \in MacRegs
  BY DEF HASHL, HASHH, MII_ACC, MII_DATA, MacRegs

LEMMA HashBitType == \A g \in Groups : hash_bit[g] \in 0 .. 63
  BY MacAssumption

LEMMA PhyIndexes ==
  /\ PHY_INTERRUPT_SOURCE \subseteq 0 .. 31 /\ MIIBZY \notin PHY_INTERRUPT_SOURCE
  /\ PHY_SPECIAL_CONTROL_STATUS \subseteq 0 .. 31 /\ PHY_SPECIAL_CONTROL_STAT_IND \subseteq 0 .. 31
  /\ MIIBZY \notin PHY_SPECIAL_CONTROL_STATUS /\ MIIBZY \notin PHY_SPECIAL_CONTROL_STAT_IND
  /\ PHY_SPECIAL_CONTROL_STATUS # PHY_INTERRUPT_SOURCE
  /\ PHY_SPECIAL_CONTROL_STAT_IND # PHY_INTERRUPT_SOURCE
  /\ MIIBZY \in 0 .. 31 /\ LINK_UP \in 0 .. 31 /\ LINK_DOWN \in 0 .. 31 /\ LINK_UP # LINK_DOWN
<1>1. 7 \in PHY_SPECIAL_CONTROL_STATUS /\ 7 \notin PHY_INTERRUPT_SOURCE
  BY DEF PHY_SPECIAL_CONTROL_STATUS, PHY_INTERRUPT_SOURCE
<1>2. 7 \in PHY_SPECIAL_CONTROL_STAT_IND
  BY DEF PHY_SPECIAL_CONTROL_STAT_IND
<1> QED BY <1>1, <1>2 DEF PHY_INTERRUPT_SOURCE, PHY_SPECIAL_CONTROL_STATUS, PHY_SPECIAL_CONTROL_STAT_IND,
                          MIIBZY, LINK_UP, LINK_DOWN

\* The accesses lan9250_thread() makes touch MII_ACC and MII_DATA only.
DriverOp(op) ==
  /\ op.reg \in {MII_ACC, MII_DATA} /\ op.read \in BOOLEAN /\ op.poll \in BOOLEAN
  /\ op.val \subseteq 0 .. 31 /\ MIIBZY \notin op.val
  /\ op.read \/ op.reg = MII_ACC
  /\ op.poll => op.read

LEMMA OpFields ==
  /\ P.reg = MII_ACC /\ P.read = TRUE /\ P.poll = TRUE /\ DriverOp(P)
  /\ W.reg = MII_ACC /\ W.read = FALSE /\ W.poll = FALSE /\ W.val = PHY_INTERRUPT_SOURCE /\ DriverOp(W)
  /\ R.reg = MII_DATA /\ R.read = TRUE /\ R.poll = FALSE /\ DriverOp(R)
  /\ \A op \in UpOps : DriverOp(op) /\ (op.read \/ op.val # PHY_INTERRUPT_SOURCE)
<1>1. /\ P.reg = MII_ACC /\ P.read = TRUE /\ P.poll = TRUE /\ P.val = {}
      /\ W.reg = MII_ACC /\ W.read = FALSE /\ W.poll = FALSE /\ W.val = PHY_INTERRUPT_SOURCE
      /\ R.reg = MII_DATA /\ R.read = TRUE /\ R.poll = FALSE /\ R.val = {}
  BY DEF P, W, R, Poll, Read, Write
<1>2. DriverOp(P) /\ DriverOp(R)
  BY <1>1 DEF DriverOp
<1>3. DriverOp(W)
  BY <1>1, PhyIndexes DEF DriverOp
<1>4. ASSUME NEW v, v \subseteq 0 .. 31, MIIBZY \notin v, v # PHY_INTERRUPT_SOURCE
      PROVE  DriverOp(Write(MII_ACC, v)) /\ Write(MII_ACC, v).val # PHY_INTERRUPT_SOURCE
  BY <1>4 DEF DriverOp, Write
<1>5. \A op \in UpOps : DriverOp(op) /\ (op.read \/ op.val # PHY_INTERRUPT_SOURCE)
  BY <1>1, <1>2, <1>4, PhyIndexes DEF UpOps
<1> QED BY <1>1, <1>2, <1>3, <1>5

LEMMA WordFields ==
  /\ WL.reg = HASHL /\ WL.read = FALSE /\ WL.val = Low /\ Low \subseteq 0 .. 31
  /\ WH.reg = HASHH /\ WH.read = FALSE /\ WH.val = High /\ High \subseteq 0 .. 31
<1>1. Low \subseteq 0 .. 31
  BY DEF Low
<1>2. High \subseteq 0 .. 31
  BY DEF High
<1> QED BY <1>1, <1>2 DEF WL, WH, Write

\* Heads, tails and lengths of the scripts.
LEMMA Scripts ==
  ASSUME NEW a, NEW b, NEW c, NEW d
  PROVE  /\ Head(<<a, b, c, d>>) = a /\ Tail(<<a, b, c, d>>) = <<b, c, d>> /\ Len(<<a, b, c, d>>) = 4
         /\ Head(<<a, b, c>>) = a /\ Tail(<<a, b, c>>) = <<b, c>> /\ Len(<<a, b, c>>) = 3
         /\ Head(<<a, b>>) = a /\ Tail(<<a, b>>) = <<b>> /\ Len(<<a, b>>) = 2
         /\ Head(<<a>>) = a /\ Tail(<<a>>) = <<>> /\ Len(<<a>>) = 1
         /\ Len(<<>>) = 0
<1>1. Tail(<<a, b, c, d>>) = <<b, c, d>>
  OBVIOUS
<1>2. Tail(<<a, b, c>>) = <<b, c>>
  OBVIOUS
<1>3. Tail(<<a, b>>) = <<b>> /\ Tail(<<a>>) = <<>>
  OBVIOUS
<1> QED BY <1>1, <1>2, <1>3

\* The driver's script for the interrupt source: its steps differ in length.
LEMMA SourceScript ==
  /\ Head(<<P, W, P, R>>) = P /\ Tail(<<P, W, P, R>>) = <<W, P, R>>
  /\ Head(<<W, P, R>>) = W /\ Tail(<<W, P, R>>) = <<P, R>>
  /\ Head(<<P, R>>) = P /\ Tail(<<P, R>>) = <<R>>
  /\ Head(<<R>>) = R /\ Tail(<<R>>) = <<>>
  /\ <<P, W, P, R>> # <<W, P, R>> /\ <<P, W, P, R>> # <<P, R>> /\ <<P, W, P, R>> # <<R>>
  /\ <<P, W, P, R>> # <<>> /\ <<W, P, R>> # <<P, R>> /\ <<W, P, R>> # <<R>> /\ <<W, P, R>> # <<>>
  /\ <<P, R>> # <<R>> /\ <<P, R>> # <<>> /\ <<R>> # <<>>
<1>1. /\ Head(<<P, W, P, R>>) = P /\ Tail(<<P, W, P, R>>) = <<W, P, R>>
      /\ Head(<<W, P, R>>) = W /\ Tail(<<W, P, R>>) = <<P, R>>
      /\ Head(<<P, R>>) = P /\ Tail(<<P, R>>) = <<R>>
      /\ Head(<<R>>) = R /\ Tail(<<R>>) = <<>>
  BY Scripts
<1>2. Len(<<P, W, P, R>>) = 4 /\ Len(<<W, P, R>>) = 3 /\ Len(<<P, R>>) = 2 /\ Len(<<R>>) = 1 /\ Len(<<>>) = 0
  BY Scripts, Zenon
<1>3. 4 # 3 /\ 4 # 2 /\ 4 # 1 /\ 4 # 0 /\ 3 # 2 /\ 3 # 1 /\ 3 # 0 /\ 2 # 1 /\ 2 # 0 /\ 1 # 0
  OBVIOUS
<1> QED BY <1>1, <1>2, <1>3, Zenon

LEMMA WordScript ==
  /\ Head(<<WL, WH>>) = WL /\ Tail(<<WL, WH>>) = <<WH>> /\ Head(<<WH>>) = WH /\ Tail(<<WH>>) = <<>>
  /\ <<WL, WH>> # <<WH>> /\ <<WL, WH>> # <<>> /\ <<WH>> # <<>>
<1>1. Head(<<WL, WH>>) = WL /\ Tail(<<WL, WH>>) = <<WH>> /\ Head(<<WH>>) = WH /\ Tail(<<WH>>) = <<>>
  BY Scripts, Zenon
<1>2. Len(<<WL, WH>>) = 2 /\ Len(<<WH>>) = 1 /\ Len(<<>>) = 0
  BY Scripts, Zenon
<1>3. 2 # 1 /\ 2 # 0 /\ 1 # 0
  OBVIOUS
<1> QED BY <1>1, <1>2, <1>3, Zenon

\* The access the driver's thread is in.
LEMMA DriverHead ==
  ASSUME DriverCommand, TypeOK, ops[Driver] # <<>>
  PROVE  /\ DriverOp(Head(ops[Driver]))
         /\ stage = "source" => Head(ops[Driver]) \in {P, W, R}
         /\ stage = "up" => Head(ops[Driver]) \in UpOps /\ Tail(ops[Driver]) \in Seq(UpOps)
<1>1. stage \in {"source", "up"}
  BY DEF DriverCommand, TypeOK
<1>2. CASE stage = "source"
  BY <1>2, SourceScript, OpFields DEF DriverCommand
<1>3. CASE stage = "up"
  <2>1. ops[Driver] \in Seq(UpOps)
    BY <1>3 DEF DriverCommand
  <2>2. Head(ops[Driver]) \in UpOps /\ Tail(ops[Driver]) \in Seq(UpOps)
    BY <2>1, HeadTailProperties
  <2> QED BY <1>3, <2>2, OpFields
<1> QED BY <1>1, <1>2, <1>3

\* The access the holder of hash_lock is in.
LEMMA AppHead ==
  ASSUME Holder, NEW t \in Apps, hash_lock = t, ops[t] # <<>>
  PROVE  \/ ops[t] = <<WL, WH>> /\ Head(ops[t]) = WL /\ Tail(ops[t]) = <<WH>>
         \/ ops[t] = <<WH>> /\ Head(ops[t]) = WH /\ Tail(ops[t]) = <<>>
  BY WordScript DEF Holder

----------------------------------------------------------------------------
(* The invariant holds initially.                                          *)

LEMMA InitIInv == Init => IInv
<1> SUFFICES ASSUME Init PROVE IInv
  OBVIOUS
<1>1. TypeOK
  <2>1. mac \in [MacRegs -> SUBSET (0 .. 31)] /\ mcast_hash_refcount \in [0 .. 63 -> 0 .. 255]
    BY DEF Init
  <2>2. pc \in [Threads -> {"idle", "ready", "data", "cmd", "wait", "read", "sleep"}] /\ DOMAIN ops = Threads
    BY DEF Init
  <2>3. csr_data \subseteq 0 .. 31 /\ tmp \subseteq 0 .. 31 /\ joined \subseteq Groups
        /\ source \subseteq {LINK_UP, LINK_DOWN}
    BY DEF Init
  <2> QED BY <2>1, <2>2, <2>3 DEF Init, TypeOK
<1>2. Holder
  BY MacAssumption, NamesAssumption DEF Init, Holder, Threads
<1>3. Counted
  <2>1. \A b \in 0 .. 63 : At(b) = {}
    BY DEF Init, At
  <2>2. Cardinality({}) = 0
    BY FS_EmptySet
  <2> QED BY <2>1, <2>2 DEF Init, Counted
<1>4. DriverCommand /\ AppCommand
  BY DEF Init, DriverCommand, AppCommand, Threads
<1>5. Progress
  <2>1. Bits = {}
    BY DEF Init, Bits
  <2>2. Low = {} /\ High = {}
    BY <2>1 DEF Low, High
  <2> QED BY <2>2, RegNames, MacAssumption DEF Init, Progress
<1>6. LinkRead
  BY RegNames DEF Init, LinkRead, NotSource, Heard
<1> QED BY <1>1, <1>2, <1>3, <1>4, <1>5, <1>6 DEF IInv

----------------------------------------------------------------------------
(* The chip.                                                               *)

\* The words to write depend on the reference counts only.
LEMMA SameWords ==
  ASSUME UNCHANGED mcast_hash_refcount
  PROVE  Low' = Low /\ High' = High /\ WL' = WL /\ WH' = WH
  BY DEF Low, High, Bits, WL, WH

\* What the threads hold does not change with the chip.
LEMMA SameThreads ==
  ASSUME Holder, Counted, UNCHANGED <<ops, pc, hash_lock, mcast_hash_refcount, joined>>
  PROVE  Holder' /\ Counted'
<1>1. Holder'
  BY SameWords DEF Holder
<1>2. Counted'
  BY DEF Counted, At
<1> QED BY <1>1, <1>2

LEMMA CsrExecuteKeeps == IInv /\ CsrExecute => IInv'
<1> SUFFICES ASSUME IInv, CsrExecute PROVE IInv'
  OBVIOUS
<1> USE DEF phy, threads, filter
<1>0. TypeOK /\ Holder /\ Counted /\ DriverCommand /\ AppCommand /\ Progress /\ LinkRead
  BY DEF IInv
<1>1. /\ UNCHANGED <<ops, pc, tmp, stage, hash_lock, mcast_hash_refcount, joined, clash, carrier, link, source>>
      /\ csr_cmd # None /\ csr_cmd' = None
  BY DEF CsrExecute
<1>2. Low' = Low /\ High' = High /\ WL' = WL /\ WH' = WH
  BY <1>1, SameWords
<1>3. Holder' /\ Counted'
  BY <1>0, <1>1, SameThreads
<1>4. TypeOK'
  <2>1. csr_cmd \in [reg : MacRegs, read : BOOLEAN] /\ mac[csr_cmd.reg] \subseteq 0 .. 31
    BY <1>0, <1>1 DEF TypeOK
  <2>2. CASE csr_cmd.read
    <3>1. csr_data' \subseteq 0 .. 31 /\ mac' = mac
      BY <2>1, <2>2 DEF CsrExecute
    <3> QED BY <1>0, <1>1, <3>1 DEF TypeOK
  <2>3. CASE ~csr_cmd.read
    <3>1. mac' \in [MacRegs -> SUBSET (0 .. 31)] /\ csr_data' = csr_data
      <4>1. PICK v : v = IF csr_cmd.reg = MII_ACC THEN csr_data \cup {MIIBZY} ELSE csr_data
        OBVIOUS
      <4>2. v \in SUBSET (0 .. 31)
        BY <1>0, <4>1, PhyIndexes DEF TypeOK
      <4>3. mac' = [mac EXCEPT ![csr_cmd.reg] = v] /\ csr_data' = csr_data
        BY <2>3, <4>1 DEF CsrExecute
      <4> QED BY <1>0, <4>2, <4>3 DEF TypeOK
    <3> QED BY <1>0, <1>1, <3>1 DEF TypeOK
  <2> QED BY <2>2, <2>3
<1>5. DriverCommand' /\ AppCommand'
  BY <1>0, <1>1 DEF DriverCommand, AppCommand
<1>6. CASE pc[Driver] = "wait"
  <2>1. PICK op : op = Head(ops[Driver])
    OBVIOUS
  <2>2. DriverOp(op) /\ csr_cmd = Command(op) /\ ops[Driver] # <<>>
    BY <1>0, <1>1, <1>6, <2>1, DriverHead DEF DriverCommand
  <2>3. csr_cmd.reg = op.reg /\ csr_cmd.read = op.read
    BY <2>2 DEF Command
  <2>4. mac'[HASHL] = mac[HASHL] /\ mac'[HASHH] = mac[HASHH] /\ mac'[MII_DATA] = mac[MII_DATA]
    <3>1. op.read => mac' = mac
      BY <1>0, <2>3 DEF CsrExecute
    <3>2. mac \in [MacRegs -> SUBSET (0 .. 31)]
      BY <1>0 DEF TypeOK
    <3>3. ~op.read => \A q \in MacRegs : q # op.reg => mac'[q] = mac[q]
      <4>1. ~op.read => \E v : mac' = [mac EXCEPT ![op.reg] = v]
        BY <1>0, <2>3 DEF CsrExecute
      <4> QED BY <4>1, <3>2
    <3>4. op.read \/ op.reg = MII_ACC
      BY <2>2 DEF DriverOp
    <3> QED BY <3>1, <3>3, <3>4, RegNames
  <2>5. Progress'
    <3>1. ~clash => hash_lock \notin Apps
      BY <1>0, <1>6 DEF Progress
    <3> QED BY <1>0, <1>1, <1>2, <2>4, <3>1 DEF Progress
  <2>6. LinkRead'
    <3>1. CASE op.read
      <4>1. mac' = mac /\ csr_data' = mac[op.reg]
        BY <2>3, <3>1 DEF CsrExecute
      <4>2. CASE stage = "source"
        <5>1. op = P \/ op = R
          BY <1>0, <2>1, <2>2, <3>1, <4>2, DriverHead, OpFields
        <5>2. ops[Driver] # <<W, P, R>>
          BY <2>1, <3>1, SourceScript, OpFields
        <5>3. CASE op = P
          BY <1>0, <1>1, <1>6, <2>1, <2>2, <4>1, <4>2, <5>2, <5>3, SourceScript, OpFields
             DEF LinkRead, DriverCommand, Replied, NotSource, Heard, Asked
        <5>4. CASE op = R
          BY <1>0, <1>1, <1>6, <2>1, <2>2, <4>1, <4>2, <5>2, <5>4, SourceScript, OpFields
             DEF LinkRead, DriverCommand, Replied, NotSource, Heard, Asked
        <5> QED BY <5>1, <5>3, <5>4
      <4>3. CASE stage # "source"
        BY <1>0, <1>1, <4>1, <4>3 DEF LinkRead, NotSource, Heard
      <4> QED BY <4>2, <4>3
    <3>2. CASE ~op.read
      <4>1. op.reg = MII_ACC /\ csr_data = op.val /\ csr_data' = csr_data
        BY <1>0, <1>1, <1>6, <2>1, <2>2, <2>3, <3>2 DEF CsrExecute, DriverOp, DriverCommand
      <4>2. mac'[MII_ACC] = op.val \cup {MIIBZY} /\ MIIBZY \notin op.val
        BY <1>0, <2>2, <2>3, <3>2, <4>1, RegNames DEF CsrExecute, DriverOp, TypeOK
      <4>3. CASE stage = "source"
        <5>1. op = W
          BY <1>0, <2>1, <2>2, <3>2, <4>3, DriverHead, OpFields
        <5>2. ops[Driver] = <<W, P, R>>
          BY <1>0, <2>1, <2>2, <3>2, <4>3, SourceScript, OpFields DEF DriverCommand
        <5>3. source # {}
          BY <1>0, <1>1, <4>3, <5>2 DEF LinkRead
        <5>4. Asked'
          BY <1>1, <4>2, <5>1, <5>3, OpFields DEF Asked
        <5> QED BY <1>0, <1>1, <1>6, <4>3, <5>2, <5>4, SourceScript DEF LinkRead
      <4>4. CASE stage = "up"
        <5>1. op.val # PHY_INTERRUPT_SOURCE
          BY <1>0, <2>1, <2>2, <3>2, <4>4, DriverHead, OpFields
        <5>2. NotSource'
          <6>1. mac'[MII_ACC] \ {MIIBZY} = op.val
            BY <4>2
          <6> QED BY <5>1, <6>1 DEF NotSource
        <5> QED BY <1>0, <1>1, <4>4, <5>2 DEF LinkRead
      <4>5. stage # "idle"
        BY <1>0, <1>6 DEF DriverCommand
      <4> QED BY <1>0, <4>3, <4>4, <4>5 DEF TypeOK
    <3> QED BY <3>1, <3>2
  <2> QED BY <1>3, <1>4, <1>5, <2>5, <2>6 DEF IInv
<1>7. CASE pc[Driver] # "wait"
  <2>1. PICK t \in Apps : hash_lock = t /\ pc[t] = "wait" /\ csr_cmd = Command(Head(ops[t]))
    BY <1>0, <1>1, <1>7 DEF AppCommand
  <2>2. ops[t] # <<>>
    BY <1>0, <2>1 DEF Holder
  <2>3. PICK op : op = Head(ops[t])
    OBVIOUS
  <2>4. op.read = FALSE /\ op.reg \in {HASHL, HASHH} /\ csr_cmd.reg = op.reg /\ csr_cmd.read = FALSE
    BY <1>0, <2>1, <2>2, <2>3, AppHead, WordFields DEF Command
  <2>5. csr_data' = csr_data /\ mac' = [mac EXCEPT ![op.reg] = csr_data]
    BY <2>4, RegNames DEF CsrExecute
  <2>6. mac'[MII_ACC] = mac[MII_ACC] /\ mac'[MII_DATA] = mac[MII_DATA]
    BY <1>0, <2>4, <2>5, RegNames DEF TypeOK
  <2>7. Progress'
    <3>0. hash_lock # None
      BY <2>1, MacAssumption
    <3>1. CASE clash
      BY <1>1, <3>1 DEF Progress
    <3>2. CASE ~clash /\ ops[t] = <<WL, WH>> /\ op = WL
      <4>1. csr_data = Low /\ mac'[HASHL] = Low
        BY <1>0, <1>1, <2>1, <2>5, <3>2, WordFields, RegNames DEF Progress, Writing, TypeOK
      <4> QED BY <1>0, <1>1, <1>2, <2>1, <3>0, <3>2, <4>1, WordScript, WordFields DEF Progress, Writing
    <3>3. CASE ~clash /\ ops[t] = <<WH>> /\ op = WH
      <4>1. csr_data = High /\ mac'[HASHH] = High /\ mac'[HASHL] = mac[HASHL]
        BY <1>0, <1>1, <2>1, <2>5, <3>3, WordFields, RegNames DEF Progress, Writing, TypeOK
      <4> QED BY <1>0, <1>1, <1>2, <2>1, <3>0, <3>3, <4>1, WordScript, WordFields DEF Progress, Writing
    <3> QED BY <1>0, <2>1, <2>2, <2>3, <3>1, <3>2, <3>3, AppHead
  <2>8. LinkRead'
    BY <1>0, <1>1, <1>7, <2>5, <2>6 DEF LinkRead, NotSource, Heard, Asked, Replied
  <2> QED BY <1>3, <1>4, <1>5, <2>7, <2>8 DEF IInv
<1> QED BY <1>6, <1>7

\* The PHY clears its interrupt source only when it hands it over.
LEMMA PhyExecuteKeeps == IInv /\ PhyExecute => IInv'
<1> SUFFICES ASSUME IInv, PhyExecute PROVE IInv'
  OBVIOUS
<1> USE DEF phy, threads, filter
<1>0. TypeOK /\ Holder /\ Counted /\ DriverCommand /\ AppCommand /\ Progress /\ LinkRead
  BY DEF IInv
<1>1. /\ UNCHANGED <<ops, pc, tmp, stage, hash_lock, mcast_hash_refcount, joined, clash, carrier, link>>
      /\ UNCHANGED <<csr_cmd, csr_data>> /\ MIIBZY \in mac[MII_ACC]
  BY DEF PhyExecute
<1>2. Low' = Low /\ High' = High /\ WL' = WL /\ WH' = WH
  BY <1>1, SameWords
<1>3. Holder' /\ Counted'
  BY <1>0, <1>1, SameThreads
<1>4. PICK index : index = mac[MII_ACC] \ {MIIBZY}
  OBVIOUS
<1>5. /\ mac'[HASHL] = mac[HASHL] /\ mac'[HASHH] = mac[HASHH] /\ mac'[MII_ACC] = index
      /\ mac'[MII_DATA] = IF index = PHY_INTERRUPT_SOURCE THEN source ELSE {}
      /\ source' = IF index = PHY_INTERRUPT_SOURCE THEN {} ELSE source
  BY <1>0, <1>4, RegNames DEF PhyExecute, TypeOK
<1>6. TypeOK'
  <2>1. index \subseteq 0 .. 31 /\ source \subseteq 0 .. 31
    BY <1>0, <1>4, RegNames, PhyIndexes DEF TypeOK
  <2>2. mac' \in [MacRegs -> SUBSET (0 .. 31)]
    BY <1>0, <1>4, <2>1 DEF PhyExecute, TypeOK
  <2> QED BY <1>0, <1>1, <1>5, <2>2 DEF TypeOK
<1>7. DriverCommand' /\ AppCommand'
  BY <1>0, <1>1 DEF DriverCommand, AppCommand
<1>8. Progress'
  BY <1>0, <1>1, <1>2, <1>5, WordFields DEF Progress, Writing
<1>9. LinkRead'
  <2>1. MIIBZY \notin mac'[MII_ACC]
    BY <1>4, <1>5
  <2>2. CASE stage # "source"
    BY <1>0, <1>1, <1>4, <1>5, <2>1, <2>2 DEF LinkRead, NotSource, Heard
  <2>3. CASE stage = "source" /\ ops[Driver] = <<P, W, P, R>>
    BY <1>0, <1>1, <1>4, <1>5, <2>1, <2>3, SourceScript DEF LinkRead, NotSource
  <2>4. CASE stage = "source" /\ ops[Driver] \in {<<W, P, R>>, <<P, R>>} /\ Asked
    <3>1. index = PHY_INTERRUPT_SOURCE /\ source # {}
      BY <1>1, <1>4, <2>4, PhyIndexes DEF Asked
    <3>2. Asked'
      BY <1>0, <1>1, <1>5, <2>1, <3>1 DEF Asked, Heard, LinkRead
    <3> QED BY <1>0, <1>1, <1>5, <2>1, <2>4, <3>1, <3>2, SourceScript DEF LinkRead, Replied
  <2> QED BY <1>0, <1>1, <2>2, <2>3, <2>4 DEF LinkRead, DriverCommand
<1> QED BY <1>3, <1>6, <1>7, <1>8, <1>9 DEF IInv

LEMMA LinkChangeKeeps == IInv /\ LinkChange => IInv'
<1> SUFFICES ASSUME IInv, LinkChange PROVE IInv'
  OBVIOUS
<1> USE DEF chip, threads, filter
<1>0. TypeOK /\ Holder /\ Counted /\ DriverCommand /\ AppCommand /\ Progress /\ LinkRead
  BY DEF IInv
<1>1. /\ UNCHANGED <<ops, pc, tmp, stage, hash_lock, mcast_hash_refcount, joined, clash, carrier>>
      /\ UNCHANGED <<csr_cmd, csr_data, mac>>
      /\ link' = ~link /\ source' = source \cup {IF link THEN LINK_DOWN ELSE LINK_UP}
  BY DEF LinkChange
<1>2. Low' = Low /\ High' = High /\ WL' = WL /\ WH' = WH
  BY <1>1, SameWords
<1>3. Holder' /\ Counted'
  BY <1>0, <1>1, SameThreads
<1>4. TypeOK'
  BY <1>0, <1>1 DEF TypeOK
<1>5. DriverCommand' /\ AppCommand'
  BY <1>0, <1>1 DEF DriverCommand, AppCommand
<1>6. Progress'
  BY <1>0, <1>1, <1>2, WordFields DEF Progress, Writing
<1>7. LinkRead'
  <2>1. source' # {} /\ (link' => LINK_UP \in source')
    BY <1>0, <1>1 DEF TypeOK
  <2>2. \A c : Heard(c)'
    BY <2>1 DEF Heard
  <2> QED BY <1>0, <1>1, <2>1, <2>2 DEF LinkRead, NotSource, Asked, Replied
<1> QED BY <1>3, <1>4, <1>5, <1>6, <1>7 DEF IInv

----------------------------------------------------------------------------
(* The driver's thread.                                                    *)

\* A step of the driver's thread leaves the other threads where they are, and
\* those that use the registers mark it in clash.
LEMMA DriverFrame ==
  ASSUME IInv,
         \A u \in Apps : pc'[u] = pc[u] /\ ops'[u] = ops[u],
         UNCHANGED <<mac, hash_lock, mcast_hash_refcount, joined>>,
         \/ /\ UNCHANGED <<csr_data, csr_cmd, clash>>
            /\ \/ pc'[Driver] \in {"idle", "sleep", "ready", "data", "cmd"}
               \/ pc[Driver] \in {"wait", "read"}
         \/ Clash(Driver)
  PROVE  Holder' /\ Counted' /\ Progress'
<1>0. TypeOK /\ Holder /\ Counted /\ Progress
  BY DEF IInv
<1>1. Low' = Low /\ High' = High /\ WL' = WL /\ WH' = WH
  BY SameWords
<1>2. Holder'
  BY <1>0, <1>1 DEF Holder
<1>3. Counted'
  BY <1>0 DEF Counted, At
<1>4. Progress'
  <2>1. CASE UNCHANGED <<csr_data, csr_cmd, clash>> /\ pc'[Driver] \in {"idle", "sleep", "ready", "data", "cmd"}
    BY <1>0, <1>1, <2>1 DEF Progress, Writing
  <2>2. CASE UNCHANGED <<csr_data, csr_cmd, clash>> /\ pc[Driver] \in {"wait", "read"}
    <3>1. ~clash => hash_lock \notin Apps
      BY <1>0, <2>2 DEF Progress
    <3> QED BY <1>0, <1>1, <2>2, <3>1 DEF Progress
  <2>3. CASE Clash(Driver)
    <3>1. ~clash' => hash_lock = None /\ ~clash
      BY <2>3 DEF Clash
    <3> QED BY <1>0, <1>1, <3>1, MacAssumption DEF Progress
  <2> QED BY <2>1, <2>2, <2>3
<1> QED BY <1>2, <1>3, <1>4

LEMMA DriverIsThread == Driver \in Threads /\ Driver \notin Apps /\ Apps \subseteq Threads
  BY NamesAssumption DEF Threads

LEMMA DriverWaitReady == IInv /\ WaitReady(Driver) => IInv'
<1> SUFFICES ASSUME IInv, WaitReady(Driver) PROVE IInv'
  OBVIOUS
<1> USE DEF chip, phy, filter
<1>0. TypeOK /\ Holder /\ Counted /\ DriverCommand /\ AppCommand /\ Progress /\ LinkRead
  BY DEF IInv
<1>1. /\ pc[Driver] = "ready" /\ ops[Driver] # <<>> /\ csr_cmd = None
      /\ pc'[Driver] = IF Head(ops[Driver]).read THEN "cmd" ELSE "data"
      /\ UNCHANGED <<ops, csr_data, csr_cmd, mac, link, source, tmp, stage, hash_lock, mcast_hash_refcount,
                     joined, carrier, clash>>
      /\ \A u \in Apps : pc'[u] = pc[u]
  BY <1>0, DriverIsThread DEF WaitReady, Goto, TypeOK
<1>2. TypeOK'
  BY <1>0, DriverIsThread DEF WaitReady, Goto, TypeOK
<1>3. Holder' /\ Counted' /\ Progress'
  BY <1>1, DriverFrame
<1>4. DriverCommand' /\ AppCommand'
  BY <1>0, <1>1 DEF DriverCommand, AppCommand
<1>5. LinkRead'
  BY <1>0, <1>1 DEF LinkRead, NotSource, Heard, Asked, Replied
<1> QED BY <1>2, <1>3, <1>4, <1>5 DEF IInv

LEMMA DriverWriteData == IInv /\ WriteData(Driver) => IInv'
<1> SUFFICES ASSUME IInv, WriteData(Driver) PROVE IInv'
  OBVIOUS
<1> USE DEF chip, phy, filter
<1>0. TypeOK /\ Holder /\ Counted /\ DriverCommand /\ AppCommand /\ Progress /\ LinkRead
  BY DEF IInv
<1>1. /\ pc[Driver] = "data" /\ pc'[Driver] = "cmd" /\ csr_data' = Head(ops[Driver]).val
      /\ UNCHANGED <<ops, csr_cmd, mac, link, source, tmp, stage, hash_lock, mcast_hash_refcount,
                     joined, carrier>>
      /\ Clash(Driver)
      /\ \A u \in Apps : pc'[u] = pc[u]
  BY <1>0, DriverIsThread DEF WriteData, Goto, TypeOK
<1>2. TypeOK'
  <2>1. csr_data' \subseteq 0 .. 31
    BY <1>0, <1>1, DriverHead DEF DriverCommand, DriverOp
  <2>2. clash' \in BOOLEAN
    BY <1>0, <1>1 DEF Clash
  <2> QED BY <1>0, <2>1, <2>2, DriverIsThread DEF WriteData, Goto, TypeOK
<1>3. Holder' /\ Counted' /\ Progress'
  BY <1>1, DriverFrame
<1>4. DriverCommand' /\ AppCommand'
  BY <1>0, <1>1 DEF DriverCommand, AppCommand
<1>5. LinkRead'
  BY <1>0, <1>1 DEF LinkRead, NotSource, Heard, Asked, Replied
<1> QED BY <1>2, <1>3, <1>4, <1>5 DEF IInv

LEMMA DriverWriteCmd == IInv /\ WriteCmd(Driver) => IInv'
<1> SUFFICES ASSUME IInv, WriteCmd(Driver) PROVE IInv'
  OBVIOUS
<1> USE DEF chip, phy, filter
<1>0. TypeOK /\ Holder /\ Counted /\ DriverCommand /\ AppCommand /\ Progress /\ LinkRead
  BY DEF IInv
<1>1. /\ pc[Driver] = "cmd" /\ pc'[Driver] = "wait" /\ csr_cmd' = Command(Head(ops[Driver]))
      /\ UNCHANGED <<ops, csr_data, mac, link, source, tmp, stage, hash_lock, mcast_hash_refcount,
                     joined, carrier>>
      /\ Clash(Driver)
      /\ \A u \in Apps : pc'[u] = pc[u]
  BY <1>0, DriverIsThread DEF WriteCmd, Goto, TypeOK, Command
<1>2. csr_cmd' \in [reg : MacRegs, read : BOOLEAN] /\ csr_cmd' # None
  <2>1. Head(ops[Driver]).reg \in MacRegs /\ Head(ops[Driver]).read \in BOOLEAN
    BY <1>0, <1>1, DriverHead, RegNames DEF DriverCommand, DriverOp
  <2> QED BY <1>1, <2>1, NamesAssumption DEF Command
<1>3. TypeOK'
  <2>1. clash' \in BOOLEAN
    BY <1>0, <1>1 DEF Clash
  <2> QED BY <1>0, <1>2, <2>1, DriverIsThread DEF WriteCmd, Goto, TypeOK
<1>4. Holder' /\ Counted' /\ Progress'
  BY <1>1, DriverFrame
<1>5. DriverCommand' /\ AppCommand'
  BY <1>0, <1>1 DEF DriverCommand, AppCommand
<1>6. LinkRead'
  BY <1>0, <1>1, <1>2 DEF LinkRead, NotSource, Heard, Asked, Replied
<1> QED BY <1>3, <1>4, <1>5, <1>6 DEF IInv

LEMMA DriverWaitDone == IInv /\ WaitDone(Driver) => IInv'
<1> SUFFICES ASSUME IInv, WaitDone(Driver) PROVE IInv'
  OBVIOUS
<1> USE DEF chip, phy, filter
<1>0. TypeOK /\ Holder /\ Counted /\ DriverCommand /\ AppCommand /\ Progress /\ LinkRead
  BY DEF IInv
<1>1. /\ pc[Driver] = "wait" /\ csr_cmd = None /\ ops[Driver] # <<>>
      /\ UNCHANGED <<csr_data, csr_cmd, mac, link, source, tmp, stage, hash_lock, mcast_hash_refcount,
                     joined, carrier, clash>>
      /\ \A u \in Apps : pc'[u] = pc[u] /\ ops'[u] = ops[u]
  BY <1>0, DriverIsThread DEF WaitDone, Goto, OpDone, TypeOK, DriverCommand
<1>2. TypeOK'
  <2>1. DOMAIN ops' = Threads
    BY <1>0 DEF WaitDone, Goto, OpDone, TypeOK
  <2>2. pc' \in [Threads -> {"idle", "ready", "data", "cmd", "wait", "read", "sleep"}]
    <3>1. PICK label \in {"read", "sleep", "ready"} : pc' = [pc EXCEPT ![Driver] = label]
      BY DEF WaitDone, Goto, OpDone
    <3> QED BY <1>0, <3>1, DriverIsThread DEF TypeOK
  <2>3. tmp' \subseteq 0 .. 31
    BY <1>0, <1>1 DEF TypeOK
  <2> QED BY <1>0, <1>1, <2>1, <2>2, <2>3 DEF TypeOK
<1>3. Holder' /\ Counted' /\ Progress'
  BY <1>1, DriverFrame
<1>4. CASE Head(ops[Driver]).read
  <2>1. pc'[Driver] = "read" /\ ops' = ops
    BY <1>0, <1>4, DriverIsThread DEF WaitDone, Goto, TypeOK
  <2>2. DriverCommand' /\ AppCommand'
    BY <1>0, <1>1, <1>4, <2>1 DEF DriverCommand, AppCommand
  <2>3. ops[Driver] # <<W, P, R>>
    BY <1>4, SourceScript, OpFields
  <2>4. LinkRead'
    BY <1>0, <1>1, <2>1, <2>3 DEF LinkRead, NotSource, Heard, Asked, Replied
  <2> QED BY <1>2, <1>3, <2>2, <2>4 DEF IInv
<1>5. CASE ~Head(ops[Driver]).read
  <2>1. pc'[Driver] = "ready" /\ ops'[Driver] = Tail(ops[Driver])
    BY <1>0, <1>5, DriverIsThread DEF WaitDone, OpDone, TypeOK
  <2>2. stage = "source" => ops[Driver] = <<W, P, R>> /\ ops'[Driver] = <<P, R>>
    BY <1>0, <1>1, <1>5, <2>1, SourceScript, OpFields DEF DriverCommand
  <2>3. DriverCommand' /\ AppCommand'
    BY <1>0, <1>1, <2>1, <2>2, DriverHead DEF DriverCommand, AppCommand
  <2>4. LinkRead'
    BY <1>0, <1>1, <2>1, <2>2, SourceScript DEF LinkRead, NotSource, Heard, Asked, Replied
  <2> QED BY <1>2, <1>3, <2>3, <2>4 DEF IInv
<1> QED BY <1>4, <1>5

LEMMA DriverReadData == IInv /\ ReadData(Driver) => IInv'
<1> SUFFICES ASSUME IInv, ReadData(Driver) PROVE IInv'
  OBVIOUS
<1> USE DEF chip, phy, filter
<1>0. TypeOK /\ Holder /\ Counted /\ DriverCommand /\ AppCommand /\ Progress /\ LinkRead
  BY DEF IInv
<1>1. /\ pc[Driver] = "read" /\ ops[Driver] # <<>> /\ csr_cmd = None /\ Head(ops[Driver]).read
      /\ tmp' = IF ~Head(ops[Driver]).poll THEN csr_data ELSE tmp
      /\ UNCHANGED <<csr_data, csr_cmd, mac, link, source, stage, hash_lock, mcast_hash_refcount,
                     joined, carrier, clash>>
      /\ \A u \in Apps : pc'[u] = pc[u] /\ ops'[u] = ops[u]
  BY <1>0, DriverIsThread DEF ReadData, Goto, OpDone, TypeOK, DriverCommand
<1>2. TypeOK'
  <2>1. DOMAIN ops' = Threads
    BY <1>0 DEF ReadData, Goto, OpDone, TypeOK
  <2>2. pc' \in [Threads -> {"idle", "ready", "data", "cmd", "wait", "read", "sleep"}]
    <3>1. PICK label \in {"read", "sleep", "ready"} : pc' = [pc EXCEPT ![Driver] = label]
      BY DEF ReadData, Goto, OpDone
    <3> QED BY <1>0, <3>1, DriverIsThread DEF TypeOK
  <2>3. tmp' \subseteq 0 .. 31
    BY <1>0, <1>1 DEF TypeOK
  <2> QED BY <1>0, <1>1, <2>1, <2>2, <2>3 DEF TypeOK
<1>3. Holder' /\ Counted' /\ Progress'
  BY <1>1, DriverFrame
<1>w. ops[Driver] # <<W, P, R>>
  BY <1>1, SourceScript, OpFields
<1>4. CASE Head(ops[Driver]).poll /\ MIIBZY \in csr_data
  <2>1. pc'[Driver] = "sleep" /\ ops' = ops /\ tmp' = tmp
    BY <1>0, <1>1, <1>4, DriverIsThread DEF ReadData, Goto, TypeOK
  <2>2. DriverCommand' /\ AppCommand'
    BY <1>0, <1>1, <2>1 DEF DriverCommand, AppCommand
  <2>3. LinkRead'
    BY <1>0, <1>1, <1>w, <2>1 DEF LinkRead, NotSource, Heard, Asked, Replied
  <2> QED BY <1>2, <1>3, <2>2, <2>3 DEF IInv
<1>5. CASE ~(Head(ops[Driver]).poll /\ MIIBZY \in csr_data)
  <2>1. pc'[Driver] = "ready" /\ ops'[Driver] = Tail(ops[Driver])
    BY <1>0, <1>5, DriverIsThread DEF ReadData, OpDone, TypeOK
  <2>2. stage = "source" => \/ ops[Driver] = <<P, W, P, R>> /\ ops'[Driver] = <<W, P, R>>
                            \/ ops[Driver] = <<P, R>> /\ ops'[Driver] = <<R>>
                            \/ ops[Driver] = <<R>> /\ ops'[Driver] = <<>>
    BY <1>0, <1>1, <1>w, <2>1, SourceScript DEF DriverCommand
  <2>3. DriverCommand' /\ AppCommand'
    BY <1>0, <1>1, <2>1, <2>2, DriverHead DEF DriverCommand, AppCommand
  <2>4. LinkRead'
    <3>1. CASE stage # "source"
      BY <1>0, <1>1, <3>1 DEF LinkRead, NotSource, Heard
    <3>2. CASE stage = "source" /\ ops[Driver] = <<P, W, P, R>> /\ ops'[Driver] = <<W, P, R>>
      <4>1. MIIBZY \notin mac[MII_ACC]
        BY <1>0, <1>1, <1>5, <3>2, SourceScript, OpFields DEF LinkRead, Replied
      <4> QED BY <1>0, <1>1, <2>1, <3>2, <4>1, SourceScript DEF LinkRead, Replied
    <3>3. CASE stage = "source" /\ ops[Driver] = <<P, R>> /\ ops'[Driver] = <<R>>
      <4>1. MIIBZY \notin mac[MII_ACC]
        BY <1>0, <1>1, <1>5, <3>3, SourceScript, OpFields DEF LinkRead, Replied
      <4>2. Heard(mac[MII_DATA])
        BY <1>0, <3>3, <4>1 DEF LinkRead, Asked
      <4> QED BY <1>0, <1>1, <2>1, <3>3, <4>1, <4>2, SourceScript DEF LinkRead, Replied, Heard
    <3>4. CASE stage = "source" /\ ops[Driver] = <<R>> /\ ops'[Driver] = <<>>
      <4>1. tmp' = mac[MII_DATA]
        BY <1>0, <1>1, <3>4, SourceScript, OpFields DEF LinkRead, Replied
      <4> QED BY <1>0, <1>1, <2>1, <3>4, <4>1, SourceScript DEF LinkRead, Replied, Heard
    <3> QED BY <2>2, <3>1, <3>2, <3>3, <3>4
  <2> QED BY <1>2, <1>3, <2>3, <2>4 DEF IInv
<1> QED BY <1>4, <1>5

LEMMA DriverWake == IInv /\ Wake(Driver) => IInv'
<1> SUFFICES ASSUME IInv, Wake(Driver) PROVE IInv'
  OBVIOUS
<1> USE DEF chip, phy, filter
<1>0. TypeOK /\ Holder /\ Counted /\ DriverCommand /\ AppCommand /\ Progress /\ LinkRead
  BY DEF IInv
<1>1. /\ pc[Driver] = "sleep" /\ pc'[Driver] = "ready"
      /\ UNCHANGED <<ops, csr_data, csr_cmd, mac, link, source, tmp, stage, hash_lock, mcast_hash_refcount,
                     joined, carrier, clash>>
      /\ \A u \in Apps : pc'[u] = pc[u]
  BY <1>0, DriverIsThread DEF Wake, Goto, TypeOK
<1>2. TypeOK'
  BY <1>0, DriverIsThread DEF Wake, Goto, TypeOK
<1>3. Holder' /\ Counted' /\ Progress'
  BY <1>1, DriverFrame
<1>4. DriverCommand' /\ AppCommand'
  BY <1>0, <1>1 DEF DriverCommand, AppCommand
<1>5. LinkRead'
  BY <1>0, <1>1 DEF LinkRead, NotSource, Heard, Asked, Replied
<1> QED BY <1>2, <1>3, <1>4, <1>5 DEF IInv

\* The thread starts on the next thing to read, or is done.
LEMMA ThreadStage ==
  ASSUME IInv, pc[Driver] \in {"idle", "ready"}, pc'[Driver] \in {"idle", "ready"},
         UNCHANGED <<csr_data, csr_cmd, mac, link, source, tmp, hash_lock, mcast_hash_refcount, joined, clash>>,
         NEW label \in {"idle", "ready"}, pc' = [pc EXCEPT ![Driver] = label],
         NEW script, ops'[Driver] = script, DOMAIN ops' = Threads, \A u \in Apps : ops'[u] = ops[u],
         stage' \in {"idle", "source", "up"}, carrier' \in BOOLEAN,
         label = "idle" <=> stage' = "idle",
         stage' = "idle" => script = <<>>,
         stage' = "source" => script = <<P, W, P, R>>,
         stage' = "up" => script \in Seq(UpOps),
         LinkRead'
  PROVE  IInv'
<1>0. TypeOK /\ Holder /\ Counted /\ DriverCommand /\ AppCommand /\ Progress /\ LinkRead
  BY DEF IInv
<1>1. /\ pc'[Driver] = label /\ ops'[Driver] = script
      /\ \A u \in Apps : pc'[u] = pc[u] /\ ops'[u] = ops[u]
  BY <1>0, DriverIsThread DEF TypeOK
<1>2. TypeOK'
  BY <1>0, DriverIsThread DEF TypeOK
<1>3. Holder' /\ Counted' /\ Progress'
  BY <1>1, DriverFrame
<1>4. DriverCommand' /\ AppCommand'
  BY <1>0, <1>1 DEF DriverCommand, AppCommand
<1> QED BY <1>2, <1>3, <1>4 DEF IInv

LEMMA LinkInterruptKeeps == IInv /\ LinkInterrupt => IInv'
<1> SUFFICES ASSUME IInv, LinkInterrupt PROVE IInv'
  OBVIOUS
<1> USE DEF chip, phy, filter
<1>0. TypeOK /\ DriverCommand /\ LinkRead
  BY DEF IInv
<1>1. /\ pc[Driver] = "idle" /\ source # {} /\ stage = "idle" /\ stage' = "source"
      /\ pc' = [pc EXCEPT ![Driver] = "ready"] /\ ops' = [ops EXCEPT ![Driver] = <<P, W, P, R>>]
      /\ UNCHANGED <<csr_data, csr_cmd, mac, link, source, tmp, hash_lock, mcast_hash_refcount, joined,
                     carrier, clash>>
  BY <1>0 DEF LinkInterrupt, Start, read_phy_reg, P, W, R, DriverCommand
<1>2. /\ pc'[Driver] = "ready" /\ ops'[Driver] = <<P, W, P, R>>
      /\ DOMAIN ops' = Threads /\ \A u \in Apps : ops'[u] = ops[u]
  BY <1>0, <1>1, DriverIsThread DEF TypeOK
<1>3. LinkRead'
  BY <1>0, <1>1, <1>2, SourceScript DEF LinkRead, NotSource, Replied
<1>4. carrier' \in BOOLEAN
  BY <1>0, <1>1 DEF TypeOK
<1> QED BY <1>1, <1>2, <1>3, <1>4, ThreadStage

LEMMA SourceUpKeeps == IInv /\ SourceUp => IInv'
<1> SUFFICES ASSUME IInv, SourceUp PROVE IInv'
  OBVIOUS
<1> USE DEF chip, phy, filter
<1>0. TypeOK /\ DriverCommand /\ LinkRead
  BY DEF IInv
<1>1. PICK script : script = read_phy_reg(PHY_SPECIAL_CONTROL_STATUS) \o read_phy_reg(PHY_SPECIAL_CONTROL_STAT_IND)
  OBVIOUS
<1>2. script \in Seq(UpOps)
  <2>1. read_phy_reg(PHY_SPECIAL_CONTROL_STATUS) \in Seq(UpOps)
    BY DEF read_phy_reg, UpOps, P, R
  <2>2. read_phy_reg(PHY_SPECIAL_CONTROL_STAT_IND) \in Seq(UpOps)
    BY DEF read_phy_reg, UpOps, P, R
  <2> QED BY <1>1, <2>1, <2>2, ConcatProperties
<1>3. /\ pc[Driver] = "ready" /\ stage = "source" /\ stage' = "up" /\ ops[Driver] = <<>>
      /\ pc' = [pc EXCEPT ![Driver] = "ready"] /\ ops' = [ops EXCEPT ![Driver] = script]
      /\ UNCHANGED <<csr_data, csr_cmd, mac, link, source, tmp, hash_lock, mcast_hash_refcount, joined,
                     carrier, clash>>
  BY <1>1 DEF SourceUp, Start
<1>4. /\ pc'[Driver] = "ready" /\ ops'[Driver] = script
      /\ DOMAIN ops' = Threads /\ \A u \in Apps : ops'[u] = ops[u]
  BY <1>0, <1>3, DriverIsThread DEF TypeOK
<1>5. LinkRead'
  BY <1>0, <1>3 DEF LinkRead, NotSource
<1>6. carrier' \in BOOLEAN
  BY <1>0, <1>3 DEF TypeOK
<1> QED BY <1>2, <1>3, <1>4, <1>5, <1>6, ThreadStage

LEMMA ThreadDone == IInv /\ (SourceOther \/ CarrierOn) => IInv'
<1> SUFFICES ASSUME IInv, SourceOther \/ CarrierOn PROVE IInv'
  OBVIOUS
<1> USE DEF chip, phy, filter
<1>0. TypeOK /\ DriverCommand /\ LinkRead
  BY DEF IInv
<1>1. /\ pc[Driver] = "ready" /\ stage' = "idle" /\ ops[Driver] = <<>>
      /\ pc' = [pc EXCEPT ![Driver] = "idle"] /\ ops' = ops
      /\ UNCHANGED <<csr_data, csr_cmd, mac, link, source, tmp, hash_lock, mcast_hash_refcount, joined, clash>>
  BY DEF SourceOther, CarrierOn, Goto
<1>2. ops'[Driver] = <<>> /\ DOMAIN ops' = Threads /\ \A u \in Apps : ops'[u] = ops[u]
  BY <1>0, <1>1 DEF TypeOK
<1>3. pc'[Driver] = "idle"
  BY <1>0, <1>1, DriverIsThread DEF TypeOK
<1>4. LinkRead' /\ carrier' \in BOOLEAN
  <2>1. CASE SourceOther
    <3>1. NotSource /\ (link => LINK_UP \in source)
      BY <1>0, <2>1 DEF SourceOther, LinkRead, NotSource, Heard
    <3> QED BY <1>0, <1>1, <2>1, <3>1 DEF SourceOther, LinkRead, NotSource, Heard
  <2>2. CASE CarrierOn
    BY <1>0, <1>1, <2>2 DEF CarrierOn, LinkRead, NotSource, Heard
  <2> QED BY <2>1, <2>2
<1> QED BY <1>1, <1>2, <1>3, <1>4, ThreadStage

LEMMA DriverKeeps == IInv /\ DriverStep => IInv'
  BY DriverWaitReady, DriverWriteData, DriverWriteCmd, DriverWaitDone, DriverReadData, DriverWake,
     LinkInterruptKeeps, SourceUpKeeps, ThreadDone DEF DriverStep, Access

----------------------------------------------------------------------------
(* The threads in set_config().                                            *)

\* They run while the driver's thread is idle or asleep, between two accesses.
LEMMA AppFrame ==
  ASSUME IInv, ~DriverRuns, pc'[Driver] = pc[Driver], ops'[Driver] = ops[Driver],
         UNCHANGED <<mac, link, source, tmp, stage, carrier>>
  PROVE  DriverCommand' /\ LinkRead'
<1>0. DriverCommand /\ LinkRead /\ pc[Driver] \in {"idle", "sleep"}
  BY DEF IInv, DriverRuns
<1>1. DriverCommand'
  BY <1>0 DEF DriverCommand
<1>2. LinkRead'
  BY <1>0 DEF LinkRead, NotSource, Heard, Asked, Replied
<1> QED BY <1>1, <1>2

\* A thread that is at an access holds hash_lock.
LEMMA HolderOnly ==
  ASSUME IInv, NEW t \in Apps, pc[t] # "idle"
  PROVE  hash_lock = t /\ pc[t] \in {"ready", "data", "cmd", "wait"}
  BY DEF IInv, Holder

\* The next access of the holder, and its end.
LEMMA AppAccessKeeps ==
  ASSUME IInv, NEW t \in Apps, ~DriverRuns, Access(t)
  PROVE  IInv'
<1> USE DEF chip, phy, filter
<1>0. TypeOK /\ Holder /\ Counted /\ DriverCommand /\ AppCommand /\ Progress /\ LinkRead
  BY DEF IInv
<1>1. /\ hash_lock = t /\ hash_lock # None /\ pc[t] \in {"ready", "data", "cmd", "wait"}
      /\ pc[Driver] \in {"idle", "sleep"} /\ t # Driver /\ t \in Threads /\ Driver \in Threads
  <2>1. pc[t] # "idle"
    BY DEF Access, WaitReady, WriteData, WriteCmd, WaitDone, ReadData
  <2> QED BY <1>0, <2>1, HolderOnly, MacAssumption, DriverIsThread DEF DriverRuns, TypeOK
<1>2. /\ UNCHANGED <<mac, link, source, stage, hash_lock, mcast_hash_refcount, joined, carrier, clash, tmp>>
      /\ pc[t] # "read" /\ clash' = clash
  BY <1>0, <1>1 DEF Access, WaitReady, WriteData, WriteCmd, WaitDone, ReadData, Clash, TypeOK
<1>3. Low' = Low /\ High' = High /\ WL' = WL /\ WH' = WH
  BY <1>2, SameWords
<1>4. Counted'
  BY <1>0, <1>2 DEF Counted, At
<1>5. PICK op : op = Head(ops[t])
  OBVIOUS
<1>6. CASE WaitReady(t)
  <2>1. ops[t] # <<>> /\ pc[t] = "ready" /\ UNCHANGED <<ops, csr_data, csr_cmd>> /\ csr_cmd = None
    BY <1>6 DEF WaitReady, Goto
  <2>2. op.read = FALSE
    BY <1>0, <1>1, <1>5, <2>1, AppHead, WordFields
  <2>3. /\ pc'[t] = "data" /\ \A u \in Threads : u # t => pc'[u] = pc[u]
        /\ pc' \in [Threads -> {"idle", "ready", "data", "cmd", "wait", "read", "sleep"}]
    BY <1>0, <1>1, <1>5, <1>6, <2>2 DEF WaitReady, Goto, TypeOK
  <2>4. TypeOK'
    BY <1>0, <1>2, <2>1, <2>3 DEF TypeOK
  <2>5. Holder'
    BY <1>0, <1>1, <1>2, <1>3, <2>1, <2>3, DriverIsThread DEF Holder
  <2>6. AppCommand'
    BY <2>1 DEF AppCommand
  <2>7. Progress'
    BY <1>0, <1>1, <1>2, <1>3, <2>1, <2>3 DEF Progress, Writing
  <2>8. DriverCommand' /\ LinkRead'
    BY <1>1, <1>2, <2>1, <2>3, AppFrame
  <2> QED BY <1>4, <2>4, <2>5, <2>6, <2>7, <2>8 DEF IInv
<1>7. CASE WriteData(t)
  <2>1. pc[t] = "data" /\ UNCHANGED <<ops, csr_cmd>> /\ csr_data' = op.val /\ ops[t] # <<>>
    BY <1>0, <1>1, <1>5, <1>7 DEF WriteData, Goto, Holder
  <2>2. /\ pc'[t] = "cmd" /\ \A u \in Threads : u # t => pc'[u] = pc[u]
        /\ pc' \in [Threads -> {"idle", "ready", "data", "cmd", "wait", "read", "sleep"}]
    BY <1>0, <1>1, <1>7 DEF WriteData, Goto, TypeOK
  <2>3. csr_data' \subseteq 0 .. 31
    BY <1>0, <1>1, <1>5, <2>1, AppHead, WordFields
  <2>4. TypeOK'
    BY <1>0, <1>2, <2>1, <2>2, <2>3 DEF TypeOK
  <2>5. Holder'
    BY <1>0, <1>1, <1>2, <1>3, <2>1, <2>2, DriverIsThread DEF Holder
  <2>6. AppCommand'
    BY <1>0, <1>1, <2>1 DEF AppCommand
  <2>7. Progress'
    BY <1>0, <1>1, <1>2, <1>3, <1>5, <2>1, <2>2, AppHead, WordScript DEF Progress, Writing
  <2>8. DriverCommand' /\ LinkRead'
    BY <1>1, <1>2, <2>1, <2>2, AppFrame
  <2> QED BY <1>4, <2>4, <2>5, <2>6, <2>7, <2>8 DEF IInv
<1>8. CASE WriteCmd(t)
  <2>1. pc[t] = "cmd" /\ UNCHANGED <<ops, csr_data>> /\ csr_cmd' = Command(op) /\ ops[t] # <<>>
    BY <1>0, <1>1, <1>5, <1>8 DEF WriteCmd, Goto, Holder, Command
  <2>2. /\ pc'[t] = "wait" /\ \A u \in Threads : u # t => pc'[u] = pc[u]
        /\ pc' \in [Threads -> {"idle", "ready", "data", "cmd", "wait", "read", "sleep"}]
    BY <1>0, <1>1, <1>8 DEF WriteCmd, Goto, TypeOK
  <2>3. csr_cmd' \in [reg : MacRegs, read : BOOLEAN] /\ csr_cmd' # None
    <3>1. op.reg \in MacRegs /\ op.read \in BOOLEAN
      BY <1>0, <1>1, <1>5, <2>1, AppHead, WordFields, RegNames
    <3> QED BY <2>1, <3>1, NamesAssumption DEF Command
  <2>4. TypeOK'
    BY <1>0, <1>2, <2>1, <2>2, <2>3 DEF TypeOK
  <2>5. Holder'
    BY <1>0, <1>1, <1>2, <1>3, <2>1, <2>2, DriverIsThread DEF Holder
  <2>6. AppCommand'
    BY <1>1, <1>2, <1>5, <2>1, <2>2 DEF AppCommand
  <2>7. Progress'
    BY <1>0, <1>1, <1>2, <1>3, <2>1, <2>2, <2>3 DEF Progress, Writing
  <2>8. DriverCommand' /\ LinkRead'
    BY <1>1, <1>2, <2>1, <2>2, AppFrame
  <2> QED BY <1>4, <2>4, <2>5, <2>6, <2>7, <2>8 DEF IInv
<1>9. CASE WaitDone(t)
  <2>1. pc[t] = "wait" /\ csr_cmd = None /\ UNCHANGED <<csr_data, csr_cmd>> /\ ops[t] # <<>>
    BY <1>0, <1>1, <1>9 DEF WaitDone, Holder
  <2>2. op.read = FALSE
    BY <1>0, <1>1, <1>5, <2>1, AppHead, WordFields
  <2>3. OpDone(t)
    BY <1>5, <1>9, <2>2 DEF WaitDone
  <2>4. /\ pc'[t] = "ready" /\ \A u \in Threads : u # t => pc'[u] = pc[u] /\ ops'[u] = ops[u]
        /\ pc' \in [Threads -> {"idle", "ready", "data", "cmd", "wait", "read", "sleep"}]
        /\ DOMAIN ops' = Threads /\ ops'[t] = Tail(ops[t])
    BY <1>0, <1>1, <2>3 DEF OpDone, TypeOK
  <2>5. TypeOK'
    BY <1>0, <1>2, <2>1, <2>4 DEF TypeOK
  <2>6. Holder'
    <3>1. ops'[t] = <<WH>> \/ ops'[t] = <<>>
      BY <1>0, <1>1, <2>1, <2>4, AppHead
    <3> QED BY <1>0, <1>1, <1>2, <1>3, <2>4, <3>1, DriverIsThread DEF Holder
  <2>7. AppCommand'
    BY <2>1 DEF AppCommand
  <2>8. Progress'
    <3>1. CASE ops[t] = <<WL, WH>> /\ ops'[t] = <<WH>>
      BY <1>0, <1>1, <1>2, <1>3, <2>1, <2>4, <3>1, WordScript, WordFields DEF Progress, Writing
    <3>2. CASE ops[t] = <<WH>> /\ ops'[t] = <<>>
      BY <1>0, <1>1, <1>2, <1>3, <2>1, <2>4, <3>2, WordScript, WordFields DEF Progress, Writing
    <3> QED BY <1>0, <1>1, <2>1, <2>4, <3>1, <3>2, AppHead
  <2>9. DriverCommand' /\ LinkRead'
    BY <1>1, <1>2, <2>4, AppFrame
  <2> QED BY <1>4, <2>5, <2>6, <2>7, <2>8, <2>9 DEF IInv
<1>10. ~ReadData(t)
  BY <1>2 DEF ReadData
<1> QED BY <1>6, <1>7, <1>8, <1>9, <1>10 DEF Access

LEMMA ConfigDoneKeeps ==
  ASSUME IInv, NEW t \in Apps, ~DriverRuns, ConfigDone(t)
  PROVE  IInv'
<1> USE DEF chip, phy, filter
<1>0. TypeOK /\ Holder /\ Counted /\ DriverCommand /\ AppCommand /\ Progress /\ LinkRead
  BY DEF IInv
<1>1. /\ hash_lock = t /\ pc[t] = "ready" /\ ops[t] = <<>> /\ hash_lock' = None
      /\ UNCHANGED <<ops, csr_data, csr_cmd, mac, link, source, tmp, stage, mcast_hash_refcount, joined,
                     carrier, clash>>
  BY HolderOnly DEF ConfigDone, Goto
<1>2. /\ pc'[t] = "idle" /\ \A u \in Threads : u # t => pc'[u] = pc[u]
      /\ pc' \in [Threads -> {"idle", "ready", "data", "cmd", "wait", "read", "sleep"}]
  BY <1>0, DriverIsThread DEF ConfigDone, Goto, TypeOK
<1>3. Low' = Low /\ High' = High /\ WL' = WL /\ WH' = WH
  BY <1>1, SameWords
<1>4. TypeOK'
  BY <1>0, <1>1, <1>2 DEF TypeOK
<1>5. Holder'
  BY <1>0, <1>1, <1>2, <1>3, MacAssumption, DriverIsThread DEF Holder
<1>6. Counted'
  BY <1>0, <1>1 DEF Counted, At
<1>7. csr_cmd = None
  BY <1>0, <1>1 DEF AppCommand, DriverRuns
<1>8. AppCommand'
  BY <1>1, <1>7 DEF AppCommand
<1>9. Progress'
  BY <1>0, <1>1, <1>3, MacAssumption DEF Progress
<1>10. DriverCommand' /\ LinkRead'
  BY <1>1, <1>2, DriverIsThread, AppFrame
<1> QED BY <1>4, <1>5, <1>6, <1>8, <1>9, <1>10 DEF IInv

\* A count goes up with a group that joins, and down with one that leaves; it
\* is one byte, and holds as long as no more than 255 groups exist.
LEMMA CountsFollow ==
  ASSUME TypeOK, Counted, GroupsFit, NEW g \in Groups, NEW set \in BOOLEAN,
         IF set THEN g \notin joined ELSE g \in joined,
         joined' = IF set THEN joined \cup {g} ELSE joined \ {g},
         mcast_hash_refcount' =
           [mcast_hash_refcount EXCEPT ![hash_bit[g]] =
              IF set THEN (mcast_hash_refcount[hash_bit[g]] + 1) % 256
              ELSE IF mcast_hash_refcount[hash_bit[g]] > 0 THEN mcast_hash_refcount[hash_bit[g]] - 1
              ELSE mcast_hash_refcount[hash_bit[g]]],
         NEW b \in 0 .. 63
  PROVE  mcast_hash_refcount'[b] = Cardinality(At(b)')
<1>1. hash_bit[g] \in 0 .. 63 /\ joined \subseteq Groups
  <2>1. joined \subseteq Groups
    BY DEF TypeOK
  <2> QED BY <2>1, HashBitType
<1>2. \A S \in SUBSET Groups : IsFiniteSet(S) /\ Cardinality(S) \in Nat /\ Cardinality(S) <= Cardinality(Groups)
  BY FS_Subset, FS_CardinalityType DEF GroupsFit
<1>3. At(b) \in SUBSET Groups /\ IsFiniteSet(At(b)) /\ Cardinality(At(b)) \in Nat
  BY <1>1, <1>2 DEF At
<1>4. mcast_hash_refcount[b] = Cardinality(At(b))
  BY DEF Counted
<1>5. CASE b # hash_bit[g]
  <2>1. At(b)' = At(b)
    BY <1>5 DEF At
  <2>2. mcast_hash_refcount'[b] = mcast_hash_refcount[b]
    BY <1>1, <1>5 DEF TypeOK
  <2> QED BY <1>4, <2>1, <2>2
<1>6. CASE b = hash_bit[g] /\ set
  <2>1. At(b)' = At(b) \cup {g} /\ g \notin At(b)
    BY <1>6 DEF At
  <2>2. Cardinality(At(b) \cup {g}) = Cardinality(At(b)) + 1
    BY <1>3, <2>1, FS_AddElement
  <2>3. Cardinality(At(b) \cup {g}) <= Cardinality(Groups) /\ Cardinality(Groups) \in Nat
    <3>1. At(b) \cup {g} \in SUBSET Groups /\ Groups \in SUBSET Groups
      BY <1>3
    <3> QED BY <1>2, <3>1
  <2>4. PICK n \in Nat : n = Cardinality(At(b)) /\ n + 1 <= 255
    BY <1>3, <2>2, <2>3 DEF GroupsFit
  <2>5. (n + 1) % 256 = n + 1
    BY <2>4
  <2>6. mcast_hash_refcount'[b] = (n + 1) % 256
    BY <1>4, <1>6, <2>4 DEF TypeOK
  <2> QED BY <2>1, <2>2, <2>4, <2>5, <2>6
<1>7. CASE b = hash_bit[g] /\ ~set
  <2>1. At(b)' = At(b) \ {g} /\ g \in At(b)
    BY <1>7 DEF At
  <2>2. Cardinality(At(b) \ {g}) = Cardinality(At(b)) - 1
    BY <1>3, <2>1, FS_RemoveElement
  <2>3. Cardinality(At(b) \ {g}) \in Nat
    BY <1>2, <1>3
  <2>4. PICK n \in Nat : n = Cardinality(At(b)) /\ n > 0
    BY <1>3, <2>2, <2>3
  <2>5. mcast_hash_refcount'[b] = n - 1
    BY <1>4, <1>7, <2>4 DEF TypeOK
  <2> QED BY <2>1, <2>2, <2>4, <2>5
<1> QED BY <1>5, <1>6, <1>7

LEMMA SetConfigKeeps ==
  ASSUME IInv, NEW t \in Apps, ~DriverRuns, NEW g \in Groups, NEW set \in BOOLEAN,
         IF set THEN g \notin joined ELSE g \in joined,
         set_config(t, g, set)
  PROVE  IInv'
<1> USE DEF chip, phy
<1>0. TypeOK /\ Holder /\ Counted /\ DriverCommand /\ AppCommand /\ Progress /\ LinkRead
  BY DEF IInv
<1>1. /\ pc[t] = "idle" /\ hash_lock = None /\ hash_lock' = t /\ clash' = FALSE
      /\ joined' = IF set THEN joined \cup {g} ELSE joined \ {g}
      /\ UNCHANGED <<csr_data, csr_cmd, mac, link, source, tmp, stage, carrier>>
  BY DEF set_config
<1>2. mcast_hash_refcount' =
        [mcast_hash_refcount EXCEPT ![hash_bit[g]] =
           IF set THEN (mcast_hash_refcount[hash_bit[g]] + 1) % 256
           ELSE IF mcast_hash_refcount[hash_bit[g]] > 0 THEN mcast_hash_refcount[hash_bit[g]] - 1
           ELSE mcast_hash_refcount[hash_bit[g]]]
  BY DEF set_config
<1>3. Start(t, hash_write(mcast_hash_refcount'))
  BY DEF set_config
<1>4. hash_write(mcast_hash_refcount') = <<WL', WH'>>
  BY DEF hash_write, WL, WH, Low, High, Bits
<1>5. /\ ops'[t] = <<WL', WH'>> /\ pc'[t] = "ready" /\ DOMAIN ops' = Threads
      /\ \A u \in Threads : u # t => pc'[u] = pc[u] /\ ops'[u] = ops[u]
      /\ pc' \in [Threads -> {"idle", "ready", "data", "cmd", "wait", "read", "sleep"}]
  BY <1>0, <1>3, <1>4, DriverIsThread DEF Start, TypeOK
<1>6. mcast_hash_refcount' \in [0 .. 63 -> 0 .. 255]
  <2>0. mcast_hash_refcount \in [0 .. 63 -> 0 .. 255]
    BY ONLY <1>0 DEF TypeOK
  <2>a. hash_bit[g] \in 0 .. 63
    BY HashBitType
  <2>b. mcast_hash_refcount[hash_bit[g]] \in 0 .. 255
    BY ONLY <2>0, <2>a
  <2>1. PICK c \in 0 .. 255 : c = mcast_hash_refcount[hash_bit[g]]
    BY ONLY <2>b
  <2>2. PICK e : e = IF set THEN (c + 1) % 256 ELSE IF c > 0 THEN c - 1 ELSE c
    OBVIOUS
  <2>3. e \in 0 .. 255
    BY <2>2
  <2> QED BY ONLY <1>2, <2>0, <2>1, <2>2, <2>3
<1>7. TypeOK'
  <2>1. joined' \subseteq Groups
    BY <1>0, <1>1 DEF TypeOK
  <2> QED BY <1>0, <1>1, <1>5, <1>6, <2>1 DEF TypeOK
<1>8. Holder'
  BY <1>0, <1>1, <1>5, MacAssumption, WordScript, DriverIsThread DEF Holder
<1>9. Counted'
  BY <1>0, <1>1, <1>2, CountsFollow DEF Counted
<1>10. csr_cmd = None
  BY <1>0, <1>1, MacAssumption DEF AppCommand, DriverRuns
<1>11. AppCommand'
  BY <1>1, <1>10 DEF AppCommand
<1>12. DriverCommand' /\ LinkRead'
  BY <1>1, <1>5, DriverIsThread, AppFrame
<1>13. Progress'
  <2>1. pc'[Driver] \in {"idle", "sleep"}
    BY <1>0, <1>5, DriverIsThread DEF DriverRuns, TypeOK
  <2>2. <<WL', WH'>> # <<WH'>> /\ <<WL', WH'>> # <<>>
    BY Scripts
  <2> QED BY <1>1, <1>5, <2>1, <2>2, MacAssumption DEF Progress, Writing
<1> QED BY <1>7, <1>8, <1>9, <1>11, <1>12, <1>13 DEF IInv

----------------------------------------------------------------------------
(* The invariant holds always.                                             *)

LEMMA StepIInv == IInv /\ [Next]_vars => IInv'
<1> SUFFICES ASSUME IInv, [Next]_vars PROVE IInv'
  OBVIOUS
<1>1. CASE CsrExecute \/ PhyExecute \/ LinkChange \/ DriverStep
  BY <1>1, CsrExecuteKeeps, PhyExecuteKeeps, LinkChangeKeeps, DriverKeeps
<1>2. ASSUME NEW t \in Apps, AppStep(t) PROVE IInv'
  BY <1>2, AppAccessKeeps, ConfigDoneKeeps DEF AppStep
<1>3. ASSUME NEW t \in Apps, AppCall(t) PROVE IInv'
  <2>1. ASSUME NEW g \in Groups \ joined, set_config(t, g, TRUE) PROVE IInv'
    BY <1>3, <2>1, SetConfigKeeps DEF AppCall
  <2>2. ASSUME NEW g \in joined, set_config(t, g, FALSE) PROVE IInv'
    <3>1. g \in Groups
      BY DEF IInv, TypeOK
    <3> QED BY <1>3, <2>2, <3>1, SetConfigKeeps DEF AppCall
  <2> QED BY <1>3, <2>1, <2>2 DEF AppCall, Join, Leave
<1>4. CASE UNCHANGED vars
  <2> USE DEF vars, chip, phy, threads, filter
  <2>0. TypeOK /\ Holder /\ Counted /\ DriverCommand /\ AppCommand /\ Progress /\ LinkRead
    BY DEF IInv
  <2>1. Holder' /\ Counted'
    BY <1>4, <2>0, SameThreads
  <2>2. TypeOK'
    BY <1>4, <2>0 DEF TypeOK
  <2>3. DriverCommand' /\ AppCommand'
    BY <1>4, <2>0 DEF DriverCommand, AppCommand
  <2>4. Progress'
    BY <1>4, <2>0, SameWords DEF Progress, Writing
  <2>5. LinkRead'
    BY <1>4, <2>0 DEF LinkRead, NotSource, Heard, Asked, Replied
  <2> QED BY <2>1, <2>2, <2>3, <2>4, <2>5 DEF IInv
<1> QED BY <1>1, <1>2, <1>3, <1>4 DEF Next

LEMMA IInvHolds == Spec => []IInv
  BY InitIInv, StepIInv, PTL DEF Spec

----------------------------------------------------------------------------
(* What follows.                                                           *)

\* The registers keep their 32 bits and the reference counts their byte, and
\* hash_lock is a thread's or free.
THEOREM TypeCorrect == Spec => []TypeOK
<1>1. IInv => TypeOK
  BY DEF IInv
<1> QED BY <1>1, IInvHolds, PTL

\* With no set_config() under way the chip passes exactly the joined groups'
\* bits, unless the driver's thread used the register pair during the last
\* set_config(); up to 255 groups, which is what a count of one byte holds.
THEOREM FilterFollowsGroups ==
  ASSUME IsFiniteSet(Groups), Cardinality(Groups) <= 255
  PROVE  Spec => []FilterMatches
<1>1. IInv => FilterMatches
  <2> SUFFICES ASSUME IInv, hash_lock = None, ~clash
               PROVE  HashBits = {hash_bit[g] : g \in joined}
    BY DEF FilterMatches
  <2>1. mac[HASHL] = Low /\ mac[HASHH] = High
    BY DEF IInv, Progress
  <2>2. HashBits = Bits
    <3>1. {i + 32 : i \in High} = Bits \cap 32 .. 63
      <4>1. \A j \in 32 .. 63 : j - 32 \in 0 .. 31 /\ (j - 32) + 32 = j
        OBVIOUS
      <4>2. ASSUME NEW i \in High PROVE i + 32 \in Bits \cap 32 .. 63
        <5>1. PICK j \in Bits \cap 32 .. 63 : i = j - 32
          BY DEF High
        <5> QED BY <4>1, <5>1
      <4>3. ASSUME NEW j \in Bits \cap 32 .. 63 PROVE \E i \in High : i + 32 = j
        <5>1. j - 32 \in High
          BY <4>1 DEF High
        <5> QED BY <4>1, <5>1
      <4> QED BY <4>2, <4>3
    <3>2. Bits = (Bits \cap 0 .. 31) \cup (Bits \cap 32 .. 63)
      BY DEF Bits
    <3> QED BY <2>1, <3>1, <3>2 DEF HashBits, Low
  <2>3. ASSUME NEW b \in 0 .. 63 PROVE b \in Bits <=> \E g \in joined : hash_bit[g] = b
    <3>1. mcast_hash_refcount[b] = Cardinality(At(b))
      BY DEF IInv, Counted, GroupsFit
    <3>2. IsFiniteSet(At(b))
      <4>1. At(b) \in SUBSET Groups
        BY DEF IInv, TypeOK, At
      <4> QED BY <4>1, FS_Subset
    <3>3. Cardinality(At(b)) \in Nat /\ (Cardinality(At(b)) = 0 <=> At(b) = {})
      BY <3>2, FS_CardinalityType, FS_EmptySet
    <3>4. Cardinality(At(b)) > 0 <=> At(b) # {}
      BY <3>3
    <3>5. At(b) # {} <=> \E g \in joined : hash_bit[g] = b
      BY DEF At
    <3> QED BY <3>1, <3>4, <3>5 DEF Bits
  <2>4. \A g \in joined : hash_bit[g] \in 0 .. 63
    <3>1. joined \subseteq Groups
      BY DEF IInv, TypeOK
    <3> QED BY <3>1, HashBitType
  <2>5. Bits \subseteq 0 .. 63
    BY DEF Bits
  <2> QED BY <2>2, <2>3, <2>4, <2>5
<1> QED BY <1>1, IInvHolds, PTL

\* A link that is up, with its interrupts handled, has its carrier on, however
\* often it went up and down and whatever the other threads did in between.
THEOREM CarrierFollowsLink == Spec => []CarrierWhenUp
<1>1. IInv => CarrierWhenUp
  BY DEF IInv, LinkRead, Heard, CarrierWhenUp
<1> QED BY <1>1, IInvHolds, PTL
============================================================================
