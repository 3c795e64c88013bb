------------------------------- MODULE MacCsr -------------------------------
(***************************************************************************)
(* The LAN9250's MAC registers are reached indirectly, through the pair    *)
(* MAC_CSR_DATA and MAC_CSR_CMD, and its PHY registers through two of      *)
(* those MAC registers (drivers/eth_lan9250/eth_lan9250.c).  Two kinds of  *)
(* threads use the pair: threads that join and leave multicast groups      *)
(* (lan9250_set_config(), under hash_lock) and the driver's own thread,    *)
(* which reads the PHY when the link changes (lan9250_thread()).           *)
(*                                                                         *)
(* A 32-bit register is the set of the bits that are 1.  Every SPI         *)
(* transfer is a step of its own, and succeeds; the chip answers before    *)
(* any timeout.  The driver's thread is cooperative: it preempts the other *)
(* threads anywhere, and they run again when it waits or sleeps.           *)
(***************************************************************************)
EXTENDS Naturals, Sequences, FiniteSets

CONSTANTS
  Apps,         \* threads that join and leave groups
  Groups,       \* multicast addresses
  hash_bit,     \* lan9250_mcast_hash_bit() of each group
  None

ASSUME MacAssumption ==
  /\ hash_bit \in [Groups -> 0 .. 63]
  /\ None \notin Apps

Driver  == "lan9250_thread"
Threads == Apps \cup {Driver}

HASHL    == "HMAC_HASHL"
HASHH    == "HMAC_HASHH"
MII_ACC  == "HMAC_MII_ACC"
MII_DATA == "HMAC_MII_DATA"
MacRegs  == {HASHL, HASHH, MII_ACC, MII_DATA}

ASSUME NamesAssumption ==
  /\ Driver \notin Apps
  /\ None \notin [reg : MacRegs, read : BOOLEAN]

MIIBZY    == 0
LINK_UP   == 9
LINK_DOWN == 4

\* (1 << 11) | (index << 6) for the PHY registers 0x1D, 0x1F and 0x1B.
PHY_INTERRUPT_SOURCE         == {6, 8, 9, 10, 11}
PHY_SPECIAL_CONTROL_STATUS   == {6, 7, 8, 9, 10, 11}
PHY_SPECIAL_CONTROL_STAT_IND == {6, 7, 9, 10, 11}

VARIABLES
  (* the chip *)
  csr_data, csr_cmd,    \* csr_cmd: None, or the command while it is busy
  mac,                  \* the MAC registers
  link, source,         \* the link, and the PHY's latched interrupt source
  (* the threads *)
  ops,                  \* MAC register accesses still to do
  pc,                   \* where in the first of them
  tmp,                  \* what the driver's last PHY read returned
  stage,                \* what lan9250_thread() does after its ops
  (* struct lan9250_runtime and the stack *)
  mcast_hash_refcount,
  hash_lock,
  carrier,
  joined,               \* ghost: the groups the stack has joined
  clash                 \* ghost: the driver's thread wrote CSR registers during a set_config()

chip    == <<csr_data, csr_cmd, mac>>
phy     == <<link, source>>
threads == <<ops, pc, tmp, stage>>
filter  == <<mcast_hash_refcount, hash_lock, joined>>
vars    == <<chip, phy, threads, filter, carrier, clash>>

TypeOK ==
  /\ csr_data \subseteq 0 .. 31 /\ mac \in [MacRegs -> SUBSET (0 .. 31)]
  /\ csr_cmd \in [reg : MacRegs, read : BOOLEAN] \cup {None}
  /\ link \in BOOLEAN /\ source \subseteq {LINK_UP, LINK_DOWN}
  /\ DOMAIN ops = Threads
  /\ pc \in [Threads -> {"idle", "ready", "data", "cmd", "wait", "read", "sleep"}]
  /\ tmp \subseteq 0 .. 31 /\ stage \in {"idle", "source", "up"}
  /\ mcast_hash_refcount \in [0 .. 63 -> 0 .. 255]
  /\ hash_lock \in Apps \cup {None} /\ joined \subseteq Groups
  /\ carrier \in BOOLEAN /\ clash \in BOOLEAN

----------------------------------------------------------------------------
(* The chip (external).                                                    *)

\* A command completes.  Writing HMAC_MII_ACC starts a PHY access.
CsrExecute ==
  /\ csr_cmd # None
  /\ csr_cmd' = None
  /\ IF csr_cmd.read
     THEN csr_data' = mac[csr_cmd.reg] /\ UNCHANGED mac
     ELSE /\ mac' = [mac EXCEPT ![csr_cmd.reg] =
                       IF csr_cmd.reg = MII_ACC THEN csr_data \cup {MIIBZY} ELSE csr_data]
          /\ UNCHANGED csr_data
  /\ UNCHANGED <<phy, threads, filter, carrier, clash>>

\* A PHY access completes.  The interrupt source is cleared by reading it.
PhyExecute ==
  /\ MIIBZY \in mac[MII_ACC]
  /\ LET index == mac[MII_ACC] \ {MIIBZY}
         src   == index = PHY_INTERRUPT_SOURCE
     IN  /\ mac' = [mac EXCEPT ![MII_ACC] = index, ![MII_DATA] = IF src THEN source ELSE {}]
         /\ source' = IF src THEN {} ELSE source
  /\ UNCHANGED <<csr_data, csr_cmd, link, threads, filter, carrier, clash>>

LinkChange ==
  /\ link' = ~link
  /\ source' = source \cup {IF link THEN LINK_DOWN ELSE LINK_UP}
  /\ UNCHANGED <<chip, threads, filter, carrier, clash>>

----------------------------------------------------------------------------
(* lan9250_read_mac_reg(), lan9250_write_mac_reg(): one transfer a step.   *)

Read(reg)     == [reg |-> reg, read |-> TRUE, poll |-> FALSE, val |-> {}]
Poll(reg)     == [reg |-> reg, read |-> TRUE, poll |-> TRUE, val |-> {}]
Write(reg, v) == [reg |-> reg, read |-> FALSE, poll |-> FALSE, val |-> v]

\* lan9250_read_phy_reg(); a Poll is lan9250_wait_mac_ready().
read_phy_reg(index) ==
  <<Poll(MII_ACC), Write(MII_ACC, index), Poll(MII_ACC), Read(MII_DATA)>>

Start(t, seq) == ops' = [ops EXCEPT ![t] = seq] /\ pc' = [pc EXCEPT ![t] = "ready"]

Goto(t, label) == pc' = [pc EXCEPT ![t] = label] /\ UNCHANGED ops

OpDone(t) ==
  /\ ops' = [ops EXCEPT ![t] = Tail(@)]
  /\ pc' = [pc EXCEPT ![t] = "ready"]

\* lan9250_wait_ready() on the busy bit, before the command.
WaitReady(t) ==
  /\ pc[t] = "ready" /\ ops[t] # <<>> /\ csr_cmd = None
  /\ Goto(t, IF Head(ops[t]).read THEN "cmd" ELSE "data")
  /\ UNCHANGED <<chip, phy, tmp, stage, filter, carrier, clash>>

Clash(t) == clash' = (clash \/ (t = Driver /\ hash_lock # None))

WriteData(t) ==
  /\ pc[t] = "data"
  /\ csr_data' = Head(ops[t]).val
  /\ Goto(t, "cmd")
  /\ Clash(t)
  /\ UNCHANGED <<csr_cmd, mac, phy, tmp, stage, filter, carrier>>

WriteCmd(t) ==
  /\ pc[t] = "cmd"
  /\ csr_cmd' = [reg |-> Head(ops[t]).reg, read |-> Head(ops[t]).read]
  /\ Goto(t, "wait")
  /\ Clash(t)
  /\ UNCHANGED <<csr_data, mac, phy, tmp, stage, filter, carrier>>

\* lan9250_wait_ready() again, until the command is done.
WaitDone(t) ==
  /\ pc[t] = "wait" /\ csr_cmd = None
  /\ IF Head(ops[t]).read THEN Goto(t, "read") ELSE OpDone(t)
  /\ UNCHANGED <<chip, phy, tmp, stage, filter, carrier, clash>>

\* A poll that finds the PHY busy sleeps for a millisecond and reads again.
ReadData(t) ==
  /\ pc[t] = "read"
  /\ IF Head(ops[t]).poll /\ MIIBZY \in csr_data THEN Goto(t, "sleep") ELSE OpDone(t)
  /\ tmp' = IF t = Driver /\ ~Head(ops[t]).poll THEN csr_data ELSE tmp
  /\ UNCHANGED <<chip, phy, stage, filter, carrier, clash>>

Wake(t) ==
  /\ pc[t] = "sleep"
  /\ Goto(t, "ready")
  /\ UNCHANGED <<chip, phy, tmp, stage, filter, carrier, clash>>

----------------------------------------------------------------------------
(* lan9250_set_config(ETHERNET_CONFIG_TYPE_FILTER).                        *)

\* Mutant: the bit number is not reduced for the upper word.
hash_writeWide(count) ==
  LET b == {i \in 0 .. 63 : count[i] > 0}
  IN  <<Write(HASHL, b \cap 0 .. 31), Write(HASHH, b \cap 32 .. 63)>>

\* lan9250_mcast_hash_write(): both words, from all the reference counts.
hash_write(count) ==
  LET b == {i \in 0 .. 63 : count[i] > 0}
  IN  <<Write(HASHL, b \cap 0 .. 31), Write(HASHH, {i - 32 : i \in b \cap 32 .. 63})>>

\* Mutant: hash_lock is not waited for.
set_configNoLock(t, g, set) ==
  /\ pc[t] = "idle"
  /\ LET bit == hash_bit[g]
         count == [mcast_hash_refcount EXCEPT ![bit] =
                     IF set THEN (@ + 1) % 256 ELSE IF @ > 0 THEN @ - 1 ELSE @]
     IN  mcast_hash_refcount' = count /\ Start(t, hash_write(count))
  /\ hash_lock' = t
  /\ joined' = IF set THEN joined \cup {g} ELSE joined \ {g}
  /\ clash' = FALSE
  /\ UNCHANGED <<chip, phy, tmp, stage, carrier>>

set_config(t, g, set) ==
  /\ pc[t] = "idle" /\ hash_lock = None
  /\ hash_lock' = t
  /\ LET bit == hash_bit[g]
         count == [mcast_hash_refcount EXCEPT ![bit] =
                     IF set THEN (@ + 1) % 256 ELSE IF @ > 0 THEN @ - 1 ELSE @]
     IN  mcast_hash_refcount' = count /\ Start(t, hash_write(count))
  /\ joined' = IF set THEN joined \cup {g} ELSE joined \ {g}
  /\ clash' = FALSE
  /\ UNCHANGED <<chip, phy, tmp, stage, carrier>>

\* The stack tells the driver of the first join and the last leave of a group.
Join(t)  == \E g \in Groups \ joined : set_config(t, g, TRUE)
Leave(t) == \E g \in joined : set_config(t, g, FALSE)

ConfigDone(t) ==
  /\ pc[t] = "ready" /\ ops[t] = <<>>
  /\ hash_lock' = None
  /\ Goto(t, "idle")
  /\ UNCHANGED <<chip, phy, tmp, stage, mcast_hash_refcount, joined, carrier, clash>>

----------------------------------------------------------------------------
(* lan9250_thread(): the link interrupt.                                   *)

LinkInterrupt ==
  /\ pc[Driver] = "idle" /\ source # {}
  /\ stage' = "source"
  /\ Start(Driver, read_phy_reg(PHY_INTERRUPT_SOURCE))
  /\ UNCHANGED <<chip, phy, tmp, filter, carrier, clash>>

\* Mutant: LINK_DOWN is tested first.
SourceUpLast ==
  /\ stage = "source" /\ pc[Driver] = "ready" /\ ops[Driver] = <<>>
  /\ LINK_UP \in tmp
  /\ stage' = IF LINK_DOWN \in tmp THEN "idle" ELSE "up"
  /\ carrier' = (carrier /\ LINK_DOWN \notin tmp)
  /\ IF LINK_DOWN \in tmp THEN Goto(Driver, "idle")
     ELSE Start(Driver, read_phy_reg(PHY_SPECIAL_CONTROL_STATUS)
                          \o read_phy_reg(PHY_SPECIAL_CONTROL_STAT_IND))
  /\ UNCHANGED <<chip, phy, tmp, filter, clash>>

\* Link up: two registers are read for the log, then the carrier is on.
SourceUp ==
  /\ stage = "source" /\ pc[Driver] = "ready" /\ ops[Driver] = <<>>
  /\ LINK_UP \in tmp
  /\ stage' = "up"
  /\ Start(Driver, read_phy_reg(PHY_SPECIAL_CONTROL_STATUS)
                     \o read_phy_reg(PHY_SPECIAL_CONTROL_STAT_IND))
  /\ UNCHANGED <<chip, phy, tmp, filter, carrier, clash>>

SourceOther ==
  /\ stage = "source" /\ pc[Driver] = "ready" /\ ops[Driver] = <<>>
  /\ LINK_UP \notin tmp
  /\ carrier' = (carrier /\ LINK_DOWN \notin tmp)
  /\ stage' = "idle"
  /\ Goto(Driver, "idle")
  /\ UNCHANGED <<chip, phy, tmp, filter, clash>>

CarrierOn ==
  /\ stage = "up" /\ pc[Driver] = "ready" /\ ops[Driver] = <<>>
  /\ carrier' = TRUE
  /\ stage' = "idle"
  /\ Goto(Driver, "idle")
  /\ UNCHANGED <<chip, phy, tmp, filter, clash>>

----------------------------------------------------------------------------
Init ==
  /\ csr_data = {} /\ csr_cmd = None /\ mac = [r \in MacRegs |-> {}]
  /\ link = FALSE /\ source = {}
  /\ ops = [t \in Threads |-> <<>>] /\ pc = [t \in Threads |-> "idle"]
  /\ tmp = {} /\ stage = "idle"
  /\ mcast_hash_refcount = [b \in 0 .. 63 |-> 0]
  /\ hash_lock = None /\ joined = {} /\ carrier = FALSE /\ clash = FALSE

Access(t)  == WaitReady(t) \/ WriteData(t) \/ WriteCmd(t) \/ WaitDone(t) \/ ReadData(t)
\* K_PRIO_COOP, against the preemptible threads of main() and the shells.
DriverRuns == pc[Driver] \notin {"idle", "sleep"}
AppStep(t) == ~DriverRuns /\ (Access(t) \/ ConfigDone(t))
AppCall(t) == ~DriverRuns /\ (Join(t) \/ Leave(t))
DriverStep == Access(Driver) \/ Wake(Driver) \/ LinkInterrupt \/ SourceUp \/ SourceOther \/ CarrierOn

Next == \/ CsrExecute \/ PhyExecute \/ LinkChange \/ DriverStep
        \/ \E t \in Apps : AppCall(t) \/ AppStep(t)

Spec == Init /\ [][Next]_vars

----------------------------------------------------------------------------
(* Properties.                                                             *)

\* The hash filter of the chip: the bits of both words.
HashBits == mac[HASHL] \cup {i + 32 : i \in mac[HASHH]}

\* With no set_config() under way the chip's filter is the set of the bits of
\* the joined groups: a bit two groups share stays until the last one leaves,
\* and "multicast frames [are rejected] unless their destination hashes to a
\* bit this interface has actually asked for".  The exception is a set_config()
\* during which the driver's thread used the register pair, which hash_lock does
\* not cover; the next set_config() left alone repairs what that one did.
FilterMatches == hash_lock = None /\ ~clash => HashBits = {hash_bit[g] : g \in joined}

\* A link that is up, with every link interrupt handled, has its carrier on:
\* lan9250_thread() tests LINK_UP first, so a link that went down and came
\* back before the source was read is not left without carrier.  (One that
\* came up and went down again before the source was read keeps its carrier.)
CarrierWhenUp == link /\ source = {} /\ stage = "idle" => carrier
=============================================================================
