-------------------------- MODULE NetBringupProofs --------------------------
(***************************************************************************)
(* The mDNS group is reported over the link the board has, for every       *)
(* number of pending events, references and faults.                        *)
(***************************************************************************)
EXTENDS NetBringup, TLAPS

\* The handlers run, and the DHCP client is started, after main() registered.
Registered == dhcp # "off" \/ mgmt # "idle" => main # "start"

\* A group that is joined is counted; drained, the mDNS group is neither.
Counted == /\ \A g \in Groups : joined[g] => ref[g] > 0
           /\ mgmt = "join" => ~joined[mdns] \/ undrained

\* A board with a link and an address whose mDNS group is marked joined
\* without a report over this link has a link change to read, an event to
\* handle or is handling one, unless one of the excuses holds.
Owed == link /\ dhcp = "bound" /\ joined[mdns] /\ snoop[mdns] = "none"
          => \/ "LINK_UP" \in source \/ events # <<>> \/ mgmt \in {"restart", "drain"}
             \/ undrained \/ missed

IInv == TypeOK /\ Registered /\ Counted /\ Owed

LEMMA InitHolds == Init => IInv
<1> SUFFICES ASSUME Init PROVE IInv
  OBVIOUS
<1>1. joined \in [Groups -> BOOLEAN]
  BY DEF Init
<1>2. ref \in [Groups -> Nat] /\ snoop \in [Groups -> {"none", "live", "aged"}] /\ faults \in 0 .. MaxFaults
  BY BringupAssumption DEF Init
<1>3. \A g \in Groups : joined[g] => g = mdns /\ ref[g] > 0
  <2> SUFFICES ASSUME NEW g \in Groups, joined[g] PROVE g = mdns /\ ref[g] > 0
    OBVIOUS
  <2>1. g = mdns
    BY Zenon DEF Init
  <2> QED  BY <2>1 DEF Init
<1>4. events \in Seq({"IF_UP", "ADDR_ADD"}) /\ Len(events) <= MaxEvents
  BY BringupAssumption DEF Init
<1> QED
  BY <1>1, <1>2, <1>3, <1>4 DEF Init, IInv, TypeOK, Registered, Counted, Owed

\* The join as seen from the mDNS group: whichever way it ends, the group was
\* joined before, is reported now if there is a link, or is not joined.
LEMMA JoinEffect ==
  ASSUME TypeOK, Counted, net_ipv4_igmp_join(mdns)
  PROVE  /\ ref' \in [Groups -> Nat] /\ joined' \in [Groups -> BOOLEAN]
         /\ snoop' \in [Groups -> {"none", "live", "aged"}] /\ faults' \in 0 .. MaxFaults
         /\ \A g \in Groups : joined'[g] => ref'[g] > 0
         /\ link /\ joined'[mdns] => snoop'[mdns] = "live" \/ (joined[mdns] /\ snoop' = snoop)
<1>1. mdns \in Groups
  BY DEF Groups
<1>2. ref' \in [Groups -> Nat] /\ ref'[mdns] > 0 /\ \A g \in Groups : g # mdns => ref'[g] = ref[g]
  BY <1>1 DEF TypeOK, net_ipv4_igmp_join
<1>3. joined' \in [Groups -> BOOLEAN] /\ \A g \in Groups : g # mdns => joined'[g] = joined[g]
  BY <1>1 DEF TypeOK, net_ipv4_igmp_join
<1>4. snoop' \in [Groups -> {"none", "live", "aged"}] /\ faults' \in 0 .. MaxFaults
  BY BringupAssumption DEF TypeOK, net_ipv4_igmp_join, Report
<1>5. \A g \in Groups : joined'[g] => ref'[g] > 0
  BY <1>2, <1>3 DEF Counted
<1>6. link /\ joined'[mdns] => snoop'[mdns] = "live" \/ (joined[mdns] /\ snoop' = snoop)
  BY <1>1 DEF TypeOK, net_ipv4_igmp_join, Report
<1> QED  BY <1>2, <1>3, <1>4, <1>5, <1>6

LEMMA LeaveEffect ==
  ASSUME TypeOK, Counted, ref[mdns] > 0, net_ipv4_igmp_leave(mdns)
  PROVE  /\ ref' \in [Groups -> Nat] /\ joined' \in [Groups -> BOOLEAN]
         /\ snoop' \in [Groups -> {"none", "live", "aged"}] /\ faults' \in 0 .. MaxFaults
         /\ \A g \in Groups : joined'[g] => ref'[g] > 0
<1>1. mdns \in Groups
  BY DEF Groups
<1>2. ref' \in [Groups -> Nat] /\ ref'[mdns] = ref[mdns] - 1
      /\ \A g \in Groups : g # mdns => ref'[g] = ref[g]
  BY <1>1 DEF TypeOK, net_ipv4_igmp_leave
<1>3. joined' \in [Groups -> BOOLEAN] /\ \A g \in Groups : g # mdns => joined'[g] = joined[g]
  BY <1>1 DEF TypeOK, net_ipv4_igmp_leave
<1>4. joined'[mdns] => ref[mdns] > 1
  BY <1>1, Zenon DEF TypeOK, net_ipv4_igmp_leave
<1>5. snoop' \in [Groups -> {"none", "live", "aged"}] /\ faults' \in 0 .. MaxFaults
  BY <1>1 DEF TypeOK, net_ipv4_igmp_leave
<1>6. ref[mdns] \in Nat
  BY <1>1 DEF TypeOK
<1>7. \A g \in Groups : joined'[g] => ref'[g] > 0
  BY <1>2, <1>3, <1>4, <1>6 DEF Counted
<1> QED  BY <1>2, <1>3, <1>5, <1>7

LEMMA StepHolds == IInv /\ [Next]_vars => IInv'
<1> SUFFICES ASSUME IInv, [Next]_vars PROVE IInv'
  OBVIOUS
<1> USE BringupAssumption DEF IInv, TypeOK, Registered, Counted, Owed, Groups
<1>1. CASE LinkUp
  BY <1>1 DEF LinkUp, zephyr
<1>0. CASE lan9250_thread
  <2>1. UNCHANGED <<link, main, mgmt, dhcp, multicast_refresh, undrained, ref, joined, snoop, faults>>
        /\ source' = {}
    BY <1>0 DEF lan9250_thread, zephyr
  <2>2. /\ carrier' \in BOOLEAN /\ missed' \in BOOLEAN
        /\ \/ UNCHANGED <<events, missed>> /\ "LINK_UP" \notin source
           \/ UNCHANGED events /\ missed'
           \/ Len(events) < MaxEvents /\ events' = Append(events, "IF_UP")
    BY <1>0 DEF lan9250_thread, carrier_on, carrier_off
  <2>3. events' \in Seq({"IF_UP", "ADDR_ADD"}) /\ Len(events') <= MaxEvents
        /\ (events' = events \/ events' # <<>>)
    <3>1. events \in Seq({"IF_UP", "ADDR_ADD"}) /\ Len(events) <= MaxEvents /\ MaxEvents \in Nat
      OBVIOUS
    <3>2. CASE events' = events
      BY ONLY <3>1, <3>2
    <3>3. CASE Len(events) < MaxEvents /\ events' = Append(events, "IF_UP")
      BY ONLY <3>1, <3>3
    <3> QED  BY ONLY <2>2, <3>2, <3>3
  <2>4. TypeOK'
    BY <2>1, <2>2, <2>3
  <2>5. (Registered /\ Counted)'
    BY <2>1
  <2>6. Owed'
    BY <2>1, <2>2, <2>3
  <2> QED  BY <2>4, <2>5, <2>6
<1>2. CASE LinkDown
  <2>1. snoop' \in [Groups -> {"none", "live", "aged"}] /\ dhcp' \in {"off", "discover", "bound", "stuck"}
        /\ (dhcp' # "off" => dhcp # "off")
    BY <1>2 DEF LinkDown
  <2>2. UNCHANGED <<carrier, missed, events, main, mgmt, multicast_refresh, undrained, ref, joined, faults>>
        /\ link' = FALSE /\ source' \subseteq {"LINK_UP", "LINK_DOWN"}
    BY <1>2 DEF LinkDown
  <2>3. TypeOK'
    BY <2>1, <2>2
  <2> QED  BY <2>1, <2>2, <2>3
<1>3. CASE Bind
  BY <1>3 DEF Bind, zephyr, phy
<1>4. CASE PtpJoin
  BY <1>4 DEF PtpJoin, Report, phy
<1>5. ASSUME NEW g \in Groups, AgeOut(g) PROVE IInv'
  BY <1>5 DEF AgeOut, phy
<1>6. CASE Register
  BY <1>6 DEF Register, zephyr, phy
<1>7. CASE start_dhcpv4_client
  BY <1>7 DEF start_dhcpv4_client, dhcpv4_started, zephyr, phy
<1>8. CASE Deliver
  <2>1. /\ events # <<>> /\ events' = Tail(events)
        /\ UNCHANGED <<link, source, carrier, missed, undrained, main, dhcp, multicast_refresh>>
    BY <1>8 DEF Deliver, phy
  <2>2. events' \in Seq({"IF_UP", "ADDR_ADD"}) /\ Len(events') <= MaxEvents
    BY <2>1
  <2>3. CASE Head(events) = "IF_UP"
    <3>1. net_ipv4_igmp_join(mdns)
      BY <1>8, <2>3 DEF Deliver
    <3>2. mgmt = "idle" /\ mgmt' = IF main = "start" THEN "idle" ELSE "restart"
      BY <1>8, <2>3 DEF Deliver
    <3> QED  BY <2>1, <2>2, <3>1, <3>2, JoinEffect
  <2>4. CASE Head(events) = "ADDR_ADD"
    <3>1. UNCHANGED <<ref, joined, snoop, faults>>
      BY <1>8, <2>4 DEF Deliver, zephyr
    <3>2. mgmt = "idle" /\ mgmt' = IF main = "start" THEN "idle" ELSE "drain"
      BY <1>8, <2>4 DEF Deliver
    <3> QED  BY <2>1, <2>2, <3>1, <3>2
  <2> QED  BY <1>8, <2>3, <2>4 DEF Deliver
<1>9. CASE restart
  BY <1>9 DEF restart, dhcpv4_started, dhcpv4_stopped, zephyr, phy
<1>10. CASE drain
  <2>1. CASE ref[mdns] > 0 /\ net_ipv4_igmp_leave(mdns) /\ mgmt' = "drain"
    BY <1>10, <2>1, LeaveEffect DEF drain, phy
  <2>2. CASE ref[mdns] = 0 /\ mgmt' = "join" /\ undrained' = FALSE /\ UNCHANGED zephyr
    <3>1. undrained' = FALSE /\ UNCHANGED <<phy, events, main, dhcp, multicast_refresh>>
      BY <1>10, <2>2 DEF drain
    <3>2. ~joined[mdns]
      BY <2>2
    <3>3. UNCHANGED <<ref, joined, snoop, faults, link, source, carrier, missed>>
      BY <2>2, <3>1 DEF zephyr, phy
    <3>4. TypeOK'
      BY <2>2, <3>1, <3>3
    <3>5. (Registered /\ Counted /\ Owed)'
      BY <1>10, <2>2, <3>1, <3>2, <3>3 DEF drain
    <3> QED  BY <3>4, <3>5
  <2>3. CASE /\ mgmt' = "join" /\ undrained' = joined'[mdns]
             /\ faults < MaxFaults /\ faults' = faults + 1 /\ UNCHANGED snoop
             /\ \/ UNCHANGED <<ref, joined>>
                \/ ref' = [ref EXCEPT ![mdns] = 0] /\ joined' = [joined EXCEPT ![mdns] = FALSE]
    <3>1. joined' \in [Groups -> BOOLEAN] /\ \A g \in Groups : joined'[g] => joined[g] /\ ref'[g] = ref[g]
      BY <2>3
    <3> QED  BY <1>10, <2>3, <3>1 DEF drain, phy
  <2> QED  BY <1>10, <2>1, <2>2, <2>3 DEF drain
<1>11. CASE rejoin
  BY <1>11, JoinEffect DEF rejoin, phy
<1>12. CASE multicast_membership_refresh_start
  BY <1>12 DEF multicast_membership_refresh_start, zephyr, phy
<1>13. CASE refresh_handler
  BY <1>13 DEF refresh_handler, Report, phy
<1>14. CASE UNCHANGED vars
  BY <1>14 DEF vars, zephyr, phy
<1> QED
  BY <1>0, <1>1, <1>2, <1>3, <1>4, <1>5, <1>6, <1>7, <1>8, <1>9, <1>10, <1>11, <1>12, <1>13, <1>14
  DEF Next, Main, Mgmt

\* When the board has settled, the mDNS group has been reported over the link
\* it has, unless the forced rejoin failed or the link came back unseen:
\* force_multicast_rejoin() drains what Zephyr counted before, and handler()
\* and main() start the DHCP client so that no carrier comes on without it
\* being called.
THEOREM RejoinAlwaysReports == Spec => []RejoinReports
<1>1. IInv => RejoinReports
  BY DEF IInv, Owed, RejoinReports, Settled
<1> QED  BY InitHolds, StepHolds, <1>1, PTL DEF Spec
=============================================================================
