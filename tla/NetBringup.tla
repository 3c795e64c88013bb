----------------------------- MODULE NetBringup -----------------------------
(***************************************************************************)
(* From power-on to a reachable board: main()'s network start-up and its   *)
(* network event handler (src/main.c), the forced multicast rejoin and the *)
(* periodic membership refresh (src/eth_id.c, src/mdns_service.c), against *)
(* Zephyr's multicast bookkeeping and DHCP client and an IGMP-snooping     *)
(* switch without a querier, as the comments in those files describe them. *)
(*                                                                         *)
(* Five actors interleave with the link going up and down: the driver's    *)
(* thread, which tells Zephyr of the carrier, main(), the network          *)
(* management thread that delivers the events, the DHCP client and the     *)
(* system work queue that runs the refresh.                                *)
(***************************************************************************)
EXTENDS Naturals, Sequences

CONSTANTS
  mdns, ptp,      \* 224.0.0.251 and 224.0.1.129
  MaxEvents,      \* pending network events
  MaxRefs,        \* joins of a group not yet drained
  MaxFaults       \* reports and leaves that cannot be sent

Groups == {mdns, ptp}

ASSUME BringupAssumption == mdns # ptp /\ {MaxEvents, MaxRefs, MaxFaults} \subseteq Nat

VARIABLES
  link,           \* the PHY has negotiated a link
  source,         \* PHY_INTERRUPT_SOURCE: the link changes latched since it was read
  carrier,        \* the interface's carrier
  events,         \* network events not yet delivered
  main,           \* where main() is
  mgmt,           \* where the network management thread is
  dhcp,           \* the DHCP client: "off", "discover", "bound", or "stuck" without an address
  ref, joined,    \* Zephyr's multicast entries: reference count and is_joined
  multicast_refresh, \* its work item: "NULL", "scheduled", or "done"
  snoop,          \* the switch's entry: "none" since the link came up, "live", "aged"
  missed,         \* ghost: the link came up again with no IF_UP
  undrained,      \* ghost: leaving failed, the group is still joined
  faults

phy    == <<link, source, carrier, missed>>
zephyr == <<ref, joined, snoop, faults>>
vars   == <<phy, events, main, mgmt, dhcp, multicast_refresh, undrained, zephyr>>

TypeOK ==
  /\ link \in BOOLEAN /\ source \subseteq {"LINK_UP", "LINK_DOWN"} /\ carrier \in BOOLEAN
  /\ events \in Seq({"IF_UP", "ADDR_ADD"}) /\ Len(events) <= MaxEvents
  /\ main \in {"start", "dhcp", "up"}
  /\ mgmt \in {"idle", "restart", "drain", "join", "refresh"}
  /\ dhcp \in {"off", "discover", "bound", "stuck"}
  /\ ref \in [Groups -> Nat] /\ joined \in [Groups -> BOOLEAN]
  /\ multicast_refresh \in {"NULL", "scheduled", "done"}
  /\ snoop \in [Groups -> {"none", "live", "aged"}]
  /\ missed \in BOOLEAN /\ undrained \in BOOLEAN
  /\ faults \in 0 .. MaxFaults

----------------------------------------------------------------------------
(* Zephyr and the switch (external).                                       *)

\* lan9250_tx() succeeds without a link, and the report is gone.
Report(S) ==
  snoop' = [g \in Groups |-> IF link /\ g \in S THEN "live" ELSE snoop[g]]

\* net_ipv4_igmp_join(): counts always, reports unless the group is joined; if
\* the report cannot be sent the group is not joined.
net_ipv4_igmp_join(g) ==
  /\ ref' = [ref EXCEPT ![g] = @ + 1]
  /\ \/ joined[g] /\ UNCHANGED <<joined, snoop, faults>>
     \/ /\ ~joined[g]
        /\ joined' = [joined EXCEPT ![g] = TRUE]
        /\ Report({g})
        /\ UNCHANGED faults
     \/ /\ ~joined[g] /\ faults < MaxFaults
        /\ faults' = faults + 1
        /\ UNCHANGED <<joined, snoop>>

\* net_ipv4_igmp_leave(): the entry goes with its last reference.
net_ipv4_igmp_leave(g) ==
  /\ ref' = [ref EXCEPT ![g] = @ - 1]
  /\ joined' = [joined EXCEPT ![g] = @ /\ ref[g] > 1]
  /\ snoop' = [snoop EXCEPT ![g] = IF ref[g] = 1 /\ link THEN "none" ELSE @]
  /\ UNCHANGED faults

\* net_dhcpv4_start() does nothing for a client that is running,
\* net_dhcpv4_stop() for one that is not.
dhcpv4_started(c) == IF c = "off" THEN "discover" ELSE c
dhcpv4_stopped(c) == "off"

\* The link comes up.
LinkUp ==
  /\ ~link /\ ref[mdns] + Len(events) + (IF "LINK_UP" \in source THEN 1 ELSE 0) < MaxRefs
  /\ link' = TRUE
  /\ source' = source \cup {"LINK_UP"}
  /\ UNCHANGED <<carrier, missed, events, main, mgmt, dhcp, multicast_refresh, undrained, zephyr>>

\* The link is lost, the switch forgets the port, and the DHCP client may be
\* left without an address and without a way on.
LinkDown ==
  /\ link
  /\ link' = FALSE
  /\ source' = source \cup {"LINK_DOWN"}
  /\ snoop' = [g \in Groups |-> "none"]
  /\ dhcp' \in IF dhcp = "off" THEN {"off"} ELSE {dhcp, "stuck"}
  /\ UNCHANGED <<carrier, missed, events, main, mgmt, multicast_refresh, undrained, ref, joined, faults>>

\* The DHCP exchange completes.
Bind ==
  /\ link /\ dhcp = "discover" /\ Len(events) < MaxEvents
  /\ dhcp' = "bound"
  /\ events' = Append(events, "ADDR_ADD")
  /\ UNCHANGED <<phy, undrained, main, mgmt, multicast_refresh, zephyr>>

\* The PTP transport joins its group once the link is up.
PtpJoin ==
  /\ link /\ ref[ptp] = 0
  /\ ref' = [ref EXCEPT ![ptp] = 1]
  /\ joined' = [joined EXCEPT ![ptp] = TRUE]
  /\ Report({ptp})
  /\ UNCHANGED <<phy, undrained, events, main, mgmt, dhcp, multicast_refresh, faults>>

\* A switch without a querier drops an entry nothing has refreshed.
AgeOut(g) ==
  /\ snoop[g] = "live"
  /\ snoop' = [snoop EXCEPT ![g] = "aged"]
  /\ UNCHANGED <<phy, undrained, events, main, mgmt, dhcp, multicast_refresh, ref, joined, faults>>

\* net_mgmt: the next event goes to its handlers in turn.  The mDNS responder's
\* handler joins again on IF_UP; the application's is called once main() has
\* registered it.
Deliver ==
  /\ mgmt = "idle" /\ events # <<>>
  /\ events' = Tail(events)
  /\ \/ Head(events) = "IF_UP" /\ net_ipv4_igmp_join(mdns)
     \/ Head(events) = "ADDR_ADD" /\ UNCHANGED zephyr
  /\ mgmt' = IF main = "start" THEN "idle"
             ELSE IF Head(events) = "IF_UP" THEN "restart" ELSE "drain"
  /\ UNCHANGED <<phy, undrained, main, dhcp, multicast_refresh>>

----------------------------------------------------------------------------
(* lan9250_thread() in drivers/eth_lan9250/eth_lan9250.c.                  *)

\* net_eth_carrier_on() raises IF_UP if the carrier was off.
carrier_on ==
  /\ carrier' = TRUE
  /\ IF carrier THEN missed' = TRUE /\ UNCHANGED events
     ELSE missed' = FALSE /\ Len(events) < MaxEvents /\ events' = Append(events, "IF_UP")

carrier_off == carrier' = FALSE /\ UNCHANGED <<missed, events>>

\* The latched changes are read and cleared, an up before a down: a link that
\* went down and up since the last read only has its carrier switched on again.
lan9250_thread ==
  /\ source # {}
  /\ source' = {}
  /\ IF "LINK_UP" \in source THEN carrier_on ELSE carrier_off
  /\ UNCHANGED <<link, main, mgmt, dhcp, multicast_refresh, undrained, zephyr>>

----------------------------------------------------------------------------
(* src/main.c.                                                             *)

\* main() registers handler() for IF_UP and ADDR_ADD ...
Register ==
  /\ main = "start"
  /\ main' = "dhcp"
  /\ UNCHANGED <<phy, undrained, events, mgmt, dhcp, multicast_refresh, zephyr>>

\* ... and then starts the client on the interface.
start_dhcpv4_client ==
  /\ main = "dhcp"
  /\ main' = "up"
  /\ dhcp' = dhcpv4_started(dhcp)
  /\ UNCHANGED <<phy, undrained, events, mgmt, multicast_refresh, zephyr>>

\* Mutant: the client is started without stopping it first.
restartNoStop ==
  /\ mgmt = "restart"
  /\ mgmt' = "idle"
  /\ dhcp' = dhcpv4_started(dhcp)
  /\ UNCHANGED <<phy, undrained, events, main, multicast_refresh, zephyr>>

\* handler() on NET_EVENT_IF_UP: stop and start, a fresh acquisition.
restart ==
  /\ mgmt = "restart"
  /\ mgmt' = "idle"
  /\ dhcp' = dhcpv4_started(dhcpv4_stopped(dhcp))
  /\ UNCHANGED <<phy, undrained, events, main, multicast_refresh, zephyr>>

----------------------------------------------------------------------------
(* handler() on NET_EVENT_IPV4_ADDR_ADD: force_multicast_rejoin() of the   *)
(* mDNS group, a leave at a time, then the refresh.                        *)

\* Mutant: a single leave.
drainOnce ==
  /\ mgmt = "drain"
  /\ \/ ref[mdns] > 0 /\ net_ipv4_igmp_leave(mdns)
     \/ ref[mdns] = 0 /\ UNCHANGED zephyr
  /\ mgmt' = "join"
  /\ UNCHANGED <<phy, undrained, events, main, dhcp, multicast_refresh>>

\* Any error ends the loop: the group is gone, or its leave could not be sent
\* and Zephyr has kept it or not.
drain ==
  /\ mgmt = "drain"
  /\ \/ ref[mdns] > 0 /\ net_ipv4_igmp_leave(mdns) /\ mgmt' = "drain" /\ UNCHANGED undrained
     \/ ref[mdns] = 0 /\ mgmt' = "join" /\ undrained' = FALSE /\ UNCHANGED zephyr
     \/ /\ ref[mdns] > 0 /\ faults < MaxFaults
        /\ \/ UNCHANGED <<ref, joined>>
           \/ ref[mdns] = 1 /\ ref' = [ref EXCEPT ![mdns] = 0] /\ joined' = [joined EXCEPT ![mdns] = FALSE]
        /\ mgmt' = "join" /\ undrained' = joined'[mdns]
        /\ faults' = faults + 1 /\ UNCHANGED snoop
  /\ UNCHANGED <<phy, events, main, dhcp, multicast_refresh>>

rejoin ==
  /\ mgmt = "join"
  /\ net_ipv4_igmp_join(mdns)
  /\ mgmt' = "refresh"
  /\ UNCHANGED <<phy, undrained, events, main, dhcp, multicast_refresh>>

multicast_membership_refresh_start ==
  /\ mgmt = "refresh"
  /\ mgmt' = "idle"
  /\ multicast_refresh' = IF multicast_refresh = "NULL" THEN "scheduled" ELSE multicast_refresh
  /\ UNCHANGED <<phy, undrained, events, main, dhcp, zephyr>>

----------------------------------------------------------------------------
\* Mutant: the work is not scheduled again.
refresh_handlerOnce ==
  /\ multicast_refresh = "scheduled"
  /\ Report({g \in Groups : joined[g]})
  /\ multicast_refresh' = "done"
  /\ UNCHANGED <<phy, undrained, events, main, mgmt, dhcp, ref, joined, faults>>

\* multicast_membership_refresh_handler(): a report for every joined group, or
\* an error that it ignores; it schedules itself again.
refresh_handler ==
  /\ multicast_refresh = "scheduled"
  /\ \/ Report({g \in Groups : joined[g]}) /\ UNCHANGED faults
     \/ faults < MaxFaults /\ faults' = faults + 1 /\ UNCHANGED snoop
  /\ multicast_refresh' = "scheduled"
  /\ UNCHANGED <<phy, undrained, events, main, mgmt, dhcp, ref, joined>>

----------------------------------------------------------------------------
\* The mDNS responder's boot-time join was counted and "succeeded" without a
\* link, or failed.
Init ==
  /\ link = FALSE /\ source = {} /\ carrier = FALSE /\ missed = FALSE /\ undrained = FALSE
  /\ events = <<>> /\ main = "start" /\ mgmt = "idle" /\ dhcp = "off"
  /\ ref = [g \in Groups |-> IF g = mdns THEN 1 ELSE 0]
  /\ joined \in {[g \in Groups |-> g = mdns], [g \in Groups |-> FALSE]}
  /\ multicast_refresh = "NULL"
  /\ snoop = [g \in Groups |-> "none"] /\ faults = 0

Main == Register \/ start_dhcpv4_client
Mgmt == Deliver \/ restart \/ drain \/ rejoin \/ multicast_membership_refresh_start

Next == \/ LinkUp \/ LinkDown \/ Bind \/ PtpJoin \/ \E g \in Groups : AgeOut(g)
        \/ lan9250_thread \/ Main \/ Mgmt \/ refresh_handler

\* The threads run, the work item's timer expires, and with a link a DHCP
\* server answers and the PTP transport joins.  The link does as it likes.
Fairness == /\ WF_vars(lan9250_thread) /\ WF_vars(Main) /\ WF_vars(Mgmt) /\ WF_vars(refresh_handler)
            /\ WF_vars(Bind) /\ WF_vars(PtpJoin)

Spec == Init /\ [][Next]_vars /\ Fairness

----------------------------------------------------------------------------
(* Properties.                                                             *)

\* Nothing is under way on a board with an address and a link.
Settled == link /\ source = {} /\ dhcp = "bound" /\ mgmt = "idle" /\ events = <<>>

\* When the board has settled, a report for the mDNS group has gone out over
\* the link it has now, whatever was counted and marked joined before, in
\* whichever order link changes, events and main() came ("what actually clears
\* is_joined so the final join() below performs a real send").  Three things
\* excuse it: the forced join failed, the leaves before it failed, or the link
\* was down too briefly for the driver to see more than that it is up, which
\* Zephyr is not told of.
RejoinReports == Settled => snoop[mdns] # "none" \/ ~joined[mdns] \/ undrained \/ missed

\* While the link stays up, the switch does not forget the board for good: each
\* group's entry is there again and again, although entries age out and nothing
\* queries, and also after a link loss the driver did not see.  The exceptions
\* are a group whose join failed (no refresh reports it and nothing retries the
\* join) and an unseen loss before the refresh was ever started.
StaysReachable ==
  <>[]link => \A g \in Groups : \/ []<>(snoop[g] = "live")
                                \/ <>[](~joined[g])
                                \/ <>[](missed /\ multicast_refresh = "NULL")

\* A board whose link stays up gets an address and keeps it, whether the link
\* came up before or after main() registered its handler and however often it
\* bounced ("Restart DHCP fresh on every link-up transition, not just at boot"),
\* unless the last bounce stopped the DHCP client and raised no IF_UP.
BoundAgain == <>[]link => <>[](dhcp = "bound") \/ <>[](missed /\ dhcp = "stuck")
=============================================================================
