------------------------------ MODULE FlowTable -----------------------------
(***************************************************************************)
(* The flow tables of the switches (OpenFlow 1.0) and the entries that the *)
(* controller writes into them (controller.py, through ofctl_utilis.py).   *)
(* An entry is its match, its priority and the ports it sends a frame to;  *)
(* a frame is its headers.  An address, a MAC or a protocol is a name.     *)
(***************************************************************************)
EXTENDS Naturals

CONSTANTS
  Star,      \* a field that is wildcarded
  Gateway,   \* the controller's MAC, which its gateway addresses have
  NatIp      \* NATConfig.external_ip

Controller == 65533   \* OFPP_CONTROLLER
All == 65532          \* OFPP_ALL

Fields == {"type", "mac", "src", "dst", "proto", "sport", "dport"}
Wild == [x \in Fields |-> Star]

Entry(priority, match, to) == [priority |-> priority, match |-> match, to |-> to]

(***************************************************************************)
(* What the switch makes of a match: addresses and protocol are looked at  *)
(* only in a match for IP, and ports only in one for TCP or UDP.           *)
(***************************************************************************)
Looked(match) ==
  {"type", "mac"}
    \cup (IF match["type"] = "ip" THEN {"src", "dst", "proto"} ELSE {})
    \cup (IF match["type"] = "ip" /\ match["proto"] \in {"tcp", "udp"}
            THEN {"sport", "dport"} ELSE {})

Matches(e, f) == \A x \in Looked(e.match) : e.match[x] \in {Star, f[x]}

\* The entries that a frame may be handled by: of those that match it, the
\* ones with the highest priority.
Hits(table, f) == {e \in table : Matches(e, f)}
Chosen(table, f) ==
  {e \in Hits(table, f) : \A d \in Hits(table, f) : d.priority <= e.priority}

\* OFPFC_ADD: an entry takes the place of one with its match and priority.
SameEntry(d, e) == d.priority = e.priority /\ d.match = e.match
Added(table, new) ==
  {d \in table : \A e \in new : ~SameEntry(d, e)} \cup new

-----------------------------------------------------------------------------
(* The controller's own entries                                            *)

TableMiss == Entry(0, Wild, {Controller})

\* Mutant: the entries of hosts take precedence over the capture.
DnsCaptureLow ==
  Entry(5, [Wild EXCEPT !["type"] = "ip", !["proto"] = "udp", !["dport"] = 53],
        {Controller})

DnsCapture ==
  Entry(55000, [Wild EXCEPT !["type"] = "ip", !["proto"] = "udp", !["dport"] = 53],
        {Controller})

NatCapture ==
  Entry(50000, [Wild EXCEPT !["type"] = "ip", !["dst"] = NatIp], {Controller})

\* The pair of entries that forwards the IP and ARP frames of host h.
HostPair(h, port) ==
  {Entry(10, [Wild EXCEPT !["type"] = type, !["mac"] = h], {port}) : type \in {"ip", "arp"}}
=============================================================================
