# A verification of the SDN controller

TLA+ specifications, TLC runs and TLAPS proofs about the OpenFlow controller of this
repository (`src/`): a DHCP server, a DNS server, a source NAT and shortest-path switching
that run as greenlets of one os-ken application.

## 1. Inventory

Concurrency in this program is cooperative: greenlets switch only where one of them sleeps or
waits on a socket. A handler without a sleep is atomic, and one with a sleep is several atomic
steps. That single fact decides the grain of every module.

| Part | State | Operations | Talks to |
|---|---|---|---|
| DHCP server (`dhcp.py`) | `mac_to_lease`, `ip_to_mac`, `mac_to_hostname`, `_probing`, `_conflict_ips` | one greenlet per packet: DISCOVER, REQUEST, RELEASE, DECLINE; the sleep in `_arp_probe`; `_mark_arp_conflict`; `_lease_reaper` | DNS records (call), the controller (ARP replies) |
| DNS records (`dns_server.py`) | `_records`, `_ip_to_hostname` | `add_record`, `remove_record` | called by DHCP |
| DNS responder (`dns_server.py`) | none | `handle_dns`: parse, look up each question, answer; nothing is forwarded upstream | reads the records, called by `packet_in_handler` |
| NAT table (`nat.py`) | `_connections`, `_port_index`, `_next_port` | `handle_outbound`, `handle_inbound` with the rewriting of frames, `_gc` | called by `packet_in_handler` |
| packet_in dispatch (`controller.py`) | none | DHCP, DNS, NAT inbound, NAT outbound, probes, ARP, in this order; the port a frame leaves by | all of the above, host registry |
| Routing (`controller.py`) | none (reads `switches`, `adjacency`, `link_weights`) | `_dijkstra`, `_dijkstra_all`, `_bellman_ford`, `_get_next_hop`, `_build_path` | used by the forwarding entries |
| Topology and entries (`controller.py`) | `switches`, `links`, `adjacency`, `hosts`, `ip_to_mac`, the switches' flow tables | nine event handlers, `_probe_loop`, `_install_host_flows` | os-ken topology events, packets, link probes |
| Firewall (`firewall.py`, `_install_firewall_rules`) | `rules` | rules read once, deny entries 0.5 s after a switch appears | switches' flow tables |
| Helpers | none | `set_flow` and `set_packetin_flow` of `ofctl_utilis.py`; configuration loading, networkx printing, deployment scripts | |

What is hard, and what makes each part correct:

- **DHCP.** The table is read before a sleep of two seconds and written after it, by several
  greenlets; marks and conflict entries are keyed by address and shared by searches; the clock
  runs meanwhile. Correct means: one holder per address, a lease that runs is not disturbed, a
  probe concludes what was seen on the wire, a search ends, an expired lease comes back.
- **DNS.** Two dictionaries must stay in step while names and addresses change hands. Correct
  means: what a client is told by a reverse lookup leads back by a forward one, and names
  addresses that are leased.
- **NAT.** Ports are allocated for TCP and UDP, taken from the packet for ICMP, and given back
  by port number. Correct means: a port is lent to one flow at a time, kept while the flow
  lives, and never lost; and the rewritten frames pass their receivers' checks and cannot be
  told from those of a direct exchange.
- **A frame's way.** Four writers put entries of four priorities into one table, at different
  times and without ever deleting one; a frame is denied, switched, or handed to the
  controller, which sends it on by a port it looks up elsewhere. Correct means: what is denied
  stops, what is asked of the controller is answered, and the outside sees the NAT alone.
- **Routing.** Each switch's next hop comes from a search of its own. Correct means: shortest,
  and independent choices fit together.
- **Topology.** Entries are overwritten, never deleted, and an exception ends an installation
  half-way; probes may be older than the topology they are applied to. Correct means: entries
  follow the known topology and never form a loop.

Each hazard is listed with its line in `PROJECT.json`, with the properties that would catch it; where
a property that passes assumes it away, a note says what is excluded.

## 2. Modules

| Module | Models | Reads as |
|---|---|---|
| `DnsRecords` | the two DNS dictionaries | `AddRecord`, `RemoveByName`, `RemoveByIp` |
| `DhcpServer` (extends `DnsRecords`) | all of the DHCP server | an action per message up to the sleep (`Discover`, `Nak`, `Confirm`, `Renew`, `RequestNew`, `Release`, `Decline`), `WakeClear` and `WakeConflict` after it, `ArpReply`, `Reaper`, `Tick` |
| `DhcpPolite` | the server with clients that wait for an answer before they send again | properties of searches of different clients that interleave |
| `DnsResponder` (extends `DnsRecords`) | `handle_dns` as operators: `Lookup`, `Answers`, `BuildResponse`, `Response` | also a client's lookup, `Told` |
| `DhcpOrderly` (extends both) | the server with assignments one at a time, and what lookups tell of it | implements `AddressService` |
| `AddressService` | abstract: an address is granted to one client and kept until its tenure lapses | |
| `NatTable` | the connection table, the port index, allocation, the collector | `OutboundKnown`, `OutboundNew`, `OutboundIcmp`, `OutboundHangs`, `Inbound`, `Collect`, `Tick` |
| `NatFlows` | the NAT without ICMP | implements `PortBinding` |
| `PortBinding` | abstract: a flow is bound to a port of its own | |
| `Checksum` | the checksum of `nat.py` and `dns_server.py` | of the sum of the words |
| `NatRewrite` (extends `NatTable`, `Checksum`) | `_rewrite_outbound`, `_rewrite_inbound` | operators over the table's entries |
| `FlowTable` | OpenFlow 1.0 matching and the controller's own entries | |
| `Firewall` (extends `FlowTable`) | the rules and the drop entries they become | |
| `PacketPath` (extends `Firewall`) | the way of an IP frame through tables and controller | control plane: `Features`, `RulesArrive`, `Disconnect`, `Enter`, `Learn`, `Forget`; `Handle` for a frame at a switch; `Open` and `Reply` for hosts |
| `Routing` | the searches and paths as operators on a graph | also the reference definition `Distances` |
| `Topology` (extends `Routing`) | the controller's event handlers and `_install_host_flows` | an action per handler, and the network: `Cut`, `Mend`, `Replug` |
| `TopologyCalm` | the controller where late probes are lost and the DHCP server probes no known address | the network in which the entries are right and every link with a probed port is found |
| `MC*` | instances, symmetry, initial states and graphs for TLC | |
| `*_proofs` | theorems about the module of that name (`DhcpServer_proofs` has those about `DnsRecords`, too; `Nat_proofs` those about `NatTable`, `NatFlows`, `Checksum` and `NatRewrite`) | |

How state corresponds to the code. A missing dictionary entry is `None`. A handler asleep in
`_arp_probe` is a record of the local variables that it uses when it wakes (`Handler`). Time is
counted down: `lease[m].ttl` is `expires_at - now`, `conflictLeft[a]` what is left of
`conflict_ttl`, and an entry of the NAT holds its idle ticks. In the NAT a packet is its key and
the class of its TCP flags. In `Topology` a port is known by what it leads to (any two switches
share at most one wire; its number, `PortNumber`, decides only whether it is probed), a link record by its direction, and a switch is *down*, *known* (its
features have been seen, so it is in `self.switches`) or *entered* (`EventSwitchEnter` handled).
`flows[s][m]` is the output of the pair of entries (IP and ARP) that switch `s` holds for `m`.

`PacketPath` composes what the other modules promise instead of their states: the NAT is a set
of bindings (which `NatFlows` is shown to implement), the host registry is the set of known hosts
(a host's place is fixed; `Topology` moves it), the way to a switch is `Toward`. A frame carries,
beside its headers, the header by which its opener knows the exchange, and an arrival at a host
carries the frame that the switch had got; the code has neither, the properties need both. In
`NatRewrite` a frame is the *sums* of the words that a checksum covers: the checksum depends on
nothing else, so any address, length and content of up to 65,535 bytes is a value of the model.

What is abstracted inside modelled parts: packet layout and option encoding, the logging of
routes (but not the exceptions it can raise),
`mac_to_ip` and `port_to_mac`, which nothing reads, and the gateway addresses that `ip_to_mac`
holds from the start. `link_weights.json` is the constant `LinkWeight`, assumed positive.

Operators marked *Mutant* in the modules belong to no specification. Each is a plausible bug of
the operator that follows it; with the bug in place the property named with it in
`PROJECT.json` fails, which shows that the property depends on that code.

## 3. Runs

| Run | Question | Instance |
|---|---|---|
| `dhcp_polite` | do interleaved searches leave tables, leases and marks sound, and do searches and leases end? | 2 clients, 2 addresses, 2 greenlets, times of one tick: 42,184 states |
| `dhcp_orderly` | is the server an address service when assignments do not overlap, and do lookups agree with each other and with the leases? | the same with 2 names, by symmetry: 62,134 states |
| `nat_any` | does any clash of ports lose a port? | 2 hosts, 1 peer, 2 ports, one ICMP identifier inside the pool, other protocols; 414,000 states |
| `nat_flows` | is it a port binding when ports come from the allocator alone, and are its frames right? | 1 host (keys for TCP, UDP and *other*), 3 ports; words and sums that carry once, twice and not at all: 2,433 states |
| `topology` | do the entries follow the topology, and are links found in the end? | triangle with weights 1, 1, 3, a wire with both ends probed, one with one and one with none; one host and two sockets; 2 changes: 26,860 states |
| `routing` | are the algorithms right? | every graph on 4 switches, weights 1 and 2: 729 graphs |
| `packet_path` | does every frame end where it should? | 1 switch, 2 inside hosts and 1 outside, 2 NAT ports, 5 exchanges, 7 rules, one of which cannot be converted and one is for port 0: 146,319 states |
| `dhcp_duplicate`, `dhcp_retransmit`, `dhcp_stale_name`, `nat_wrong_port`, `topology_ghost_link` | does the code keep what a document or comment says? No: see section 5. | the smallest instance that shows it |

Why the bounds are enough to be interesting. Two clients, two addresses and two greenlets are
what it takes for two searches to meet on one address with another left over. The clients of
`dhcp_polite` wait: none has two packets under way. The code does not ensure that. A single probe
(2 s) is shorter than the usual time to a retransmission, but a search that meets conflicts is
not; what a repeated DISCOVER does is shown by `dhcp_retransmit`. One tick per
timeout gives every order of a timeout and an event, because a tick may come between any two
steps. In `nat_any` the pool has as many ports as it takes for the allocator to wrap around, to
clash with the ICMP identifier and to run out. In `nat_flows` the timeouts differ by protocol
and state, and there is a port for every flow, so the allocator wraps and does not run out. In
the triangle the direct wire is dearer than the way round, so cuts and repairs turn next hops
around. `MaxChanges` counts cuts, repairs, moves of a host and departures of a switch; two of
them suffice for a repair, for a return, and for a move while something is down. `MaxQueued` and
`MaxProbers` bound the probes under way. From a cold start (`Begin` in `MCTopology`) the network
is left unchanged, and changes start where that start leads: all switches and links known.

In `packet_path` the five exchanges meet every priority: one that a rule denies, a query, two
flows that differ in their host alone (so that bindings could be mixed up), and one from inside
to the NAT's own address. Two inside flows to the outside use up the pool of two. A rule names
an inside source, an outside source, the NAT's address with a port, port 0 (which the code takes
for no port), and nothing but an address after the rule that raises. `MaxFlight` is 1: frames meet only in tables and bindings, which
stay, so an exchange overtakes another between two of its frames. The switch may leave and
return at any time, with its table or without. The instance has one switch because with two the
NAT does not work: see `nat_wrong_port` and the flood in section 5.

`NatOrder` restricts `packet_path`: an outside host is known only while an inside one is. Without
it `OutsideSeesNat` is false. As long as no inside host is known, the controller takes outside
hosts for ordinary ones and installs direct entries for them (`controller.py:364`), and these
entries are never deleted: frames from inside then reach the outside untranslated.

Deadlock is checked in every run. Where the NAT hangs, only its clock goes on.

**Fairness.** `DhcpFairness` is weak fairness of a sleeper's waking and of the reaper: the hub
runs every greenlet whose time has come, and the reaper's loop has no exit. `FlowsFairSpec` has
weak fairness of the collector, for the same reason. `ProbeFairness` says that each round of
`_probe_loop` sends a probe by each of the ports 1 to 8 (`ProbedPorts`, `controller.py:531`) and
that a queued event is handled in the end; it is
written as what recurs (`[]<>`) and not with `SF_`, as the fewer branches let TLC check
it in time. `LinksFound` is about the wires that have an end at a probed port (`ProbedWires`):
a wire between two ports above 8 is found only if os-ken reports it, and for it the property
would be false. Beyond that `LinksFound` needs nothing of os-ken's link events. No fairness is assumed of
clients, of the network or of the clock.

## 4. What is proved

All theorems hold for every value of the constants that satisfies the named assumptions:
`DnsAssumption`, `NamesAssumption`, `DhcpAssumption`, `NatAssumption`, `RewriteAssumption`,
`FirewallAssumption`, `PathAssumption` (names and ports differ, openings are well-formed headers),
`WiringAssumption` (hosts are where their ports lead, a wire has two ends), `RoutingAssumption`,
`GraphAssumption` and `TopologyAssumption` (finitely many switches, numbered; positive weights).
TLC evaluates each of them in the runs. Four theorems of `PacketPath` have a further hypothesis,
given below. Every invariant and every action property of a run that passes is stated by one of
these theorems.

**DNS and DHCP** (`DhcpServer_proofs`, `DhcpPolite_proofs`, `DhcpOrderly_proofs`)

- `DnsTablesAgree`: `PtrConfirmedByA` is inductive over `DnsRecords` together with the types;
  `DhcpKeepsDnsConsistent` carries it over to the calls that the DHCP server makes.
- `DhcpTypes` and `ProbesHaveOwners` hold for the server with arbitrary clients. The second
  needs the types only: a mark is set by the handler that goes to sleep on it, and a handler
  that wakes removes the mark of its address even when others sleep on it.
- `IndexNeverStale` and `RunningLeaseIsStable` (clients that wait). The inductive invariant adds
  that a client has at most one sleeping handler, and holds no ALLOCATED lease while it has one:
  that is what keeps a waking search from writing over a lease.
- `HoldersAreAlone` and `DhcpImplementsService` (assignments one at a time). `SoleHolder`, with
  the types, is the inductive invariant: the addresses that the one search has still to try, and
  the address of the latest offer, are leased to nobody, so whatever is acknowledged is free. The
  refinement maps a step to the grant of one client, to a lapse of a set of clients (the reaper
  and the clock) or to a stutter.
- `VerdictsAreSound` (assignments one at a time). The invariant is the converse of
  `NoOrphanProbe`, `MarksKept`: while a probe sleeps, its mark is there. Together with `OneSearch`
  the only mark is that of the probe, so a mark that is not `clear` at its end was a reply, and no
  new probe clears it.
- `LookupsAgree` and `NamesHaveLeases`. The first follows from `PtrConfirmedByA` and the types: a
  client is told a name by the reverse map, and the forward map confirms it. The second is
  carried by an invariant that must hold through every release, expiry and takeover: an address
  with a PTR has a client whose lease it is.

**NAT** (`Nat_proofs`)

- `NatTypes` and `NoPortIsLost` (ICMP included): an index entry that is overwritten leads to the
  newer connection, which is open; one that is cleared leads nowhere.
- `NatImplementsBinding`, `FlowsHavePorts`, `PortsNeverShared`, `CollectorSparesLive` (without
  ICMP): the invariant is that the tables are inverse to each other, from which a free port
  belongs to no open flow.
- `FramesAccepted` and `NatTransparent`. Lemmas show that the fold of a
  sum of at most 2^31 is its residue modulo 65535, with 65535 for 0 unless the sum is 0; that the
  checksum complements it, so that sum and checksum fold to all ones; and that a frame sealed
  with given headers verifies with them. What remains is that the headers which the code seals
  with are those that the receiver sees, which is why the addresses come from the entry's key
  and the port is a word (`NatTypes`). Transparency then needs the ports put back, and the
  same sum under the same header. TCP frames with padding are excepted (section 5).

**Routing** (`Routing_proofs`, `MCRouting_proofs`), on every finite graph with positive weights:

- `ShortestDistances`. For Dijkstra the invariant (`SearchInv`) is that the recorded
  predecessor of a switch accounts for its distance, that no edge offers a shorter way out of a
  switch whose current pair is off the heap, and that such a switch is no further than any pair
  on the heap. A turn drops a pair that is out of date or relaxes the edges of the
  nearest switch. The search ends because pairs on the heap and edges not yet
  relaxed grow fewer together. Bellman-Ford records no distance below the shortest, and its
  round `k` settles the `k`-th switch of a shortest path; as such a path repeats no switch, one
  round less than there are switches is enough.
- `DescendingHops`, `ShortestPaths`: following predecessors from the destination
  comes strictly nearer to the source, so both walks end, the path repeats no switch, and its
  cost is the distance. `CompletePredecessors`: the list of a switch holds exactly the neighbours
  that were popped at the distance less the weight.
- Searches are recursive functions over numbers and not RECURSIVE operators, and induction is by
  the least counterexample (`NatSetInduction`), as no prover here takes the library's induction
  theorems.

**Topology and forwarding entries** (`Topology_proofs`)

- `TopologyTyped` for the whole network, exceptions included; `CalmTyped` for the calm one.
- `NoGhostLinks`, `ShortestForwarding` and `LoopFreedom` for the calm network, from one
  invariant, `CalmInv`: types, links between known switches, a probe that waits has been received
  by a switch that has not left since (its events are dropped with it), hosts are registered at
  host ports, and the two conclusions. With no link to an unknown switch no search raises, so a
  reinstallation writes every entry it should (`NoneRaises`). A new entry leads to a switch that
  gets a new entry, too, and is nearer to the host; an old one belongs to a table that had no
  loop. So a set of switches that hands a frame on within itself would be all new, and endless,
  or all old (`InstalledLoopFree`): that is why entries of unknown hosts and of unreachable
  switches, which nobody deletes, do no harm.

**A frame's way** (`PacketPath_proofs`)

- `PathTypeCorrect`, `RulesAreExact`, `DeniedStop`, on any network and with any rules. A rule and
  its entry are compared field by field: a field of IP is looked at only if the entry asks for
  IP, a port only with TCP or UDP and not 0, which is what `WellFormed` asks of a rule. `DeniedStop` rests
  on an invariant: a switch that is armed has all drop entries, since entries are replaced only
  by entries of the same match and priority, and nobody else writes priority 60000; nothing in a
  table stands above it.
- `QueriesKept` (`QueryInv`): every entry is a drop, leads to the controller, or is for the MAC
  of a host and of the lowest priority but one (`Kind`); a switch that has been seen has the
  capture of queries; and no frame is *from* port 53, so nothing that comes back is a query.
- `InsideStaysHidden` (`VeilInv`), on any network: a frame for outside never goes by the MAC of an
  inside host, and the entries are for such MACs alone, so only the controller takes it on; a frame
  *from* outside has no inside host's MAC as its source, which is what bindings and replies
  take up; and what is sent by an outside host is for no inside address.
- `InsideTranslated`, `TranslatedBack` (`NatInv`): each frame under way is what the host at its
  port has sent. An inside host says what it means, or asks the NAT's own address; an outside
  host answers a translated frame, by a binding that there is, and bindings differ in their ports.
- `AnswersGetHome`, from `NatInv`: a frame that has an entry leading to the controller is
  handled by no other entry, as the priorities of captures, drops and host entries differ; a query
  came in by the port of the host that asked; and a reply finds the one binding of its port,
  whose host is on the switch.

The hypotheses of the last group. `InsideOpens`: exchanges are opened from inside, as there is no
port forwarding. `Unlinked`: no switch leads to another. It cannot be dropped: `Outbound` does not
look at the source, so with two switches a translated frame may be translated again at the next,
and so may an answer from port 53 (section 5). `InsideStaysHidden` does without it.
`QueryPortUnused`: no host opens an exchange from UDP port 53. `OneAtMost`: there is one switch;
of more, `AnswersReturn` would say too much. The instance of `packet_path` satisfies all of them:
one switch without a wire, openings by inside hosts from port 5.

Only model-checked: the liveness properties `SearchEnds`, `ExpiredReclaimed`, `IdleCollected` and
`LinksFound`, as the provers do neither fairness nor ENABLED. The runs that expect a violation show a
counterexample, and nothing is to be proved.

## 5. Where the code and its documents part

1. `dhcp_duplicate`: one address for two clients. The set of used addresses holds ALLOCATED
   leases only (`dhcp.py:192`). A search that begins after another client's OFFER and before its
   REQUEST tries the offered address again; its probe finds nobody, since the first client does
   not have the address yet, and neither acknowledgement looks at the other lease. Probes that
   overlap on one address do not do this: the second one fails (see below).
2. `dhcp_retransmit`: a client's second DISCOVER starts a second search. If the client accepts the
   first offer while that search sleeps, the search, on waking, writes OFFERED over the ALLOCATED
   lease (`dhcp.py:202`), and the address no longer counts as used.
3. `dhcp_stale_name`: a client that renews under a second name leaves the A record of the first
   behind for ever, because removal by address looks only at the PTR.
4. `topology_ghost_link`: a probe whose sender has left enters a link to an unknown switch;
   every search raises `KeyError` from then on and no entry is installed any more.
5. `nat_wrong_port`: a translated frame leaves by the port that its receiver has on its own
   switch, on whichever switch the frame came in. The NAT works only with one switch.

Others are in the model and have no run of their own:

- Of two searches that probe one address at a time, the first to wake pops the mark
  (`dhcp.py:164`), and the second takes the missing mark for a conflict and lists an address that
  nobody has. The second may also clear a conflict that the first had been told of
  (`ProbeVerdictSound` is for one search at a time).
- An address whose lease has run out may be leased to a second client before the reaper's pass;
  the end of the first lease then removes the entry in `ip_to_mac` and the records by address,
  which are the second client's (`ReleaseLeases` in `DhcpServer`; `dhcp.py:92`).
- Source and destination MAC are exchanged when a frame is parsed (`nat.py:84`, `ParsedSrcMac`), so
  replies from outside go to the gateway's MAC, against the comment at `nat.py:264`. The NAT
  integration test does not notice, as it looks for the text `0% packet loss`, which
  `100% packet loss` contains. `RoundTrip` and `Transparent` are about addresses and ports.
- An ICMP echo is entered under its identifier as the port, whoever has that port. Two hosts are
  then translated to one port, the index leads to the later one, and the collector may remove the
  index entry of a live connection: with ICMP `PortsDiffer`, `IndexComplete` and
  `CollectSparesLive` are false, and of the properties of the index `NoDanglingIndex` alone holds.
- When there is no free port the search of `_alloc_port` (`nat.py:105`) never ends, and as it does
  not yield, nothing in the controller runs again, the collector included (`OutboundHangs`):
  with a pool of one port `IdleCollected` is false. `nat_flows` has a port for every flow.
- "Outbound: internal host sends to external IP" (`controller.py:754`) looks at the destination
  alone. With two switches a frame to an address nobody has is translated and flooded; the next
  switch sends it up again, and it is translated from the NAT's own address, under a new port,
  and flooded back, until the ports run out (`OnlyInsideTranslated` is checked with one switch). In the same way a
  DNS answer that crosses a wire may get a binding (`QueriesKept` is for unlinked switches).
- The controller answers the ARP probe of its own DHCP server, takes the answer for the host,
  and the entries of two switches lead to each other (`ArpProbeAnswered`; `NoForwardingLoop` is
  checked in `topology` without these probes, see `TopologyCalm`).
- Direct entries of outside hosts outlast the arrival of inside ones (section 3, `NatOrder`).
- The TCP length of a rewritten frame counts Ethernet padding (`nat.py:221`), so a short segment
  that was padded leaves with a wrong checksum (`Counted`).
- A rule that cannot be converted takes the rules after it with it (`Installed`); one with ports
  and no protocol, or for port 0, denies more than it says (`WellFormed`).
- Answers to a second question are given the name of the first (`BuildResponse`).
- The probe loop may never start, or start twice (`Enter`).

## 6. Not modelled, and why

- The encoding of names, options and headers, pointers in DNS names included.
- ICMP in `PacketPath`: `NatTable` has its clashes, `NatRewrite` its frames.
- A binding that ends during an exchange in `PacketPath`; `nat_flows` has the collector.
- `install_rules` of `firewall.py`, `_install_bidirectional_flows` of `nat.py` and all of
  `ofctl_utilis.py` but two functions: never called.
- Configuration files: read once at start; their values are constants. A weight below zero
  keeps Dijkstra running for ever and is excluded.
- networkx printing (logging, with its exceptions caught), test runners, deployment scripts.
- Parallel wires between two switches, and ports that change their wire.
- The Bellman-Ford setting in `Topology`: the entries are computed with Dijkstra; `routing`
  shows that both give distances and next hops of the same length.
- Faults of the channel between switch and controller other than a disconnection: it is TCP.

## 7. Plan

1. Done: all parts that keep state or decide where a frame goes, the abstract specifications of
   address service and port binding, and a theorem for every invariant and action property that
   a run checks.
2. Next, proofs: the safety half of the liveness properties (what a step of a search, of the
   reaper or of the collector brings nearer), and the theorems about a frame's way with
   fewer hypotheses, in so far as the code allows.
