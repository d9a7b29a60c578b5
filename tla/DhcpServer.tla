----------------------------- MODULE DhcpServer -----------------------------
(***************************************************************************)
(* DHCPServer (dhcp.py): the lease table, the ARP probing of candidate     *)
(* addresses and the lease reaper.                                         *)
(*                                                                         *)
(* Every DHCP packet is handled by a greenlet of its own, and greenlets    *)
(* switch only in hub.sleep.  The one sleep on the handler's path is the   *)
(* wait for ARP replies in _arp_probe, so a handler is a run of code up to *)
(* that sleep (Discover, Request, Release, Decline) and, when it slept,    *)
(* further runs that start when it wakes (WakeClear, WakeConflict).        *)
(*                                                                         *)
(* Time is counted down, never up: a lease holds the ticks it has left, an *)
(* entry of the conflict list the ticks until it is stale (0 means "not in *)
(* the list, or stale": every reader drops the stale entries first).       *)
(***************************************************************************)
EXTENDS Naturals, DnsRecords

CONSTANTS
  Mac,          \* the clients
  LeaseTime,    \* lease_time, in ticks
  ConflictTTL,  \* conflict_ttl, in ticks
  ProbeTicks,   \* a probe_timeout sleep spans at most this many ticks
  Worker        \* the greenlets that can be inside handle_dhcp at once

Handler ==      \* a handler asleep in _arp_probe
  [kind : {"offer", "ack"},      \* who called _find_free_ip
   mac : Mac,
   ip : Address,                 \* the address it is probing
   todo : SUBSET Address,        \* what the loop has still to try
   left : 0..LeaseTime,          \* now + lease_time, seen from the present
   probeAge : 0..ProbeTicks]     \* the age of the probe's own "now"

ASSUME DhcpAssumption ==
  /\ Address \subseteq Nat
  /\ LeaseTime \in Nat
  /\ ConflictTTL \in Nat
  /\ ProbeTicks \in 0..ConflictTTL
  /\ None \notin Mac
  /\ None \notin Handler

VARIABLES
  lease,         \* mac_to_lease ("NONE": no entry)
  ipToMac,       \* ip_to_mac
  hostname,      \* mac_to_hostname
  probing,       \* _probing: "clear" is True, "conflict" is False
  conflictLeft,  \* _conflict_ips
  handler        \* per greenlet: None, or what it holds while it sleeps

tableVars == <<lease, ipToMac, hostname, records, ipToHostname>>
probeVars == <<probing, conflictLeft, handler>>
dhcpVars  == <<tableVars, probeVars>>

Lease ==
  [state : {"NONE", "OFFERED", "ALLOCATED", "RELEASED"},
   ip : Address \cup {None},
   ttl : 0..LeaseTime]           \* of an ALLOCATED lease, else 0

\* Types; and only a MAC that has no lease at all has no address.
TypeOK ==
  /\ DnsTypeOK
  /\ lease \in [Mac -> Lease]
  /\ \A m \in Mac : lease[m].ip = None => lease[m].state = "NONE"
  /\ ipToMac \in [Address -> Mac \cup {None}]
  /\ hostname \in [Mac -> Hostname \cup {None}]
  /\ probing \in [Address -> {"absent", "clear", "conflict"}]
  /\ conflictLeft \in [Address -> 0..ConflictTTL + 1]
  /\ handler \in [Worker -> Handler \cup {None}]

DhcpInit ==
  /\ DnsInit
  /\ lease = [m \in Mac |-> [state |-> "NONE", ip |-> None, ttl |-> 0]]
  /\ ipToMac = [a \in Address |-> None]
  /\ hostname = [m \in Mac |-> None]
  /\ probing = [a \in Address |-> "absent"]
  /\ conflictLeft = [a \in Address |-> 0]
  /\ handler = [w \in Worker |-> None]

-----------------------------------------------------------------------------
(* Helpers                                                                 *)

Holds(m) == lease[m].state = "ALLOCATED"       \* expired or not
Live(m)  == Holds(m) /\ lease[m].ttl > 0       \* now < expires_at
Known(m) == lease[m].state # "NONE"            \* mac in mac_to_lease
Busy(m)  == \E w \in Worker : handler[w] # None /\ handler[w].mac = m

Less(n) == IF n > 0 THEN n - 1 ELSE 0

\* handle_dhcp notes the client's name before it looks at the message type.
Learned(m, h) == IF h = None THEN hostname ELSE [hostname EXCEPT ![m] = h]

Register(name, a) ==
  IF name = None THEN UNCHANGED dnsVars ELSE AddRecord(name, a)

\* Mutant: ip_to_mac keeps its entry.
ReleaseKeepsIndex(S, names) ==
  /\ lease' = [m \in Mac |->
       IF m \in S THEN [lease[m] EXCEPT !.state = "RELEASED", !.ttl = 0]
                  ELSE lease[m]]
  /\ hostname' = [m \in Mac |-> IF m \in S THEN None ELSE names[m]]
  /\ RemoveByIp({lease[m].ip : m \in S})
  /\ UNCHANGED ipToMac

(***************************************************************************)
(* _release_lease for every MAC of S; names is mac_to_hostname before it.  *)
(* The entries of ip_to_mac and of the DNS go by address, whoever owns it. *)
(***************************************************************************)
ReleaseLeases(S, names) ==
  LET gone == {lease[m].ip : m \in S} IN
  /\ lease' = [m \in Mac |->
       IF m \in S THEN [state |-> "RELEASED", ip |-> lease[m].ip, ttl |-> 0]
                  ELSE lease[m]]
  /\ ipToMac' = [a \in Address |-> IF a \in gone THEN None ELSE ipToMac[a]]
  /\ hostname' = [m \in Mac |-> IF m \in S THEN None ELSE names[m]]
  /\ RemoveByIp(gone)

\* What assemble_ack enters for an acknowledged address.
Allocate(m, a, left, name) ==
  /\ lease' = [lease EXCEPT ![m] =
                 [state |-> "ALLOCATED", ip |-> a, ttl |-> left]]
  /\ ipToMac' = [ipToMac EXCEPT ![a] = m]
  /\ Register(name, a)

\* Mutant: the address under probe stays among those to try.
SeekAgain(w, kind, m, todo, left, listed, marks) ==
  LET free == {a \in todo : listed[a] = 0} IN
  /\ conflictLeft' = listed
  /\ \/ /\ free = {}
        /\ handler' = [handler EXCEPT ![w] = None]
        /\ probing' = marks
     \/ \E a \in free :
          /\ \A b \in free : a <= b
          /\ handler' = [handler EXCEPT ![w] =
               [kind |-> kind, mac |-> m, ip |-> a, todo |-> todo,
                left |-> left, probeAge |-> 0]]
          /\ probing' = [marks EXCEPT ![a] = "clear"]

(***************************************************************************)
(* The loop of _find_free_ip from where it stands: skip the addresses of   *)
(* the conflict list and start the probe of the first that is left, or     *)
(* give up.  listed and marks are the conflict list and _probing as the    *)
(* loop finds them.                                                        *)
(***************************************************************************)
Seek(w, kind, m, todo, left, listed, marks) ==
  LET free == {a \in todo : listed[a] = 0} IN
  /\ conflictLeft' = listed
  /\ \/ /\ free = {}
        /\ handler' = [handler EXCEPT ![w] = None]
        /\ probing' = marks
     \/ \E a \in free :
          /\ \A b \in free : a <= b
          /\ handler' = [handler EXCEPT ![w] =
               [kind |-> kind, mac |-> m, ip |-> a,
                todo |-> {b \in todo : b > a},
                left |-> left, probeAge |-> 0]]
          /\ probing' = [marks EXCEPT ![a] = "clear"]

\* Mutant: addresses in use are tried too, and left to the probe to find.
UnusedOrNot == Address

\* The set `used` is computed once; OFFERED leases are not in it.
Unused == Address \ {lease[m].ip : m \in {n \in Mac : Live(n)}}

StartSeek(kind, m, left) ==
  \E w \in Worker :
    /\ handler[w] = None
    /\ Seek(w, kind, m, Unused, left, conflictLeft, probing)

-----------------------------------------------------------------------------
(* Messages of a client                                                    *)

\* Mutant: a client that holds a lease gets a search as well.
DiscoverAnyway(m, h) ==
  /\ hostname' = Learned(m, h)
  /\ UNCHANGED <<lease, ipToMac, dnsVars>>
  /\ StartSeek("offer", m, 0)

\* DHCPDISCOVER -> assemble_offer: the address m holds, else a search.
Discover(m, h) ==
  /\ hostname' = Learned(m, h)
  /\ UNCHANGED <<lease, ipToMac, dnsVars>>
  /\ IF Holds(m) THEN UNCHANGED probeVars ELSE StartSeek("offer", m, 0)

\* assemble_nak: the requested address is not the one on record.
Nak(m, req, h) ==
  /\ lease[m].state \in {"OFFERED", "ALLOCATED"}
  /\ req \notin {None, lease[m].ip}
  /\ hostname' = Learned(m, h)
  /\ UNCHANGED <<lease, ipToMac, dnsVars, probeVars>>

\* Mutant: whatever address the client asks for is acknowledged.
ConfirmRequested(m, req, h) ==
  /\ lease[m].state = "OFFERED"
  /\ hostname' = Learned(m, h)
  /\ Allocate(m, IF req = None THEN lease[m].ip ELSE req, LeaseTime, Learned(m, h)[m])
  /\ UNCHANGED probeVars

\* assemble_ack, first branch: an offer is accepted.
Confirm(m, req, h) ==
  /\ lease[m].state = "OFFERED"
  /\ req \in {None, lease[m].ip}
  /\ hostname' = Learned(m, h)
  /\ Allocate(m, lease[m].ip, LeaseTime, Learned(m, h)[m])
  /\ UNCHANGED probeVars

\* assemble_ack, second branch: a renewal, of an expired lease too.
Renew(m, req, h) ==
  /\ Holds(m)
  /\ req \in {None, lease[m].ip}
  /\ hostname' = Learned(m, h)
  /\ lease' = [lease EXCEPT ![m].ttl = LeaseTime]
  /\ Register(Learned(m, h)[m], lease[m].ip)
  /\ UNCHANGED <<ipToMac, probeVars>>

\* assemble_ack, third branch: nothing on record, search for an address.
RequestNew(m, h) ==
  /\ lease[m].state \in {"NONE", "RELEASED"}
  /\ hostname' = Learned(m, h)
  /\ UNCHANGED <<lease, ipToMac, dnsVars>>
  /\ StartSeek("ack", m, LeaseTime)

\* Mutant: a client without an entry is released too.
ReleaseUnknown(m, h) == ReleaseLeases({m}, Learned(m, h)) /\ UNCHANGED probeVars

Release(m, h) ==
  /\ IF Known(m)
       THEN ReleaseLeases({m}, Learned(m, h))
       ELSE hostname' = Learned(m, h) /\ UNCHANGED <<lease, ipToMac, dnsVars>>
  /\ UNCHANGED probeVars

Decline(m, h) ==
  /\ IF Known(m)
       THEN /\ conflictLeft' =
                 [conflictLeft EXCEPT ![lease[m].ip] = ConflictTTL + 1]
            /\ ReleaseLeases({m}, Learned(m, h))
       ELSE /\ hostname' = Learned(m, h)
            /\ UNCHANGED <<lease, ipToMac, dnsVars, conflictLeft>>
  /\ UNCHANGED <<probing, handler>>

-----------------------------------------------------------------------------
(* The end of a probe's sleep                                              *)

\* Mutant: the mark is read and not removed.
WakeClearKeepsMark(w) ==
  LET me == handler[w] IN
  /\ me # None
  /\ probing[me.ip] = "clear"
  /\ handler' = [handler EXCEPT ![w] = None]
  /\ \/ /\ me.kind = "offer"
        /\ lease' = [lease EXCEPT ![me.mac] =
                       [state |-> "OFFERED", ip |-> me.ip, ttl |-> 0]]
        /\ UNCHANGED <<ipToMac, dnsVars>>
     \/ /\ me.kind = "ack"
        /\ Allocate(me.mac, me.ip, me.left, hostname[me.mac])
  /\ UNCHANGED <<hostname, probing, conflictLeft>>

(***************************************************************************)
(* The mark is still True: the address is taken for free.  An OFFERED      *)
(* lease is entered; for assemble_ack it becomes ALLOCATED in the same     *)
(* run, with the expiry of a `now` taken before the first probe and the    *)
(* name as it is now.                                                      *)
(***************************************************************************)
WakeClear(w) ==
  LET me == handler[w] IN
  /\ me # None
  /\ probing[me.ip] = "clear"
  /\ probing' = [probing EXCEPT ![me.ip] = "absent"]
  /\ handler' = [handler EXCEPT ![w] = None]
  /\ \/ /\ me.kind = "offer"
        /\ lease' = [lease EXCEPT ![me.mac] =
                       [state |-> "OFFERED", ip |-> me.ip, ttl |-> 0]]
        /\ UNCHANGED <<ipToMac, dnsVars>>
     \/ /\ me.kind = "ack"
        /\ Allocate(me.mac, me.ip, me.left, hostname[me.mac])
  /\ UNCHANGED <<hostname, conflictLeft>>

\* Mutant: the address does not enter the conflict list.
WakeConflictUnlisted(w) ==
  LET me == handler[w] IN
  /\ me # None
  /\ probing[me.ip] # "clear"
  /\ Seek(w, me.kind, me.mac, me.todo, me.left, conflictLeft,
          [probing EXCEPT ![me.ip] = "absent"])
  /\ UNCHANGED tableVars

(***************************************************************************)
(* The mark is False, or another prober of the address has removed it: the *)
(* address is listed, as of the probe's start, and the loop goes on.       *)
(***************************************************************************)
WakeConflict(w) ==
  LET me == handler[w] IN
  /\ me # None
  /\ probing[me.ip] # "clear"
  /\ Seek(w, me.kind, me.mac, me.todo, me.left,
          [conflictLeft EXCEPT ![me.ip] = ConflictTTL + 1 - me.probeAge],
          [probing EXCEPT ![me.ip] = "absent"])
  /\ UNCHANGED tableVars

-----------------------------------------------------------------------------
(* The network, the reaper and the clock                                   *)

\* packet_in_handler sees an ARP reply from a: _mark_arp_conflict.
ArpReply(a) ==
  /\ probing[a] # "absent"
  /\ probing' = [probing EXCEPT ![a] = "conflict"]
  /\ UNCHANGED <<tableVars, conflictLeft, handler>>

\* Mutant: the reaper looks for expired leases in ip_to_mac.
ReaperByIndex ==
  LET expired == {m \in Mac : /\ Holds(m) /\ ~Live(m)
                              /\ ipToMac[lease[m].ip] = m} IN
  /\ expired # {}
  /\ ReleaseLeases(expired, hostname)
  /\ UNCHANGED probeVars

\* One pass of _lease_reaper.
Reaper ==
  LET expired == {m \in Mac : Holds(m) /\ ~Live(m)} IN
  /\ expired # {}
  /\ ReleaseLeases(expired, hostname)
  /\ UNCHANGED probeVars

\* Time passes, but not more than ProbeTicks during one probe_timeout.
Tick ==
  /\ \A w \in Worker : handler[w] # None => handler[w].probeAge < ProbeTicks
  /\ lease' = [m \in Mac |-> [lease[m] EXCEPT !.ttl = Less(lease[m].ttl)]]
  /\ conflictLeft' = [a \in Address |-> Less(conflictLeft[a])]
  /\ handler' = [w \in Worker |->
       IF handler[w] = None THEN None
       ELSE [handler[w] EXCEPT !.probeAge = handler[w].probeAge + 1,
                               !.left = Less(handler[w].left)]]
  /\ UNCHANGED <<ipToMac, hostname, probing, dnsVars>>

-----------------------------------------------------------------------------
Requests == Address \cup {None}    \* option 50, or none
Names    == Hostname \cup {None}   \* option 12, or none

Request(m) == \E h \in Names :
  \/ \E req \in Requests : Nak(m, req, h) \/ Confirm(m, req, h) \/ Renew(m, req, h)
  \/ RequestNew(m, h)

FromClient(m) ==
  \/ \E h \in Names : Discover(m, h) \/ Release(m, h) \/ Decline(m, h)
  \/ Request(m)

System ==
  \/ \E w \in Worker : WakeClear(w) \/ WakeConflict(w)
  \/ \E a \in Address : ArpReply(a)
  \/ Reaper
  \/ Tick

DhcpNext == (\E m \in Mac : FromClient(m)) \/ System

(***************************************************************************)
(* The hub wakes every sleeper, and the reaper's loop never ends.          *)
(***************************************************************************)
DhcpFairness ==
  /\ \A w \in Worker : WF_dhcpVars(WakeClear(w) \/ WakeConflict(w))
  /\ WF_dhcpVars(Reaper)

DhcpSpec == DhcpInit /\ [][DhcpNext]_dhcpVars /\ DhcpFairness

-----------------------------------------------------------------------------
(***************************************************************************)
(* A mark in _probing always has a handler asleep on it.  _arp_probe sets  *)
(* the mark before it sleeps and pops it after, in several greenlets that  *)
(* may share one address; a mark left behind would be flagged by every     *)
(* later ARP reply and never read.                                         *)
(***************************************************************************)
NoOrphanProbe ==
  \A a \in Address : probing[a] # "absent" =>
    \E w \in Worker : handler[w] # None /\ handler[w].ip = a

(***************************************************************************)
(* A search for an address ends, whatever ARP replies arrive meanwhile:    *)
(* each conflict it meets shrinks what it has still to try.                *)
(***************************************************************************)
SearchEnds == \A w \in Worker : handler[w] # None ~> handler[w] = None

(***************************************************************************)
(* A lease that has expired is renewed or taken back: the reaper does not  *)
(* lose one, whatever the handlers write to the table between its passes.  *)
(***************************************************************************)
ExpiredReclaimed ==
  \A m \in Mac : (Holds(m) /\ ~Live(m)) ~> (~Holds(m) \/ Live(m))

(***************************************************************************)
(* A lease goes through its states in order: what is ALLOCATED stays so    *)
(* until it is RELEASED ("PROBING -> OFFERED -> ALLOCATED -> RELEASED").   *)
(* A search that a client's repeated DISCOVER has started is still asleep  *)
(* when the client's REQUEST is acknowledged.                              *)
(***************************************************************************)
LeaseStates == [][
  \A m \in Mac : Holds(m) => lease'[m].state \in {"ALLOCATED", "RELEASED"}]_dhcpVars

\* An address enters the conflict list only after an ARP reply during its
\* probe, or a decline by its client.
ConflictWasSeen ==
  \A a \in Address : conflictLeft'[a] > conflictLeft[a] =>
    probing[a] = "conflict" \/ \E m \in Mac, h \in Names : Decline(m, h)

\* A reply that was seen stays marked until the address is listed.
ConflictIsKept ==
  \A a \in Address : probing[a] = "conflict" =>
    probing'[a] = "conflict" \/ conflictLeft'[a] > 0
=============================================================================
