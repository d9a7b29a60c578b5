---------------------------- MODULE DhcpOrderly -----------------------------
(***************************************************************************)
(* DHCPServer when the exchanges that assign an address come one at a      *)
(* time: a client that holds no address starts one (DISCOVER, or REQUEST   *)
(* without an offer) only while no search is under way, it accepts only an *)
(* offer it was sent and that no later exchange has overtaken, and it      *)
(* renews a lease only before it expires.  Renewals, releases, declines,   *)
(* ARP replies, the reaper and the clock interleave freely with searches.  *)
(*                                                                         *)
(* Under this discipline the server implements AddressService; DhcpPolite  *)
(* shows that without it the server does not.                              *)
(***************************************************************************)
EXTENDS DhcpServer, DnsResponder

VARIABLE offered    \* the client whose offer is the latest, or None

orderlyVars == <<dhcpVars, offered>>

Quiet == \A w \in Worker : handler[w] = None

StartExchange(m) ==
  /\ Quiet
  /\ ~Holds(m)
  /\ \E h \in Names : Discover(m, h) \/ RequestNew(m, h)
  /\ offered' = None

AcceptOffer(m) ==
  /\ Quiet
  /\ offered = m
  /\ \E req \in Requests, h \in Names : Confirm(m, req, h)
  /\ offered' = None

KeepOrLeave(m) ==
  /\ ~Busy(m)
  /\ \E h \in Names :
       \/ Holds(m) /\ Discover(m, h)
       \/ Live(m) /\ \E req \in Requests : Renew(m, req, h)
       \/ \E req \in Requests : Nak(m, req, h)
       \/ Release(m, h)
       \/ Decline(m, h)
  /\ UNCHANGED offered

SearchSucceeds(w) ==
  /\ WakeClear(w)
  /\ offered' = IF handler[w].kind = "offer" THEN handler[w].mac ELSE None

Background ==
  /\ \/ \E w \in Worker : WakeConflict(w)
     \/ \E a \in Address : ArpReply(a)
     \/ Reaper
     \/ Tick
  /\ UNCHANGED offered

OrderlyInit == DhcpInit /\ offered = None

OrderlyNext ==
  \/ \E m \in Mac : StartExchange(m) \/ AcceptOffer(m) \/ KeepOrLeave(m)
  \/ \E w \in Worker : SearchSucceeds(w)
  \/ Background

OrderlySpec == OrderlyInit /\ [][OrderlyNext]_orderlyVars

-----------------------------------------------------------------------------
(***************************************************************************)
(* The server implements AddressService, a client holding the address of   *)
(* its unexpired lease: nobody is granted an address another holds, and    *)
(* no client's address changes under it.                                   *)
(***************************************************************************)
heldBy == [m \in Mac |-> IF Live(m) THEN lease[m].ip ELSE None]

Service == INSTANCE AddressService WITH Client <- Mac, holds <- heldBy

ImplementsService == Service!ServiceSpec

(***************************************************************************)
(* What makes the service work: while a search is under way the address it *)
(* probes and those it has still to try are leased to nobody, and its      *)
(* client holds no lease; the address of the latest offer is leased to     *)
(* nobody; unexpired leases have different addresses.                      *)
(***************************************************************************)
LeasedBy(a) == {m \in Mac : Live(m) /\ lease[m].ip = a}

SearchIsFree ==
  \A w \in Worker : handler[w] # None =>
    /\ offered = None
    /\ ~Holds(handler[w].mac)
    /\ \A a \in handler[w].todo \cup {handler[w].ip} : LeasedBy(a) = {}

OfferIsFree ==
  offered # None /\ lease[offered].state = "OFFERED" =>
    LeasedBy(lease[offered].ip) = {}

OneSearch ==
  \A v, w \in Worker : handler[v] # None /\ handler[w] # None => v = w

HoldersDiffer ==
  \A m, n \in Mac : Live(m) /\ Live(n) /\ lease[m].ip = lease[n].ip => m = n

SoleHolder == SearchIsFree /\ OfferIsFree /\ OneSearch /\ HoldersDiffer

(***************************************************************************)
(* The verdict of a probe is what was seen on the wire: an address is      *)
(* listed only for a conflict that was seen, and a conflict that was seen  *)
(* is kept until the address is listed (_arp_probe "returns True if IP is  *)
(* free, False if a conflict was detected").  Two searches that probe one  *)
(* address, which this specification excludes, break both halves: the      *)
(* second clears the first one's mark, or finds its own popped.            *)
(***************************************************************************)
ProbeVerdictSound == [][ConflictWasSeen /\ ConflictIsKept]_orderlyVars

(***************************************************************************)
(* The DNS names an address only while some client has a lease of it, one  *)
(* that has expired and waits for the reaper included: the PTR record goes *)
(* with the lease, by release, decline or expiry.  It says nothing of the  *)
(* name, which may be an earlier client's, nor of what a name resolves to  *)
(* (NameResolvesToLease).                                                  *)
(***************************************************************************)
ReverseOfLease ==
  \A a \in Address :
    Told(Arpa(a), "PTR") # {} => \E m \in Mac : Holds(m) /\ lease[m].ip = a

(***************************************************************************)
(* A name resolves only to an address that is leased: releasing an address *)
(* removes its records.                                                    *)
(***************************************************************************)
NameResolvesToLease ==
  \A h \in Hostname : records[h] # None =>
    \E m \in Mac : Holds(m) /\ lease[m].ip = records[h]
=============================================================================
