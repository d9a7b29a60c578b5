------------------------- MODULE DhcpOrderly_proofs -------------------------
(***************************************************************************)
(* With exchanges one at a time the DHCP server implements AddressService, *)
(* for any number of clients and addresses and any timing.                 *)
(*                                                                         *)
(* Two kinds of step matter.  A step Fades when whoever holds an unexpired *)
(* lease after it held it before, at the same address: it maps to Lapse.   *)
(* A step Grants when one client that held nothing is given an address     *)
(* that was leased to nobody: it maps to Grant.  SoleHolder is what shows  *)
(* that every step is one or the other.                                    *)
(***************************************************************************)
EXTENDS DhcpOrderly, DhcpServer_proofs

OrderlyInv ==
  /\ DhcpInv
  /\ SoleHolder
  /\ offered \in Mac \cup {None}

Fades ==
  \A m \in Mac : (Live(m))' => Live(m) /\ lease'[m].ip = lease[m].ip

Grants(m, a) ==
  /\ ~Live(m) /\ LeasedBy(a) = {}
  /\ lease'[m].ip = a
  /\ \A n \in Mac \ {m} : lease'[n] = lease[n]

-----------------------------------------------------------------------------
(* The two kinds of step                                                   *)

LEMMA FadesKeepsFree ==
  ASSUME Fades, NEW a, LeasedBy(a) = {}
  PROVE  (LeasedBy(a))' = {}
BY DEF Fades, LeasedBy

LEMMA FadesKeepsHolders ==
  ASSUME Fades, HoldersDiffer
  PROVE  HoldersDiffer'
BY DEF Fades, HoldersDiffer

LEMMA GrantsKeepsHolders ==
  ASSUME NEW m \in Mac, NEW a \in Address, Grants(m, a), HoldersDiffer
  PROVE  HoldersDiffer'
<1> SUFFICES ASSUME NEW n \in Mac, NEW o \in Mac, n # o,
                    (Live(n))', (Live(o))', lease'[n].ip = lease'[o].ip
             PROVE  FALSE
  BY DEF HoldersDiffer
<1>1. \A p \in Mac \ {m} : (Live(p))' => Live(p) /\ lease[p].ip # a
  BY DEF Grants, LeasedBy, Live, Holds
<1>2. CASE n = m \/ o = m
  BY <1>1, <1>2 DEF Grants
<1>3. CASE n # m /\ o # m
  BY <1>1, <1>3 DEF Grants, HoldersDiffer
<1>4. QED
  BY <1>2, <1>3

\* A step that fades is a lapse of the abstract service.
LEMMA FadesIsLapse ==
  ASSUME Fades
  PROVE  Service!ServiceNext
<1> DEFINE S == {m \in Mac : ~(Live(m))'}
<1>1. heldBy' = [m \in Mac |-> IF m \in S THEN None ELSE heldBy[m]]
  BY DEF Fades, heldBy
<1>2. Service!Lapse(S)
  BY <1>1 DEF Service!Lapse
<1>3. S \in SUBSET Mac
  OBVIOUS
<1>4. QED
  BY <1>2, <1>3 DEF Service!ServiceNext

\* A step that grants is a grant of the abstract service, or the client's
\* time was over before it was given the address.
LEMMA GrantsIsGrant ==
  ASSUME NEW m \in Mac, NEW a \in Address, Grants(m, a)
  PROVE  Service!ServiceNext
<1>1. CASE (Live(m))'
  <2>1. heldBy[m] = None
    BY DEF Grants, heldBy
  <2>2. \A n \in Mac : heldBy[n] # a
    BY DnsAssumption DEF Grants, LeasedBy, heldBy
  <2>3. heldBy' = [heldBy EXCEPT ![m] = a]
    BY <1>1 DEF Grants, heldBy, Live, Holds
  <2>4. Service!Grant(m, a)
    BY <2>1, <2>2, <2>3 DEF Service!Grant
  <2>5. QED
    BY <2>4 DEF Service!ServiceNext
<1>2. CASE ~(Live(m))'
  <2>1. Fades
    BY <1>2 DEF Grants, Fades, Live, Holds
  <2>2. QED
    BY <2>1, FadesIsLapse
<1>3. QED
  BY <1>1, <1>2

-----------------------------------------------------------------------------
(* The steps: each keeps SoleHolder, and fades or grants                   *)

Good == SoleHolder' /\ Service!ServiceNext /\ offered' \in Mac \cup {None}

LEMMA StartExchangeGood ==
  ASSUME OrderlyInv, NEW m \in Mac, StartExchange(m)
  PROVE  Good
<1> USE DEF OrderlyInv
<1>0. 0 \in 0..LeaseTime /\ LeaseTime \in 0..LeaseTime
  BY DhcpAssumption
<1>1. UNCHANGED lease /\ offered' = None /\ ~Holds(m)
  BY DEF StartExchange, Discover, RequestNew
<1>2. Fades
  BY <1>1 DEF Fades, Live, Holds
<1>3. StartSeek("offer", m, 0) \/ StartSeek("ack", m, LeaseTime)
  BY <1>1 DEF StartExchange, Discover, RequestNew
<1>4. PICK w \in Worker :
        /\ \A v \in Worker \ {w} : handler'[v] = handler[v]
        /\ handler'[w] # None =>
             /\ handler'[w].mac = m
             /\ handler'[w].ip \in Unused
             /\ handler'[w].todo \subseteq Unused
  BY <1>0, <1>3, StartSeekHandler
<1>5. \A v \in Worker \ {w} : handler'[v] = None
  BY <1>4 DEF StartExchange, Quiet
<1>6. \A a \in Unused : (LeasedBy(a))' = {}
  BY <1>1 DEF Unused, LeasedBy, Live, Holds
<1>7. SearchIsFree'
  BY <1>1, <1>4, <1>5, <1>6 DEF SearchIsFree, Holds
<1>8. OneSearch' /\ OfferIsFree' /\ HoldersDiffer'
  BY <1>1, <1>2, <1>5, FadesKeepsHolders
     DEF OneSearch, OfferIsFree, SoleHolder
<1>9. QED
  BY <1>1, <1>2, <1>7, <1>8, FadesIsLapse DEF Good, SoleHolder

LEMMA AcceptOfferGood ==
  ASSUME OrderlyInv, NEW m \in Mac, AcceptOffer(m)
  PROVE  Good
<1> USE DEF OrderlyInv
<1>1. PICK req \in Requests, h \in Names : Confirm(m, req, h)
  BY DEF AcceptOffer
<1>2. lease[m].state = "OFFERED" /\ lease[m].ip \in Address
  BY <1>1 DEF Confirm, DhcpInv, TypeOK, Lease
<1>3. LeasedBy(lease[m].ip) = {}
  BY <1>2, DhcpAssumption DEF AcceptOffer, SoleHolder, OfferIsFree
<1>4. Grants(m, lease[m].ip)
  BY <1>1, <1>2, <1>3
     DEF Grants, Confirm, Allocate, Live, Holds, DhcpInv, TypeOK
<1>5. handler' = handler /\ Quiet /\ offered' = None
  BY <1>1 DEF AcceptOffer, Confirm, probeVars
<1>6. SearchIsFree' /\ OneSearch' /\ OfferIsFree'
  BY <1>5 DEF Quiet, SearchIsFree, OneSearch, OfferIsFree
<1>7. HoldersDiffer'
  BY <1>2, <1>4, GrantsKeepsHolders DEF SoleHolder
<1>8. QED
  BY <1>2, <1>4, <1>5, <1>6, <1>7, GrantsIsGrant DEF Good, SoleHolder

\* Steps that fade, start no search and make no offer.
LEMMA FadesGood ==
  ASSUME OrderlyInv, Fades, UNCHANGED offered,
         \A w \in Worker : handler'[w] # None =>
           /\ handler[w] # None
           /\ handler'[w].mac = handler[w].mac
           /\ handler'[w].ip \in handler[w].todo \cup {handler[w].ip}
           /\ handler'[w].todo \subseteq handler[w].todo,
         \A m \in Mac : /\ (Holds(m))' => Holds(m)
                        /\ lease'[m].state = "OFFERED" =>
                             lease[m].state = "OFFERED" /\ lease'[m].ip = lease[m].ip
  PROVE  Good
<1> USE DEF OrderlyInv
<1>1. SearchIsFree'
  <2> SUFFICES ASSUME NEW w \in Worker, handler'[w] # None
               PROVE  /\ offered = None
                      /\ ~(Holds(handler[w].mac))'
                      /\ \A a \in handler'[w].todo \cup {handler'[w].ip} :
                           (LeasedBy(a))' = {}
    BY DEF SearchIsFree, Holds
  <2>1. handler[w] # None /\ handler[w].mac \in Mac
    BY DEF DhcpInv, TypeOK, Handler
  <2>2. /\ offered = None /\ ~Holds(handler[w].mac)
        /\ \A a \in handler[w].todo \cup {handler[w].ip} : LeasedBy(a) = {}
    BY <2>1 DEF SoleHolder, SearchIsFree
  <2>3. QED
    BY <2>1, <2>2, FadesKeepsFree
<1>2. OneSearch'
  BY DEF SoleHolder, OneSearch
<1>3. OfferIsFree'
  BY FadesKeepsFree DEF SoleHolder, OfferIsFree
<1>4. QED
  BY <1>1, <1>2, <1>3, FadesIsLapse, FadesKeepsHolders DEF Good, SoleHolder

LEMMA KeepOrLeaveGood ==
  ASSUME OrderlyInv, NEW m \in Mac, KeepOrLeave(m)
  PROVE  Good
<1> USE DEF OrderlyInv
<1>1. UNCHANGED <<handler, offered>>
  BY DEF KeepOrLeave, Discover, Renew, Nak, Release, Decline, probeVars
<1>2. /\ Fades
      /\ \A n \in Mac : /\ (Holds(n))' => Holds(n)
                        /\ lease'[n].state = "OFFERED" =>
                             lease[n].state = "OFFERED" /\ lease'[n].ip = lease[n].ip
  <2>1. CASE UNCHANGED lease
    BY <2>1 DEF Fades, Live, Holds
  <2>2. ASSUME NEW req \in Requests, NEW h \in Names, Live(m), Renew(m, req, h)
        PROVE  \A n \in Mac : /\ lease'[n].ip = lease[n].ip
                              /\ lease'[n].state = lease[n].state
                              /\ n # m => lease'[n] = lease[n]
    BY <2>2 DEF Renew, DhcpInv, TypeOK, Lease
  <2>3. CASE \E req \in Requests, h \in Names : Live(m) /\ Renew(m, req, h)
    BY <2>2, <2>3 DEF Fades, Live, Holds
  <2>4. CASE \E h \in Names : ReleaseLeases({m}, Learned(m, h))
    BY <2>4 DEF ReleaseLeases, Fades, Live, Holds
  <2>5. QED
    BY <2>1, <2>3, <2>4 DEF KeepOrLeave, Discover, Nak, Release, Decline
<1>3. QED
  BY <1>1, <1>2, FadesGood

LEMMA SearchSucceedsGood ==
  ASSUME OrderlyInv, NEW w \in Worker, SearchSucceeds(w)
  PROVE  Good
<1> USE DEF OrderlyInv
<1> DEFINE me == handler[w]
<1>1. /\ me # None /\ me \in Handler
      /\ me.mac \in Mac /\ me.ip \in Address /\ me.kind \in {"offer", "ack"}
  BY DEF SearchSucceeds, WakeClear, DhcpInv, TypeOK, Handler
<1>2. ~Holds(me.mac) /\ LeasedBy(me.ip) = {}
  BY <1>1 DEF SoleHolder, SearchIsFree
<1>3. \A v \in Worker : handler'[v] = None
  BY <1>1 DEF SearchSucceeds, WakeClear, SoleHolder, OneSearch, DhcpInv, TypeOK
<1>4. SearchIsFree' /\ OneSearch'
  BY <1>3 DEF SearchIsFree, OneSearch
<1>5. CASE me.kind = "offer"
  <2>1. /\ lease' = [lease EXCEPT ![me.mac] =
                       [state |-> "OFFERED", ip |-> me.ip, ttl |-> 0]]
        /\ offered' = me.mac
    BY <1>5 DEF SearchSucceeds, WakeClear
  <2>2. Fades
    BY <1>1, <2>1 DEF Fades, Live, Holds, DhcpInv, TypeOK
  <2>3. lease'[me.mac].ip = me.ip
    BY <1>1, <2>1 DEF DhcpInv, TypeOK
  <2>4. OfferIsFree'
    BY <1>2, <2>1, <2>2, <2>3, FadesKeepsFree DEF OfferIsFree
  <2>5. QED
    BY <1>1, <1>4, <2>1, <2>2, <2>4, FadesIsLapse, FadesKeepsHolders
       DEF Good, SoleHolder
<1>6. CASE me.kind = "ack"
  <2>1. Allocate(me.mac, me.ip, me.left, hostname[me.mac]) /\ offered' = None
    BY <1>6 DEF SearchSucceeds, WakeClear
  <2>2. Grants(me.mac, me.ip)
    BY <1>1, <1>2, <2>1 DEF Grants, Allocate, Live, Holds, DhcpInv, TypeOK
  <2>3. OfferIsFree'
    BY <2>1 DEF OfferIsFree
  <2>4. QED
    BY <1>1, <1>4, <2>1, <2>2, <2>3, GrantsIsGrant, GrantsKeepsHolders
       DEF Good, SoleHolder
<1>7. QED
  BY <1>1, <1>5, <1>6

LEMMA BackgroundGood ==
  ASSUME OrderlyInv, Background
  PROVE  Good
<1> USE DEF OrderlyInv
<1>1. UNCHANGED offered
  BY DEF Background
<1>2. ASSUME NEW w \in Worker, WakeConflict(w)
      PROVE  Good
  <2>1. UNCHANGED lease
    BY <1>2 DEF WakeConflict, tableVars
  <2>2. /\ handler[w] # None
        /\ \A v \in Worker \ {w} : handler'[v] = handler[v]
        /\ handler'[w] # None =>
             /\ handler'[w].mac = handler[w].mac
             /\ handler'[w].ip \in handler[w].todo
             /\ handler'[w].todo \subseteq handler[w].todo
    BY <1>2, WakeConflictHandler DEF WakeConflict
  <2>3. Fades /\ \A m \in Mac : (Holds(m))' => Holds(m)
    BY <2>1 DEF Fades, Live, Holds
  <2>4. QED
    BY <1>1, <2>1, <2>2, <2>3, FadesGood
<1>3. ASSUME NEW a \in Address, ArpReply(a)
      PROVE  Good
  <2>1. UNCHANGED <<lease, handler>>
    BY <1>3 DEF ArpReply, tableVars
  <2>2. Fades /\ \A m \in Mac : (Holds(m))' => Holds(m)
    BY <2>1 DEF Fades, Live, Holds
  <2>3. QED
    BY <1>1, <2>1, <2>2, FadesGood
<1>4. ASSUME Reaper
      PROVE  Good
  <2> DEFINE expired == {m \in Mac : Holds(m) /\ ~Live(m)}
  <2>1. ReleaseLeases(expired, hostname) /\ UNCHANGED handler
    BY <1>4 DEF Reaper, probeVars
  <2>2. \A m \in Mac :
          \/ lease'[m] = lease[m]
          \/ lease'[m].state = "RELEASED"
    BY <2>1 DEF ReleaseLeases
  <2>3. /\ Fades
        /\ \A m \in Mac : /\ (Holds(m))' => Holds(m)
                          /\ lease'[m].state = "OFFERED" =>
                               lease[m].state = "OFFERED" /\ lease'[m].ip = lease[m].ip
    BY <2>2 DEF Fades, Live, Holds
  <2>4. QED
    BY <1>1, <2>1, <2>3, FadesGood
<1>5. ASSUME Tick
      PROVE  Good
  <2>1. /\ \A w \in Worker :
             /\ handler[w] = None => handler'[w] = None
             /\ handler[w] # None =>
                  /\ handler'[w].mac = handler[w].mac
                  /\ handler'[w].ip = handler[w].ip
                  /\ handler'[w].todo = handler[w].todo
        /\ \A m \in Mac : /\ lease'[m].state = lease[m].state
                          /\ lease'[m].ip = lease[m].ip
                          /\ lease'[m].ttl = Less(lease[m].ttl)
    BY <1>5, TickKeeps
  <2>2. \A m \in Mac : lease[m].ttl \in Nat
    BY DhcpAssumption DEF DhcpInv, TypeOK, Lease
  <2>3. Fades
    <3> SUFFICES ASSUME NEW m \in Mac, (Live(m))'
                 PROVE  Live(m) /\ lease'[m].ip = lease[m].ip
      BY DEF Fades
    <3>1. Holds(m) /\ lease'[m].ttl > 0
      BY <2>1 DEF Live, Holds
    <3>2. Less(lease[m].ttl) > 0
      BY <2>1, <3>1
    <3>3. lease[m].ttl > 0
      BY <2>2, <3>2 DEF Less
    <3>4. QED
      BY <2>1, <3>1, <3>3 DEF Live
  <2>4. \A m \in Mac : (Holds(m))' => Holds(m)
    BY <2>1 DEF Holds
  <2>5. QED
    BY <1>1, <2>1, <2>3, <2>4, FadesGood
<1>6. QED
  BY <1>2, <1>3, <1>4, <1>5 DEF Background

-----------------------------------------------------------------------------
(* The theorems                                                            *)

LEMMA OrderlyIsDhcp == OrderlyNext => DhcpNext
BY DEF OrderlyNext, StartExchange, AcceptOffer, KeepOrLeave, SearchSucceeds,
       Background, DhcpNext, FromClient, Request, System

LEMMA NextOrderly ==
  ASSUME OrderlyInv, [OrderlyNext]_orderlyVars
  PROVE  OrderlyInv' /\ [Service!ServiceNext]_heldBy
<1>1. CASE UNCHANGED orderlyVars
  <2>1. UNCHANGED <<lease, handler, offered>> /\ UNCHANGED dhcpVars
    BY <1>1 DEF orderlyVars, dhcpVars, tableVars, probeVars
  <2>2. DhcpInv'
    BY <2>1, NextDhcpInv DEF OrderlyInv
  <2>3. SoleHolder'
    BY <2>1 DEF OrderlyInv, SoleHolder, SearchIsFree, OfferIsFree, OneSearch,
                HoldersDiffer, LeasedBy, Live, Holds
  <2>4. UNCHANGED heldBy
    BY <2>1 DEF heldBy, Live, Holds
  <2>5. QED
    BY <2>1, <2>2, <2>3, <2>4 DEF OrderlyInv
<1>2. CASE OrderlyNext
  <2>1. DhcpInv'
    BY <1>2, OrderlyIsDhcp, NextDhcpInv DEF OrderlyInv
  <2>2. Good
    BY <1>2, StartExchangeGood, AcceptOfferGood, KeepOrLeaveGood,
       SearchSucceedsGood, BackgroundGood DEF OrderlyNext
  <2>3. QED
    BY <2>1, <2>2 DEF Good, OrderlyInv
<1>3. QED
  BY <1>1, <1>2

LEMMA InitOrderly == OrderlyInit => OrderlyInv /\ Service!ServiceInit
<1> SUFFICES ASSUME OrderlyInit
             PROVE  OrderlyInv /\ Service!ServiceInit
  OBVIOUS
<1>1. DhcpInv /\ offered = None
  BY InitDhcpInv DEF OrderlyInit
<1>2. \A m \in Mac : ~Live(m)
  BY DEF OrderlyInit, DhcpInit, Live, Holds
<1>3. SoleHolder
  BY <1>1, <1>2 DEF OrderlyInit, DhcpInit, SoleHolder, SearchIsFree,
                    OfferIsFree, OneSearch, HoldersDiffer
<1>4. Service!ServiceInit
  BY <1>2 DEF Service!ServiceInit, heldBy
<1>5. QED
  BY <1>1, <1>3, <1>4 DEF OrderlyInv

\* Unexpired leases have different addresses, and so does the latest offer.
THEOREM HoldersAreAlone == OrderlySpec => []SoleHolder
<1>1. OrderlyInv /\ [OrderlyNext]_orderlyVars => OrderlyInv'
  BY NextOrderly
<1>2. OrderlyInv => SoleHolder
  BY DEF OrderlyInv
<1>3. OrderlyInit => OrderlyInv
  BY InitOrderly
<1>4. QED
  BY <1>1, <1>2, <1>3, PTL DEF OrderlySpec

\* The DHCP server, used in an orderly way, implements AddressService.
THEOREM DhcpImplementsService == OrderlySpec => ImplementsService
<1>1. OrderlyInv /\ [OrderlyNext]_orderlyVars => OrderlyInv'
  BY NextOrderly
<1>2. OrderlyInv /\ [OrderlyNext]_orderlyVars => [Service!ServiceNext]_heldBy
  BY NextOrderly
<1>3. OrderlyInit => OrderlyInv /\ Service!ServiceInit
  BY InitOrderly
<1>4. QED
  BY <1>1, <1>2, <1>3, PTL
     DEF OrderlySpec, ImplementsService, Service!ServiceSpec

-----------------------------------------------------------------------------
(* What the DNS tells                                                      *)

LEMMA ToldIsLookup ==
  ASSUME NEW name, NEW type, type \in {"A", "PTR"}
  PROVE  Told(name, type) =
           {Lookup([name |-> name, type |-> type, class |-> "IN"])} \ {None}
<1> DEFINE q == [name |-> name, type |-> type, class |-> "IN"]
           answer == [place |-> 1, owner |-> name, type |-> type, data |-> Lookup(q)]
<1> HIDE DEF answer
<1>1. Query(name, type).questions = <<q>> /\ DOMAIN <<q>> = {1} /\ <<q>>[1] = q
  BY DEF Query
<1>2. Answers(<<q>>) = IF Lookup(q) = None THEN {} ELSE {answer}
  BY <1>1 DEF Answers, answer
<1>3. answer.owner = name /\ answer.type = type /\ answer.data = Lookup(q)
      /\ [answer EXCEPT !.owner = name] = answer
  BY DEF answer
<1>4. SubSeq(<<q>>, 1, 1)[1] = q
  BY Z3
<1>5. Response(Query(name, type)) = BuildResponse(SubSeq(<<q>>, 1, 1), Answers(<<q>>))
  BY <1>1 DEF Response, Query
<1>6. Response(Query(name, type)).answers = Answers(<<q>>)
  <2>1. Response(Query(name, type)).answers
          = {[x EXCEPT !.owner = name] : x \in Answers(<<q>>)}
    BY <1>4, <1>5 DEF BuildResponse
  <2> QED
    BY <1>2, <1>3, <2>1
<1> QED
  BY <1>2, <1>3, <1>6 DEF Told

LEMMA ToldReverse ==
  ASSUME NEW a \in Address
  PROVE  Told(Arpa(a), "PTR") = {ipToHostname[a]} \ {None}
<1>1. Arpa(a) \notin Hostname /\ Arpa(a)[2] = a
  BY NamesAssumption DEF Arpa
<1> QED
  BY <1>1, ToldIsLookup DEF Lookup

LEMMA ToldForward ==
  ASSUME NEW h \in Hostname
  PROVE  Told(h, "A") = {records[h]} \ {None}
BY ToldIsLookup DEF Lookup

(***************************************************************************)
(* ReverseThenForward: whatever leases come and go, the two queries of a   *)
(* client that checks an address by its name agree.                        *)
(***************************************************************************)
THEOREM LookupsAgree == OrderlySpec => []ReverseThenForward
<1>1. OrderlyInv /\ [OrderlyNext]_orderlyVars => OrderlyInv'
  BY NextOrderly
<1>2. OrderlyInv => ReverseThenForward
  <2> SUFFICES ASSUME OrderlyInv, NEW a \in Address, NEW h \in Told(Arpa(a), "PTR")
               PROVE  Told(h, "A") = {a}
    BY DEF ReverseThenForward
  <2>1. h = ipToHostname[a] /\ h # None
    BY ToldReverse
  <2>2. h \in Hostname /\ records[h] = a
    BY <2>1 DEF OrderlyInv, DhcpInv, TypeOK, DnsTypeOK, PtrConfirmedByA
  <2> QED
    BY <2>2, ToldForward, DnsAssumption
<1>3. OrderlyInit => OrderlyInv
  BY InitOrderly
<1>4. QED
  BY <1>1, <1>2, <1>3, PTL DEF OrderlySpec

(***************************************************************************)
(* A PTR record has a lease: allocation adds both, and takes no address    *)
(* from its client, which holds none; release removes both.                *)
(***************************************************************************)
NamesLeased ==
  \A a \in Address :
    ipToHostname[a] # None => \E m \in Mac : Holds(m) /\ lease[m].ip = a

LEMMA SameLeasesSameNames ==
  ASSUME NamesLeased, UNCHANGED dnsVars,
         \A m \in Mac : Holds(m) => (Holds(m))' /\ lease'[m].ip = lease[m].ip
  PROVE  NamesLeased'
BY DEF NamesLeased, dnsVars

LEMMA ReleaseUnnames ==
  ASSUME OrderlyInv, NamesLeased, NEW S \in SUBSET Mac, NEW names, ReleaseLeases(S, names)
  PROVE  NamesLeased'
<1> SUFFICES ASSUME NEW a \in Address, ipToHostname'[a] # None
             PROVE  \E m \in Mac : (Holds(m))' /\ lease'[m].ip = a
  BY DEF NamesLeased
<1>1. a \notin {lease[m].ip : m \in S} /\ ipToHostname[a] # None
  BY DEF ReleaseLeases, RemoveByIp
<1>2. PICK m \in Mac : Holds(m) /\ lease[m].ip = a
  BY <1>1 DEF NamesLeased
<1>3. m \notin S
  BY <1>1, <1>2
<1>4. lease'[m] = lease[m]
  BY <1>3 DEF ReleaseLeases
<1> QED
  BY <1>2, <1>4 DEF Holds

LEMMA AllocateNames ==
  ASSUME OrderlyInv, NamesLeased, NEW m \in Mac, ~Holds(m), NEW a \in Address,
         NEW left, NEW name, Allocate(m, a, left, name)
  PROVE  NamesLeased'
<1> SUFFICES ASSUME NEW b \in Address, ipToHostname'[b] # None
             PROVE  \E n \in Mac : (Holds(n))' /\ lease'[n].ip = b
  BY DEF NamesLeased
<1>1. lease'[m] = [state |-> "ALLOCATED", ip |-> a, ttl |-> left]
  BY DEF Allocate, OrderlyInv, DhcpInv, TypeOK
<1>2. CASE b = a
  BY <1>1, <1>2 DEF Holds
<1>3. CASE b # a
  <2>1. ipToHostname[b] # None
    BY <1>3 DEF Allocate, Register, dnsVars, AddRecord
  <2>2. PICK n \in Mac : Holds(n) /\ lease[n].ip = b
    BY <2>1 DEF NamesLeased
  <2>3. n # m /\ lease'[n] = lease[n]
    BY <2>2 DEF Allocate, OrderlyInv, DhcpInv, TypeOK
  <2> QED
    BY <2>2, <2>3 DEF Holds
<1> QED
  BY <1>2, <1>3

LEMMA RenewNames ==
  ASSUME OrderlyInv, NamesLeased, NEW m \in Mac, NEW req, NEW h, Renew(m, req, h)
  PROVE  NamesLeased'
<1> SUFFICES ASSUME NEW b \in Address, ipToHostname'[b] # None
             PROVE  \E n \in Mac : (Holds(n))' /\ lease'[n].ip = b
  BY DEF NamesLeased
<1>1. \A n \in Mac : lease'[n].state = lease[n].state /\ lease'[n].ip = lease[n].ip
  BY DEF Renew, OrderlyInv, DhcpInv, TypeOK, Lease
<1>2. CASE b = lease[m].ip
  BY <1>1, <1>2 DEF Renew, Holds
<1>3. CASE b # lease[m].ip
  <2>1. ipToHostname[b] # None
    BY <1>3 DEF Renew, Register, dnsVars, AddRecord
  <2> QED
    BY <1>1, <2>1 DEF NamesLeased, Holds
<1> QED
  BY <1>2, <1>3

LEMMA NextNames ==
  ASSUME OrderlyInv, NamesLeased, [OrderlyNext]_orderlyVars
  PROVE  NamesLeased'
<1>1. CASE UNCHANGED <<lease, dnsVars>>
  BY <1>1, SameLeasesSameNames DEF Holds
<1>2. ASSUME NEW S \in SUBSET Mac, NEW names, ReleaseLeases(S, names) PROVE NamesLeased'
  BY <1>2, ReleaseUnnames
<1>3. ASSUME NEW m \in Mac, StartExchange(m) PROVE NamesLeased'
  BY <1>1, <1>3 DEF StartExchange, Discover, RequestNew
<1>4. ASSUME NEW m \in Mac, AcceptOffer(m) PROVE NamesLeased'
  <2>1. PICK req \in Requests, h \in Names : Confirm(m, req, h)
    BY <1>4 DEF AcceptOffer
  <2>2. ~Holds(m) /\ lease[m].ip \in Address
    BY <2>1 DEF Confirm, Holds, OrderlyInv, DhcpInv, TypeOK, Lease
  <2> QED
    BY <2>1, <2>2, AllocateNames DEF Confirm
<1>5. ASSUME NEW m \in Mac, KeepOrLeave(m) PROVE NamesLeased'
  <2>1. CASE \E h \in Names : Holds(m) /\ Discover(m, h)
    BY <1>1, <2>1 DEF Discover
  <2>2. CASE \E h \in Names, req \in Requests : Renew(m, req, h)
    BY <2>2, RenewNames
  <2>3. CASE \E h \in Names, req \in Requests : Nak(m, req, h)
    BY <1>1, <2>3 DEF Nak
  <2>4. CASE \E h \in Names : Release(m, h) \/ Decline(m, h)
    BY <1>1, <1>2, <2>4 DEF Release, Decline
  <2> QED
    BY <1>5, <2>1, <2>2, <2>3, <2>4 DEF KeepOrLeave
<1>6. ASSUME NEW w \in Worker, SearchSucceeds(w) PROVE NamesLeased'
  <2> DEFINE me == handler[w]
  <2>1. me # None /\ me \in Handler /\ me.mac \in Mac /\ me.ip \in Address
    BY <1>6 DEF SearchSucceeds, WakeClear, OrderlyInv, DhcpInv, TypeOK, Handler
  <2>2. ~Holds(me.mac)
    BY <2>1 DEF OrderlyInv, SoleHolder, SearchIsFree
  <2>3. CASE me.kind = "offer"
    <3>1. /\ UNCHANGED dnsVars
          /\ \A n \in Mac \ {me.mac} : lease'[n] = lease[n]
      BY <1>6, <2>1, <2>3 DEF SearchSucceeds, WakeClear, OrderlyInv, DhcpInv, TypeOK
    <3> QED
      BY <2>2, <3>1, SameLeasesSameNames DEF Holds
  <2>4. CASE me.kind = "ack"
    BY <1>6, <2>1, <2>2, <2>4, AllocateNames DEF SearchSucceeds, WakeClear
  <2> QED
    BY <1>6, <2>3, <2>4 DEF SearchSucceeds, WakeClear
<1>7. CASE Background
  <2>1. CASE Reaper
    BY <1>2, <2>1 DEF Reaper
  <2>2. CASE Tick
    <3>1. UNCHANGED dnsVars
      BY <2>2 DEF Tick
    <3>2. \A m \in Mac : lease'[m].state = lease[m].state /\ lease'[m].ip = lease[m].ip
      BY <2>2, TickKeeps DEF OrderlyInv
    <3> QED
      BY <3>1, <3>2, SameLeasesSameNames DEF Holds
  <2> QED
    BY <1>1, <1>7, <2>1, <2>2 DEF Background, WakeConflict, ArpReply, tableVars, dnsVars
<1> QED
  BY <1>1, <1>3, <1>4, <1>5, <1>6, <1>7
     DEF OrderlyNext, orderlyVars, dhcpVars, tableVars, dnsVars

(***************************************************************************)
(* ReverseOfLease: an address that is not leased has no name.              *)
(***************************************************************************)
THEOREM NamesHaveLeases == OrderlySpec => []ReverseOfLease
<1>1. OrderlyInv /\ [OrderlyNext]_orderlyVars => OrderlyInv'
  BY NextOrderly
<1>2. OrderlyInv /\ NamesLeased /\ [OrderlyNext]_orderlyVars => NamesLeased'
  BY NextNames
<1>3. OrderlyInit => OrderlyInv /\ NamesLeased
  BY InitOrderly DEF OrderlyInit, DhcpInit, DnsInit, NamesLeased
<1>4. NamesLeased => ReverseOfLease
  BY ToldReverse DEF NamesLeased, ReverseOfLease
<1>5. QED
  BY <1>1, <1>2, <1>3, <1>4, PTL DEF OrderlySpec

-----------------------------------------------------------------------------
(* What probes find                                                        *)

\* The mark of an address is there as long as its probe sleeps.
MarksKept == \A w \in Worker : handler[w] # None => probing[handler[w].ip] # "absent"

VerdictInv == OrderlyInv /\ NoOrphanProbe /\ MarksKept

Verdict == ConflictWasSeen /\ ConflictIsKept

\* The marks that a search leaves.
LEMMA SeekMarks ==
  ASSUME NEW w, NEW kind, NEW m, NEW todo, NEW left, NEW listed,
         NEW marks \in [Address -> {"absent", "clear", "conflict"}], todo \subseteq Address,
         Seek(w, kind, m, todo, left, listed, marks), w \in DOMAIN handler
  PROVE  /\ conflictLeft' = listed
         /\ handler'[w] # None => probing'[handler'[w].ip] = "clear"
         /\ \A a \in Address : listed[a] # 0 => probing'[a] = marks[a]
BY DEF Seek

\* One that starts when all is quiet finds no mark.
LEMMA StartSeekVerdict ==
  ASSUME VerdictInv, Quiet, NEW kind, NEW m, NEW left, StartSeek(kind, m, left)
  PROVE  MarksKept' /\ Verdict
<1>1. PICK w \in Worker : Seek(w, kind, m, Unused, left, conflictLeft, probing)
  BY DEF StartSeek
<1>2. /\ probing \in [Address -> {"absent", "clear", "conflict"}] /\ w \in DOMAIN handler
      /\ conflictLeft \in [Address -> 0..ConflictTTL + 1] /\ ConflictTTL \in Nat
      /\ Unused \subseteq Address
  BY DhcpAssumption DEF VerdictInv, OrderlyInv, DhcpInv, TypeOK, Unused
<1>3. /\ conflictLeft' = conflictLeft
      /\ handler'[w] # None => probing'[handler'[w].ip] = "clear"
  BY <1>1, <1>2, SeekMarks
<1>4. \A v \in Worker \ {w} : handler'[v] = None
  BY <1>1, <1>2 DEF Seek, Quiet, VerdictInv, OrderlyInv, DhcpInv, TypeOK
<1>5. \A a \in Address : probing[a] = "absent"
  BY DEF Quiet, VerdictInv, NoOrphanProbe
<1>6. \A a \in Address : ~(conflictLeft'[a] > conflictLeft[a])
  BY <1>2, <1>3
<1> QED
  BY <1>3, <1>4, <1>5, <1>6 DEF MarksKept, Verdict, ConflictWasSeen, ConflictIsKept

\* A conflict that is found: the only mark there is was of this probe.
LEMMA WakeConflictVerdict ==
  ASSUME VerdictInv, NEW w \in Worker, WakeConflict(w)
  PROVE  MarksKept' /\ Verdict
<1> DEFINE me == handler[w]
           listed == [conflictLeft EXCEPT ![me.ip] = ConflictTTL + 1 - me.probeAge]
           marks == [probing EXCEPT ![me.ip] = "absent"]
<1>1. me # None /\ me \in Handler /\ probing[me.ip] # "clear"
  BY DEF WakeConflict, VerdictInv, OrderlyInv, DhcpInv, TypeOK
<1>2. me.ip \in Address /\ me.todo \subseteq Address /\ me.probeAge \in 0..ProbeTicks
  BY <1>1 DEF Handler
<1>3. Seek(w, me.kind, me.mac, me.todo, me.left, listed, marks)
  BY DEF WakeConflict
<1>4. /\ probing \in [Address -> {"absent", "clear", "conflict"}] /\ w \in DOMAIN handler
      /\ conflictLeft \in [Address -> 0..ConflictTTL + 1]
  BY DEF VerdictInv, OrderlyInv, DhcpInv, TypeOK
<1>5. marks \in [Address -> {"absent", "clear", "conflict"}] /\ marks[me.ip] = "absent"
  BY <1>2, <1>4
<1>6. ConflictTTL \in Nat /\ ProbeTicks \in 0..ConflictTTL
  BY DhcpAssumption
<1>7. ConflictTTL + 1 - me.probeAge > 0
  BY <1>2, <1>6
<1>8. /\ listed[me.ip] = ConflictTTL + 1 - me.probeAge
      /\ \A a \in Address : a # me.ip => listed[a] = conflictLeft[a]
  BY <1>2, <1>4
<1>9. probing[me.ip] = "conflict"
  BY <1>1, <1>2, <1>4 DEF VerdictInv, MarksKept
<1>10. \A v \in Worker \ {w} : handler[v] = None
  BY <1>1 DEF VerdictInv, OrderlyInv, SoleHolder, OneSearch
<1>11. \A a \in Address : probing[a] # "absent" => a = me.ip
  BY <1>10 DEF VerdictInv, NoOrphanProbe
<1> HIDE DEF listed, marks
<1>12. /\ conflictLeft' = listed
       /\ handler'[w] # None => probing'[handler'[w].ip] = "clear"
  BY <1>2, <1>3, <1>4, <1>5, SeekMarks
<1>13. \A v \in Worker \ {w} : handler'[v] = None
  BY <1>10, WakeConflictHandler DEF VerdictInv, OrderlyInv
<1>14. \A a \in Address : conflictLeft'[a] > conflictLeft[a] => a = me.ip
  BY <1>4, <1>6, <1>8, <1>12
<1>15. conflictLeft'[me.ip] > 0
  BY <1>7, <1>8, <1>12
<1> QED
  BY <1>9, <1>11, <1>12, <1>13, <1>14, <1>15 DEF MarksKept, Verdict, ConflictWasSeen, ConflictIsKept

LEMMA NextVerdict ==
  ASSUME VerdictInv, [OrderlyNext]_orderlyVars
  PROVE  MarksKept' /\ Verdict
<1>1. /\ probing \in [Address -> {"absent", "clear", "conflict"}]
      /\ conflictLeft \in [Address -> 0..ConflictTTL + 1] /\ ConflictTTL \in Nat
      /\ handler \in [Worker -> Handler \cup {None}]
  BY DhcpAssumption DEF VerdictInv, OrderlyInv, DhcpInv, TypeOK
<1>2. CASE UNCHANGED probeVars
  <2>1. \A a \in Address : ~(conflictLeft'[a] > conflictLeft[a])
    BY <1>1, <1>2 DEF probeVars
  <2> QED
    BY <1>2, <2>1 DEF probeVars, VerdictInv, MarksKept, Verdict, ConflictWasSeen, ConflictIsKept
<1>3. ASSUME NEW m \in Mac, NEW h \in Names, Decline(m, h) PROVE MarksKept' /\ Verdict
  BY <1>3 DEF Decline, VerdictInv, MarksKept, Verdict, ConflictWasSeen, ConflictIsKept
<1>4. ASSUME NEW m \in Mac, StartExchange(m) PROVE MarksKept' /\ Verdict
  BY <1>4, StartSeekVerdict DEF StartExchange, Discover, RequestNew
<1>5. ASSUME NEW m \in Mac, AcceptOffer(m) PROVE UNCHANGED probeVars
  BY <1>5 DEF AcceptOffer, Confirm
<1>6. ASSUME NEW m \in Mac, KeepOrLeave(m) PROVE MarksKept' /\ Verdict
  BY <1>2, <1>3, <1>6 DEF KeepOrLeave, Discover, Renew, Nak, Release
<1>7. ASSUME NEW w \in Worker, SearchSucceeds(w) PROVE MarksKept' /\ Verdict
  <2> DEFINE me == handler[w]
  <2>1. /\ me # None /\ me \in Handler /\ me.ip \in Address /\ probing[me.ip] = "clear"
        /\ probing' = [probing EXCEPT ![me.ip] = "absent"]
        /\ handler' = [handler EXCEPT ![w] = None] /\ conflictLeft' = conflictLeft
    BY <1>1, <1>7 DEF SearchSucceeds, WakeClear, Handler
  <2>2. \A v \in Worker : handler'[v] = None
    BY <1>1, <2>1 DEF VerdictInv, OrderlyInv, SoleHolder, OneSearch
  <2>3. \A a \in Address : probing[a] = "conflict" => probing'[a] = "conflict"
    BY <1>1, <2>1
  <2>4. \A a \in Address : ~(conflictLeft'[a] > conflictLeft[a])
    BY <1>1, <2>1
  <2> QED
    BY <2>2, <2>3, <2>4 DEF MarksKept, Verdict, ConflictWasSeen, ConflictIsKept
<1>8. CASE Background
  <2>1. ASSUME NEW a \in Address, ArpReply(a) PROVE MarksKept' /\ Verdict
    <3>1. \A b \in Address : ~(conflictLeft'[b] > conflictLeft[b])
      BY <1>1, <2>1 DEF ArpReply
    <3>2. \A b \in Address : /\ probing[b] # "absent" => probing'[b] # "absent"
                             /\ probing[b] = "conflict" => probing'[b] = "conflict"
      BY <1>1, <2>1 DEF ArpReply
    <3>3. \A v \in Worker : handler[v] # None => handler[v].ip \in Address
      BY <1>1 DEF Handler
    <3> QED
      BY <2>1, <3>1, <3>2, <3>3 DEF ArpReply, VerdictInv, MarksKept, Verdict, ConflictWasSeen, ConflictIsKept
  <2>2. CASE Tick
    <3>1. \A v \in Worker : handler'[v] # None =>
            handler[v] # None /\ handler'[v].ip = handler[v].ip
      <4> SUFFICES ASSUME NEW v \in Worker, handler'[v] # None
                   PROVE  handler[v] # None /\ handler'[v].ip = handler[v].ip
        OBVIOUS
      <4>1. handler[v] # None
        BY <2>2 DEF Tick
      <4>2. handler[v] \in Handler /\ handler[v].probeAge < ProbeTicks
        BY <1>1, <2>2, <4>1 DEF Tick
      <4> QED
        BY <2>2, <4>1, <4>2, AgedHandler DEF Tick
    <3>2. ASSUME NEW a \in Address PROVE ~(conflictLeft'[a] > conflictLeft[a])
      <4>1. conflictLeft'[a] = Less(conflictLeft[a])
        BY <2>2 DEF Tick
      <4>2. conflictLeft[a] \in 0..ConflictTTL + 1
        BY <1>1
      <4>3. conflictLeft[a] \in Nat
        BY <1>1, <4>2
      <4> QED
        BY <4>1, <4>3 DEF Less
    <3>3. probing' = probing
      BY <2>2 DEF Tick
    <3> QED
      BY <3>1, <3>2, <3>3 DEF VerdictInv, MarksKept, Verdict, ConflictWasSeen, ConflictIsKept
  <2> QED
    BY <1>2, <1>8, <2>1, <2>2, WakeConflictVerdict DEF Background, Reaper
<1> QED
  BY <1>2, <1>4, <1>5, <1>6, <1>7, <1>8 DEF OrderlyNext, orderlyVars, dhcpVars

(***************************************************************************)
(* ProbeVerdictSound: exchanges being one at a time, an address is listed  *)
(* as in conflict for a reply that was seen while it was probed, or for a  *)
(* decline, and a reply that was seen is not forgotten before.             *)
(***************************************************************************)
THEOREM VerdictsAreSound == OrderlySpec => ProbeVerdictSound
<1>1. OrderlyInit => VerdictInv
  BY InitOrderly DEF OrderlyInit, DhcpInit, VerdictInv, NoOrphanProbe, MarksKept
<1>2. VerdictInv /\ [OrderlyNext]_orderlyVars => VerdictInv'
  <2> SUFFICES ASSUME VerdictInv, [OrderlyNext]_orderlyVars PROVE VerdictInv'
    OBVIOUS
  <2>1. [DhcpNext]_dhcpVars
    BY OrderlyIsDhcp DEF orderlyVars
  <2>2. NoOrphanProbe'
    BY <2>1, NextNoOrphan DEF VerdictInv, OrderlyInv
  <2>3. OrderlyInv' /\ MarksKept'
    BY NextOrderly, NextVerdict DEF VerdictInv
  <2> QED
    BY <2>2, <2>3 DEF VerdictInv
<1>3. VerdictInv /\ [OrderlyNext]_orderlyVars => Verdict
  BY NextVerdict
<1> QED
  BY <1>1, <1>2, <1>3, PTL DEF OrderlySpec, ProbeVerdictSound, Verdict, ConflictWasSeen, ConflictIsKept
=============================================================================
