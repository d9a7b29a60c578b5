-------------------------- MODULE DhcpPolite_proofs --------------------------
(***************************************************************************)
(* With one packet per client in the handlers at a time: ip_to_mac never   *)
(* outlives the lease it was written for, and no search writes over a      *)
(* running lease.                                                          *)
(*                                                                         *)
(* Neither is inductive.  What is: a client whose search is asleep holds   *)
(* no lease, and no two searches are for one client, so that the lease a   *)
(* search writes when it wakes replaces nothing.                           *)
(***************************************************************************)
EXTENDS DhcpPolite, DhcpServer_proofs

SearcherHoldsNothing ==
  \A w \in Worker : handler[w] # None => ~Holds(handler[w].mac)

OneSearchPerClient ==
  \A v, w \in Worker :
    /\ handler[v] # None /\ handler[w] # None
    /\ handler[v].mac = handler[w].mac
    => v = w

PoliteInv ==
  /\ DhcpInv
  /\ IndexSound
  /\ SearcherHoldsNothing
  /\ OneSearchPerClient

-----------------------------------------------------------------------------
\* A step that changes no handler and gives nobody a lease.
LEMMA HandlersAsBefore ==
  ASSUME PoliteInv, UNCHANGED handler,
         \A w \in Worker :
           handler[w] # None /\ (Holds(handler[w].mac))' => Holds(handler[w].mac)
  PROVE  SearcherHoldsNothing' /\ OneSearchPerClient'
BY DEF PoliteInv, SearcherHoldsNothing, OneSearchPerClient, Holds

\* A search begins for a client that has no other and holds no lease.
LEMMA SearchBegins ==
  ASSUME PoliteInv, NEW kind \in {"offer", "ack"}, NEW m \in Mac,
         NEW left \in 0..LeaseTime,
         StartSeek(kind, m, left), ~Busy(m), ~Holds(m), UNCHANGED lease
  PROVE  SearcherHoldsNothing' /\ OneSearchPerClient'
<1>1. PICK w \in Worker :
        /\ handler[w] = None
        /\ \A v \in Worker \ {w} : handler'[v] = handler[v]
        /\ handler'[w] # None => handler'[w].mac = m
  BY StartSeekHandler DEF PoliteInv
<1>2. \A v \in Worker : handler[v] # None => handler[v].mac # m
  BY DEF Busy
<1>3. QED
  BY <1>1, <1>2
     DEF PoliteInv, SearcherHoldsNothing, OneSearchPerClient, Holds

\* The index survives when leases and index are as they were.
LEMMA IndexAsBefore ==
  ASSUME IndexSound, UNCHANGED ipToMac,
         \A m \in Mac : Holds(m) =>
           lease'[m].state = "ALLOCATED" /\ lease'[m].ip = lease[m].ip,
         TypeOK
  PROVE  IndexSound'
BY DEF IndexSound, Holds, TypeOK

\* _release_lease takes the index entries of the released addresses with it.
LEMMA IndexAfterRelease ==
  ASSUME IndexSound, TypeOK, NEW S \in SUBSET Mac,
         NEW names, ReleaseLeases(S, names)
  PROVE  IndexSound'
<1> SUFFICES ASSUME NEW a \in Address, ipToMac'[a] # None
             PROVE  /\ lease'[ipToMac'[a]].state = "ALLOCATED"
                    /\ lease'[ipToMac'[a]].ip = a
  BY DEF IndexSound
<1>1. /\ a \notin {lease[m].ip : m \in S}
      /\ ipToMac'[a] = ipToMac[a]
  BY DEF ReleaseLeases
<1>2. /\ ipToMac[a] \in Mac
      /\ lease[ipToMac[a]].state = "ALLOCATED" /\ lease[ipToMac[a]].ip = a
  BY <1>1 DEF IndexSound, TypeOK
<1>3. ipToMac[a] \notin S
  BY <1>1, <1>2
<1>4. QED
  BY <1>1, <1>2, <1>3 DEF ReleaseLeases

\* A client that held nothing is given an address.
LEMMA IndexAfterAllocate ==
  ASSUME IndexSound, TypeOK, NEW m \in Mac, NEW a \in Address, NEW left,
         NEW name, ~Holds(m), Allocate(m, a, left, name)
  PROVE  IndexSound'
<1> SUFFICES ASSUME NEW b \in Address, ipToMac'[b] # None
             PROVE  /\ lease'[ipToMac'[b]].state = "ALLOCATED"
                    /\ lease'[ipToMac'[b]].ip = b
  BY DEF IndexSound
<1>1. CASE b = a
  BY <1>1 DEF Allocate, TypeOK
<1>2. CASE b # a
  <2>1. /\ ipToMac'[b] = ipToMac[b] /\ ipToMac[b] \in Mac
        /\ lease[ipToMac[b]].state = "ALLOCATED" /\ lease[ipToMac[b]].ip = b
    BY <1>2 DEF Allocate, IndexSound, TypeOK
  <2>2. ipToMac[b] # m
    BY <2>1 DEF Holds
  <2>3. QED
    BY <2>1, <2>2 DEF Allocate, TypeOK
<1>3. QED
  BY <1>1, <1>2

-----------------------------------------------------------------------------
(* The steps                                                               *)

\* What a message of client m does to the index and to the searches.
LEMMA PoliteClientKeeps ==
  ASSUME PoliteInv, NEW m \in Mac, ~Busy(m), FromClient(m)
  PROVE  IndexSound' /\ SearcherHoldsNothing' /\ OneSearchPerClient'
<1> USE DEF PoliteInv, DhcpInv
<1>0. 0 \in 0..LeaseTime /\ LeaseTime \in 0..LeaseTime
  BY DhcpAssumption
<1>1. \A w \in Worker : handler[w] # None =>
        handler[w].mac # m /\ handler[w].mac \in Mac
  BY DEF Busy, TypeOK, Handler
<1>2. ASSUME NEW h \in Names, Discover(m, h) \/ RequestNew(m, h)
      PROVE  IndexSound' /\ SearcherHoldsNothing' /\ OneSearchPerClient'
  <2>1. IndexSound' /\ UNCHANGED lease
    BY <1>2, IndexAsBefore DEF Discover, RequestNew, Holds
  <2>2. CASE UNCHANGED probeVars
    BY <2>1, <2>2, HandlersAsBefore DEF probeVars, Holds
  <2>3. CASE ~Holds(m) /\ StartSeek("offer", m, 0)
    BY <1>0, <2>1, <2>3, SearchBegins
  <2>4. CASE ~Holds(m) /\ StartSeek("ack", m, LeaseTime)
    BY <1>0, <2>1, <2>4, SearchBegins
  <2>5. QED
    BY <1>2, <2>2, <2>3, <2>4 DEF Discover, RequestNew, Holds
<1>3. ASSUME NEW h \in Names, NEW req \in Requests,
             Nak(m, req, h) \/ Renew(m, req, h)
      PROVE  IndexSound' /\ SearcherHoldsNothing' /\ OneSearchPerClient'
  <2>1. \A n \in Mac : lease'[n].state = lease[n].state /\ lease'[n].ip = lease[n].ip
    BY <1>3 DEF Nak, Renew, TypeOK, Lease
  <2>2. UNCHANGED <<handler, ipToMac>>
    BY <1>3 DEF Nak, Renew, probeVars
  <2>3. QED
    BY <1>1, <2>1, <2>2, IndexAsBefore, HandlersAsBefore DEF Holds
<1>4. ASSUME NEW h \in Names, NEW req \in Requests, Confirm(m, req, h)
      PROVE  IndexSound' /\ SearcherHoldsNothing' /\ OneSearchPerClient'
  <2>1. lease[m].ip \in Address /\ ~Holds(m)
    BY <1>4 DEF Confirm, Holds, TypeOK, Lease
  <2>2. IndexSound'
    BY <1>4, <2>1, IndexAfterAllocate DEF Confirm
  <2>3. \A n \in Mac : n # m => lease'[n] = lease[n]
    BY <1>4 DEF Confirm, Allocate, TypeOK
  <2>4. UNCHANGED handler
    BY <1>4 DEF Confirm, probeVars
  <2>5. QED
    BY <1>1, <2>2, <2>3, <2>4, HandlersAsBefore DEF Holds
<1>5. ASSUME NEW h \in Names, Release(m, h) \/ Decline(m, h)
      PROVE  IndexSound' /\ SearcherHoldsNothing' /\ OneSearchPerClient'
  <2>1. UNCHANGED handler
    BY <1>5 DEF Release, Decline, probeVars
  <2>2. CASE UNCHANGED <<lease, ipToMac>>
    BY <2>1, <2>2, IndexAsBefore, HandlersAsBefore DEF Holds
  <2>3. CASE ReleaseLeases({m}, Learned(m, h))
    <3>1. IndexSound'
      BY <2>3, IndexAfterRelease
    <3>2. \A n \in Mac : n # m => lease'[n] = lease[n]
      BY <2>3 DEF ReleaseLeases
    <3>3. QED
      BY <1>1, <2>1, <3>1, <3>2, HandlersAsBefore DEF Holds
  <2>4. QED
    BY <1>5, <2>2, <2>3 DEF Release, Decline
<1>6. QED
  BY <1>2, <1>3, <1>4, <1>5 DEF FromClient, Request

LEMMA PoliteSystemKeeps ==
  ASSUME PoliteInv, System
  PROVE  IndexSound' /\ SearcherHoldsNothing' /\ OneSearchPerClient'
<1> USE DEF PoliteInv, DhcpInv
<1>1. ASSUME NEW w \in Worker, WakeClear(w)
      PROVE  IndexSound' /\ SearcherHoldsNothing' /\ OneSearchPerClient'
  <2> DEFINE me == handler[w]
  <2>1. me # None /\ me \in Handler /\ ~Holds(me.mac)
    BY <1>1 DEF WakeClear, TypeOK, SearcherHoldsNothing
  <2>2. me.mac \in Mac /\ me.ip \in Address
    BY <2>1 DEF Handler
  <2>3. IndexSound'
    <3>1. CASE /\ lease' = [lease EXCEPT ![me.mac] =
                     [state |-> "OFFERED", ip |-> me.ip, ttl |-> 0]]
               /\ UNCHANGED ipToMac
      BY <2>1, <2>2, <3>1, IndexAsBefore DEF Holds, TypeOK
    <3>2. CASE Allocate(me.mac, me.ip, me.left, hostname[me.mac])
      BY <2>1, <2>2, <3>2, IndexAfterAllocate
    <3>3. QED
      BY <1>1, <3>1, <3>2 DEF WakeClear
  <2>4. /\ handler'[w] = None
        /\ \A v \in Worker \ {w} : handler'[v] = handler[v]
    BY <1>1 DEF WakeClear, TypeOK
  <2>5. \A n \in Mac \ {me.mac} : lease'[n] = lease[n]
    BY <1>1, <2>2 DEF WakeClear, Allocate, TypeOK
  <2>6. \A v \in Worker \ {w} : handler[v] # None =>
          handler[v].mac \in Mac \ {me.mac}
    BY <2>1 DEF OneSearchPerClient, TypeOK, Handler
  <2>7. SearcherHoldsNothing' /\ OneSearchPerClient'
    BY <2>4, <2>5, <2>6 DEF SearcherHoldsNothing, OneSearchPerClient, Holds
  <2>8. QED
    BY <2>3, <2>7
<1>2. ASSUME NEW w \in Worker, WakeConflict(w)
      PROVE  IndexSound' /\ SearcherHoldsNothing' /\ OneSearchPerClient'
  <2>1. UNCHANGED <<lease, ipToMac>> /\ handler[w] # None
    BY <1>2 DEF WakeConflict, tableVars
  <2>2. /\ \A v \in Worker \ {w} : handler'[v] = handler[v]
        /\ handler'[w] # None => handler'[w].mac = handler[w].mac
    BY <1>2, WakeConflictHandler
  <2>3. QED
    BY <2>1, <2>2, IndexAsBefore
       DEF SearcherHoldsNothing, OneSearchPerClient, Holds
<1>3. ASSUME NEW a \in Address, ArpReply(a)
      PROVE  IndexSound' /\ SearcherHoldsNothing' /\ OneSearchPerClient'
  BY <1>3, IndexAsBefore, HandlersAsBefore DEF ArpReply, tableVars, Holds
<1>4. ASSUME Reaper
      PROVE  IndexSound' /\ SearcherHoldsNothing' /\ OneSearchPerClient'
  <2> DEFINE expired == {m \in Mac : Holds(m) /\ ~Live(m)}
  <2>1. ReleaseLeases(expired, hostname) /\ UNCHANGED handler
    BY <1>4 DEF Reaper, probeVars
  <2>2. IndexSound'
    BY <2>1, IndexAfterRelease
  <2>3. \A m \in Mac : (Holds(m))' => Holds(m)
    BY <2>1 DEF ReleaseLeases, Holds
  <2>4. \A w \in Worker : handler[w] # None => handler[w].mac \in Mac
    BY DEF TypeOK, Handler
  <2>5. QED
    BY <2>1, <2>2, <2>3, <2>4, HandlersAsBefore
<1>5. ASSUME Tick
      PROVE  IndexSound' /\ SearcherHoldsNothing' /\ OneSearchPerClient'
  <2>1. /\ \A w \in Worker :
             /\ handler[w] = None => handler'[w] = None
             /\ handler[w] # None => handler'[w].mac = handler[w].mac
        /\ \A m \in Mac : /\ lease'[m].state = lease[m].state
                          /\ lease'[m].ip = lease[m].ip
    BY <1>5, TickKeeps
  <2>2. \A w \in Worker : handler[w] # None => handler[w].mac \in Mac
    BY DEF TypeOK, Handler
  <2>3. IndexSound'
    BY <1>5, <2>1, IndexAsBefore DEF Tick, Holds
  <2>4. QED
    BY <2>1, <2>2, <2>3 DEF SearcherHoldsNothing, OneSearchPerClient, Holds
<1>6. QED
  BY <1>1, <1>2, <1>3, <1>4, <1>5 DEF System

LEMMA PoliteIsDhcp == [PoliteNext]_dhcpVars => [DhcpNext]_dhcpVars
BY DEF PoliteNext, DhcpNext

LEMMA NextPoliteInv ==
  ASSUME PoliteInv, [PoliteNext]_dhcpVars
  PROVE  PoliteInv'
<1>1. DhcpInv'
  BY PoliteIsDhcp, NextDhcpInv DEF PoliteInv
<1>2. IndexSound' /\ SearcherHoldsNothing' /\ OneSearchPerClient'
  <2>1. CASE UNCHANGED dhcpVars
    BY <2>1 DEF dhcpVars, tableVars, probeVars, PoliteInv, IndexSound,
                SearcherHoldsNothing, OneSearchPerClient, Holds
  <2>2. QED
    BY <2>1, PoliteClientKeeps, PoliteSystemKeeps DEF PoliteNext
<1>3. QED
  BY <1>1, <1>2 DEF PoliteInv

LEMMA InitPoliteInv == DhcpInit => PoliteInv
BY InitDhcpInv
   DEF DhcpInit, PoliteInv, IndexSound, SearcherHoldsNothing, OneSearchPerClient

-----------------------------------------------------------------------------
\* An entry of ip_to_mac never outlives the lease it was written for.
THEOREM IndexNeverStale == PoliteSpec => []IndexSound
<1>1. PoliteInv /\ [PoliteNext]_dhcpVars => PoliteInv'
  BY NextPoliteInv
<1>2. PoliteInv => IndexSound
  BY DEF PoliteInv
<1>3. QED
  BY <1>1, <1>2, InitPoliteInv, PTL DEF PoliteSpec

\* What one step may do to a running lease.
LEMMA StepKeepsLease ==
  ASSUME PoliteInv, PoliteNext, NEW m \in Mac, Live(m)
  PROVE  \/ lease'[m].state = "ALLOCATED" /\ lease'[m].ip = lease[m].ip
         \/ \E h \in Names : Release(m, h) \/ Decline(m, h)
<1> USE DEF PoliteInv, DhcpInv
<1> DEFINE Kept == lease'[m].state = "ALLOCATED" /\ lease'[m].ip = lease[m].ip
           Left == \E h \in Names : Release(m, h) \/ Decline(m, h)
<1>0. lease[m].state = "ALLOCATED" /\ lease[m] \in Lease
  BY DEF Live, Holds, TypeOK
<1>1. ASSUME NEW n \in Mac, FromClient(n)
      PROVE  Kept \/ Left
  <2>1. ASSUME NEW h \in Names, Discover(n, h) \/ RequestNew(n, h)
        PROVE  Kept
    BY <1>0, <2>1 DEF Discover, RequestNew
  <2>2. ASSUME NEW h \in Names, NEW req \in Requests,
               Nak(n, req, h) \/ Renew(n, req, h)
        PROVE  Kept
    BY <1>0, <2>2 DEF Nak, Renew, TypeOK, Lease
  <2>3. ASSUME NEW h \in Names, NEW req \in Requests, Confirm(n, req, h)
        PROVE  Kept
    BY <1>0, <2>3 DEF Confirm, Allocate, TypeOK
  <2>4. ASSUME NEW h \in Names, Release(n, h) \/ Decline(n, h)
        PROVE  Kept \/ Left
    BY <1>0, <2>4 DEF Release, Decline, ReleaseLeases
  <2>5. QED
    BY <1>1, <2>1, <2>2, <2>3, <2>4 DEF FromClient, Request
<1>2. ASSUME NEW w \in Worker, WakeClear(w)
      PROVE  Kept
  <2>1. handler[w] # None /\ handler[w].mac \in Mac /\ ~Holds(handler[w].mac)
    BY <1>2 DEF WakeClear, TypeOK, Handler, SearcherHoldsNothing
  <2>2. handler[w].mac # m
    BY <1>0, <2>1 DEF Holds
  <2>3. QED
    BY <1>0, <1>2, <2>1, <2>2 DEF WakeClear, Allocate, TypeOK
<1>3. ASSUME NEW w \in Worker, WakeConflict(w)
      PROVE  Kept
  BY <1>0, <1>3 DEF WakeConflict, tableVars
<1>4. ASSUME NEW a \in Address, ArpReply(a)
      PROVE  Kept
  BY <1>0, <1>4 DEF ArpReply, tableVars
<1>5. ASSUME Reaper
      PROVE  Kept
  BY <1>0, <1>5 DEF Reaper, ReleaseLeases
<1>6. ASSUME Tick
      PROVE  Kept
  BY <1>0, <1>6, TickKeeps
<1>7. QED
  BY <1>1, <1>2, <1>3, <1>4, <1>5, <1>6 DEF PoliteNext, System

\* A running lease keeps its address until its client leaves or its time ends.
THEOREM RunningLeaseIsStable == PoliteSpec => LeaseStable
<1>1. PoliteInv /\ [PoliteNext]_dhcpVars => PoliteInv'
  BY NextPoliteInv
<1>2. PoliteInv /\ [PoliteNext]_dhcpVars =>
        [\A m \in Mac : Live(m) =>
           \/ lease'[m].state = "ALLOCATED" /\ lease'[m].ip = lease[m].ip
           \/ \E h \in Names : Release(m, h) \/ Decline(m, h)]_dhcpVars
  BY StepKeepsLease
<1>3. QED
  BY <1>1, <1>2, InitPoliteInv, PTL DEF PoliteSpec, LeaseStable
=============================================================================
