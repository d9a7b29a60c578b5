-------------------------- MODULE DhcpServer_proofs --------------------------
(***************************************************************************)
(* For any clients, addresses, names, greenlets and timings: the DNS table *)
(* keeps its types and every PTR record is confirmed by an A record, by    *)
(* itself and under everything the DHCP server does to it; the types of    *)
(* DhcpServer; and that no probe mark is left behind.                      *)
(***************************************************************************)
EXTENDS DhcpServer, TLAPS

-----------------------------------------------------------------------------
(* The record table (DnsRecords)                                           *)

DnsInv == DnsTypeOK /\ PtrConfirmedByA

(***************************************************************************)
(* The three operations of the table preserve DnsInv.  They are lemmas     *)
(* about the operators, so that DHCPServer's proofs can cite them.         *)
(***************************************************************************)
LEMMA AddRecordKeeps ==
  ASSUME NEW h \in Hostname, NEW a \in Address, DnsInv, AddRecord(h, a)
  PROVE  DnsInv'
<1> USE DnsAssumption DEF DnsInv, DnsTypeOK, AddRecord
<1>1. DnsTypeOK'
  OBVIOUS
<1>2. PtrConfirmedByA'
  <2> SUFFICES ASSUME NEW b \in Address, ipToHostname'[b] # None
               PROVE  records'[ipToHostname'[b]] = b
    BY DEF PtrConfirmedByA
  <2>1. CASE b = a
    BY <2>1
  <2>2. CASE b # a
    <3>1. ipToHostname'[b] = ipToHostname[b] /\ ipToHostname[b] \in Hostname
      BY <2>2
    <3>2. ipToHostname[b] # h
      BY <2>2, <3>1 DEF PtrConfirmedByA
    <3>3. QED
      BY <3>1, <3>2 DEF PtrConfirmedByA
  <2>3. QED
    BY <2>1, <2>2
<1>3. QED
  BY <1>1, <1>2

LEMMA RemoveByIpKeeps ==
  ASSUME NEW S \in SUBSET Address, DnsInv, RemoveByIp(S)
  PROVE  DnsInv'
<1> USE DnsAssumption DEF DnsInv, DnsTypeOK, RemoveByIp
<1>1. DnsTypeOK'
  OBVIOUS
<1>2. PtrConfirmedByA'
  <2> SUFFICES ASSUME NEW b \in Address, ipToHostname'[b] # None
               PROVE  records'[ipToHostname'[b]] = b
    BY DEF PtrConfirmedByA
  <2>1. b \notin S /\ ipToHostname'[b] = ipToHostname[b]
    OBVIOUS
  <2>2. records[ipToHostname[b]] = b
    BY <2>1 DEF PtrConfirmedByA
  <2>3. QED
    BY <2>1, <2>2
<1>3. QED
  BY <1>1, <1>2

LEMMA RemoveByNameKeeps ==
  ASSUME NEW h \in Hostname, DnsInv, RemoveByName(h)
  PROVE  DnsInv'
<1> USE DnsAssumption DEF DnsInv, DnsTypeOK, RemoveByName
<1>1. DnsTypeOK'
  OBVIOUS
<1>2. PtrConfirmedByA'
  <2> SUFFICES ASSUME NEW b \in Address, ipToHostname'[b] # None
               PROVE  records'[ipToHostname'[b]] = b
    BY DEF PtrConfirmedByA
  <2>1. ipToHostname'[b] = ipToHostname[b] /\ ipToHostname[b] \in Hostname
    OBVIOUS
  <2>2. ipToHostname[b] # h
    BY <2>1 DEF PtrConfirmedByA
  <2>3. QED
    BY <2>1, <2>2 DEF PtrConfirmedByA
<1>3. QED
  BY <1>1, <1>2

(***************************************************************************)
(* Whatever sequence of add_record and remove_record calls is made, every  *)
(* PTR record is confirmed by an A record.                                 *)
(***************************************************************************)
THEOREM DnsTablesAgree == DnsSpec => []PtrConfirmedByA
<1>1. DnsInit => DnsInv
  BY DnsAssumption DEF DnsInit, DnsInv, DnsTypeOK, PtrConfirmedByA
<1>2. DnsInv /\ [DnsNext]_dnsVars => DnsInv'
  <2> SUFFICES ASSUME DnsInv, [DnsNext]_dnsVars
               PROVE  DnsInv'
    OBVIOUS
  <2>1. ASSUME NEW h \in Hostname, NEW a \in Address, AddRecord(h, a)
        PROVE  DnsInv'
    BY <2>1, AddRecordKeeps
  <2>2. ASSUME NEW h \in Hostname, RemoveByName(h)
        PROVE  DnsInv'
    BY <2>2, RemoveByNameKeeps
  <2>3. ASSUME NEW a \in Address, RemoveByIp({a})
        PROVE  DnsInv'
    BY <2>3, RemoveByIpKeeps
  <2>4. CASE UNCHANGED dnsVars
    BY <2>4 DEF dnsVars, DnsInv, DnsTypeOK, PtrConfirmedByA
  <2>5. QED
    BY <2>1, <2>2, <2>3, <2>4 DEF DnsNext
<1>3. DnsInv => PtrConfirmedByA
  BY DEF DnsInv
<1>4. QED
  BY <1>1, <1>2, <1>3, PTL DEF DnsSpec

-----------------------------------------------------------------------------
(* The server's invariant                                                  *)

DhcpInv == TypeOK /\ PtrConfirmedByA

-----------------------------------------------------------------------------
(* Lemmas about the helpers                                                *)

\* Noting a client's name keeps mac_to_hostname a map from MACs to names.
LEMMA LearnedType ==
  ASSUME TypeOK, NEW m \in Mac, NEW h \in Names
  PROVE  Learned(m, h) \in [Mac -> Hostname \cup {None}]
BY DEF TypeOK, Learned, Names

\* What the clock does to a count, to a lease and to a sleeping handler.
LEMMA LessType ==
  ASSUME NEW N \in Nat, NEW n \in 0..N
  PROVE  Less(n) \in 0..N
BY DEF Less

LEMMA AgedLease ==
  ASSUME NEW r \in Lease
  PROVE  LET s == [r EXCEPT !.ttl = Less(r.ttl)]
         IN  s \in Lease /\ s.ip = r.ip /\ s.state = r.state
<1>1. Less(r.ttl) \in 0..LeaseTime
  BY DhcpAssumption, LessType DEF Lease
<1>2. QED
  BY <1>1 DEF Lease

LEMMA AgedHandler ==
  ASSUME NEW r \in Handler, r.probeAge < ProbeTicks
  PROVE  LET s == [r EXCEPT !.probeAge = r.probeAge + 1, !.left = Less(r.left)]
         IN  s \in Handler /\ s # None /\ s.ip = r.ip /\ s.mac = r.mac
             /\ s.todo = r.todo /\ s.kind = r.kind
<1> DEFINE s == [r EXCEPT !.probeAge = r.probeAge + 1, !.left = Less(r.left)]
<1>1. Less(r.left) \in 0..LeaseTime
  BY DhcpAssumption, LessType DEF Handler
<1>2. r.probeAge + 1 \in 0..ProbeTicks
  BY DhcpAssumption DEF Handler
<1>3. s \in Handler
  BY <1>1, <1>2 DEF Handler
<1>4. s.ip = r.ip /\ s.mac = r.mac /\ s.todo = r.todo /\ s.kind = r.kind
  BY DEF Handler
<1>5. QED
  BY <1>3, <1>4, DhcpAssumption

\* The time an address spends on the conflict list after a probe.
LEMMA ListedType ==
  ASSUME DhcpInv, NEW r \in Handler
  PROVE  [conflictLeft EXCEPT ![r.ip] = ConflictTTL + 1 - r.probeAge]
           \in [Address -> 0..ConflictTTL + 1]
<1>1. r.probeAge \in 0..ProbeTicks
  BY DEF Handler
<1>2. ConflictTTL + 1 - r.probeAge \in 0..ConflictTTL + 1
  BY <1>1, DhcpAssumption
<1>3. QED
  BY <1>2 DEF DhcpInv, TypeOK

\* Registering an optional name for an address keeps the DNS tables right.
LEMMA RegisterKeeps ==
  ASSUME DnsInv, NEW name \in Hostname \cup {None}, NEW a \in Address,
         Register(name, a)
  PROVE  DnsInv'
<1>1. CASE name = None
  BY <1>1 DEF Register, dnsVars, DnsInv, DnsTypeOK, PtrConfirmedByA
<1>2. CASE name # None
  <2>1. name \in Hostname /\ AddRecord(name, a)
    BY <1>2 DEF Register
  <2>2. QED
    BY <2>1, AddRecordKeeps
<1>3. QED
  BY <1>1, <1>2

\* _release_lease of clients that are in mac_to_lease.
LEMMA ReleaseKeeps ==
  ASSUME DhcpInv,
         NEW S \in SUBSET Mac, \A m \in S : Known(m),
         NEW names \in [Mac -> Hostname \cup {None}],
         ReleaseLeases(S, names)
  PROVE  /\ DnsInv'
         /\ lease' \in [Mac -> Lease]
         /\ \A m \in Mac : lease'[m].ip = None => lease'[m].state = "NONE"
         /\ ipToMac' \in [Address -> Mac \cup {None}]
         /\ hostname' \in [Mac -> Hostname \cup {None}]
<1> DEFINE gone == {lease[m].ip : m \in S}
<1>1. \A m \in S : lease[m].ip \in Address
  BY DEF DhcpInv, TypeOK, Known, Lease
<1>2. gone \in SUBSET Address
  BY <1>1
<1>3. DnsInv'
  BY <1>2, RemoveByIpKeeps DEF ReleaseLeases, DhcpInv, TypeOK, DnsInv
<1>4. \A m \in Mac :
        /\ lease'[m] = IF m \in S
             THEN [state |-> "RELEASED", ip |-> lease[m].ip, ttl |-> 0]
             ELSE lease[m]
        /\ lease'[m] \in Lease
        /\ lease'[m].ip = None => lease'[m].state = "NONE"
  BY <1>1, DnsAssumption, DhcpAssumption
     DEF ReleaseLeases, DhcpInv, TypeOK, Lease
<1>5. lease' \in [Mac -> Lease]
  BY <1>4 DEF ReleaseLeases
<1>6. ipToMac' \in [Address -> Mac \cup {None}]
  BY DEF ReleaseLeases, DhcpInv, TypeOK
<1>7. hostname' \in [Mac -> Hostname \cup {None}]
  BY DEF ReleaseLeases
<1>8. QED
  BY <1>3, <1>4, <1>5, <1>6, <1>7

\* Entering an acknowledged address.
LEMMA AllocateKeeps ==
  ASSUME DhcpInv, NEW m \in Mac, NEW a \in Address, NEW left \in 0..LeaseTime,
         NEW name \in Hostname \cup {None}, Allocate(m, a, left, name)
  PROVE  /\ DnsInv'
         /\ lease' \in [Mac -> Lease]
         /\ \A n \in Mac : lease'[n].ip = None => lease'[n].state = "NONE"
         /\ ipToMac' \in [Address -> Mac \cup {None}]
<1>1. DnsInv'
  BY RegisterKeeps DEF Allocate, DhcpInv, TypeOK, DnsInv
<1>2. [state |-> "ALLOCATED", ip |-> a, ttl |-> left] \in Lease
  BY DEF Lease
<1>3. lease' \in [Mac -> Lease]
  BY <1>2 DEF Allocate, DhcpInv, TypeOK
<1>4. \A n \in Mac : lease'[n].ip = None => lease'[n].state = "NONE"
  BY DnsAssumption DEF Allocate, DhcpInv, TypeOK
<1>5. ipToMac' \in [Address -> Mac \cup {None}]
  BY DEF Allocate, DhcpInv, TypeOK
<1>6. QED
  BY <1>1, <1>3, <1>4, <1>5

\* The search loop: what it writes, and where the marks it leaves belong.
LEMMA SeekKeeps ==
  ASSUME DhcpInv, NEW w \in Worker, NEW kind \in {"offer", "ack"},
         NEW m \in Mac, NEW todo \in SUBSET Address, NEW left \in 0..LeaseTime,
         NEW listed \in [Address -> 0..ConflictTTL + 1],
         NEW marks \in [Address -> {"absent", "clear", "conflict"}],
         Seek(w, kind, m, todo, left, listed, marks)
  PROVE  /\ probing' \in [Address -> {"absent", "clear", "conflict"}]
         /\ conflictLeft' \in [Address -> 0..ConflictTTL + 1]
         /\ handler' \in [Worker -> Handler \cup {None}]
         /\ \A v \in Worker \ {w} : handler'[v] = handler[v]
         /\ \A a \in Address : probing'[a] # marks[a] =>
              handler'[w] # None /\ handler'[w].ip = a
<1> DEFINE free == {a \in todo : listed[a] = 0}
<1>1. CASE /\ handler' = [handler EXCEPT ![w] = None]
           /\ probing' = marks
  BY <1>1 DEF Seek, DhcpInv, TypeOK
<1>2. ASSUME NEW a \in free,
             handler' = [handler EXCEPT ![w] =
               [kind |-> kind, mac |-> m, ip |-> a,
                todo |-> {b \in todo : b > a},
                left |-> left, probeAge |-> 0]],
             probing' = [marks EXCEPT ![a] = "clear"]
      PROVE  /\ probing' \in [Address -> {"absent", "clear", "conflict"}]
             /\ handler' \in [Worker -> Handler \cup {None}]
             /\ \A v \in Worker \ {w} : handler'[v] = handler[v]
             /\ \A b \in Address : probing'[b] # marks[b] =>
                  handler'[w] # None /\ handler'[w].ip = b
  <2> DEFINE rec == [kind |-> kind, mac |-> m, ip |-> a,
                     todo |-> {b \in todo : b > a},
                     left |-> left, probeAge |-> 0]
  <2>1. rec \in Handler
    BY DhcpAssumption DEF Handler
  <2>2. rec # None
    BY <2>1, DhcpAssumption
  <2>3. handler'[w] = rec
    BY <1>2 DEF DhcpInv, TypeOK
  <2>4. handler' \in [Worker -> Handler \cup {None}]
    BY <1>2, <2>1 DEF DhcpInv, TypeOK
  <2>5. \A b \in Address : probing'[b] # marks[b] => b = a
    BY <1>2
  <2>6. QED
    BY <1>2, <2>2, <2>3, <2>4, <2>5 DEF DhcpInv, TypeOK
<1>3. QED
  BY <1>1, <1>2 DEF Seek

\* The handler a search leaves asleep: of the same client, and with nothing
\* to try that the search did not have.
LEMMA SeekHandler ==
  ASSUME DhcpInv, NEW w \in Worker, NEW kind \in {"offer", "ack"},
         NEW m \in Mac, NEW todo \in SUBSET Address, NEW left \in 0..LeaseTime,
         NEW listed \in [Address -> 0..ConflictTTL + 1],
         NEW marks \in [Address -> {"absent", "clear", "conflict"}],
         Seek(w, kind, m, todo, left, listed, marks)
  PROVE  /\ \A v \in Worker \ {w} : handler'[v] = handler[v]
         /\ handler'[w] # None =>
              /\ handler'[w].mac = m
              /\ handler'[w].ip \in todo
              /\ handler'[w].todo \subseteq todo
<1>1. CASE handler' = [handler EXCEPT ![w] = None]
  BY <1>1 DEF DhcpInv, TypeOK
<1>2. ASSUME NEW a \in todo,
             handler' = [handler EXCEPT ![w] =
               [kind |-> kind, mac |-> m, ip |-> a,
                todo |-> {b \in todo : b > a},
                left |-> left, probeAge |-> 0]]
      PROVE  /\ \A v \in Worker \ {w} : handler'[v] = handler[v]
             /\ handler'[w].mac = m
             /\ handler'[w].ip \in todo
             /\ handler'[w].todo \subseteq todo
  BY <1>2 DEF DhcpInv, TypeOK
<1>3. QED
  BY <1>1, <1>2 DEF Seek

\* The search goes on for the same client, with less to try.
LEMMA WakeConflictHandler ==
  ASSUME DhcpInv, NEW w \in Worker, WakeConflict(w)
  PROVE  /\ handler[w] \in Handler
         /\ \A v \in Worker \ {w} : handler'[v] = handler[v]
         /\ handler'[w] # None =>
              /\ handler'[w].mac = handler[w].mac
              /\ handler'[w].ip \in handler[w].todo
              /\ handler'[w].todo \subseteq handler[w].todo
<1> DEFINE me == handler[w]
           listed == [conflictLeft EXCEPT
                        ![me.ip] = ConflictTTL + 1 - me.probeAge]
           marks == [probing EXCEPT ![me.ip] = "absent"]
<1>1. me \in Handler
  BY DEF WakeConflict, DhcpInv, TypeOK
<1>2. /\ me.kind \in {"offer", "ack"} /\ me.mac \in Mac
      /\ me.todo \in SUBSET Address /\ me.left \in 0..LeaseTime
  BY <1>1 DEF Handler
<1>3. listed \in [Address -> 0..ConflictTTL + 1]
  BY <1>1, ListedType
<1>4. marks \in [Address -> {"absent", "clear", "conflict"}]
  BY DEF DhcpInv, TypeOK
<1>5. Seek(w, me.kind, me.mac, me.todo, me.left, listed, marks)
  BY DEF WakeConflict
<1> HIDE DEF listed, marks
<1>6. QED
  BY <1>1, <1>2, <1>3, <1>4, <1>5, SeekHandler

\* A new search: one idle greenlet takes it.
LEMMA StartSeekHandler ==
  ASSUME DhcpInv, NEW kind \in {"offer", "ack"}, NEW m \in Mac,
         NEW left \in 0..LeaseTime, StartSeek(kind, m, left)
  PROVE  \E w \in Worker :
           /\ handler[w] = None
           /\ \A v \in Worker \ {w} : handler'[v] = handler[v]
           /\ handler'[w] # None =>
                /\ handler'[w].mac = m
                /\ handler'[w].ip \in Unused
                /\ handler'[w].todo \subseteq Unused
<1>1. PICK w \in Worker :
        /\ handler[w] = None
        /\ Seek(w, kind, m, Unused, left, conflictLeft, probing)
  BY DEF StartSeek
<1>2. /\ conflictLeft \in [Address -> 0..ConflictTTL + 1]
      /\ probing \in [Address -> {"absent", "clear", "conflict"}]
      /\ Unused \in SUBSET Address
  BY DEF DhcpInv, TypeOK, Unused
<1>3. QED
  BY <1>1, <1>2, SeekHandler

\* A tick keeps what a sleeping handler is about, and every lease's state.
LEMMA TickKeeps ==
  ASSUME DhcpInv, Tick
  PROVE  /\ \A w \in Worker :
              /\ handler[w] = None => handler'[w] = None
              /\ handler[w] # None =>
                   /\ handler'[w] # None
                   /\ handler'[w].mac = handler[w].mac
                   /\ handler'[w].ip = handler[w].ip
                   /\ handler'[w].todo = handler[w].todo
         /\ \A m \in Mac : /\ lease'[m].state = lease[m].state
                           /\ lease'[m].ip = lease[m].ip
                           /\ lease'[m].ttl = Less(lease[m].ttl)
<1>1. \A m \in Mac : lease[m] \in Lease
  BY DEF DhcpInv, TypeOK
<1>2. \A m \in Mac : /\ lease'[m].state = lease[m].state
                     /\ lease'[m].ip = lease[m].ip
  BY <1>1, AgedLease DEF Tick
<1>3. \A m \in Mac : lease'[m].ttl = Less(lease[m].ttl)
  BY <1>1 DEF Tick, Lease
<1>4. \A w \in Worker : handler[w] # None =>
        handler[w] \in Handler /\ handler[w].probeAge < ProbeTicks
  BY DEF Tick, DhcpInv, TypeOK
<1>5. \A w \in Worker : handler[w] # None =>
        /\ handler'[w] # None
        /\ handler'[w].mac = handler[w].mac
        /\ handler'[w].ip = handler[w].ip
        /\ handler'[w].todo = handler[w].todo
  BY <1>4, AgedHandler DEF Tick
<1>6. \A w \in Worker : handler[w] = None => handler'[w] = None
  BY DEF Tick
<1>7. QED
  BY <1>2, <1>3, <1>5, <1>6

-----------------------------------------------------------------------------
(* Type correctness and the DNS tables                                     *)

LEMMA InitDhcpInv == DhcpInit => DhcpInv
BY DnsAssumption, DhcpAssumption
   DEF DhcpInit, DhcpInv, TypeOK, DnsInit, DnsTypeOK, PtrConfirmedByA, Lease

\* A client's message.
LEMMA ClientKeeps ==
  ASSUME DhcpInv, NEW m \in Mac, FromClient(m)
  PROVE  DhcpInv'
<1> USE DEF DhcpInv
<1>1. TypeOK /\ DnsInv
  BY DEF DnsInv, TypeOK
<1>2. ASSUME NEW h \in Names, NEW kind \in {"offer", "ack"},
             NEW left \in 0..LeaseTime,
             hostname' = Learned(m, h), UNCHANGED <<lease, ipToMac, dnsVars>>,
             UNCHANGED probeVars \/ StartSeek(kind, m, left)
      PROVE  DhcpInv'
  <2>1. hostname' \in [Mac -> Hostname \cup {None}]
    BY <1>2, LearnedType
  <2>2. DnsInv'
    BY <1>1, <1>2 DEF dnsVars, DnsInv, DnsTypeOK, PtrConfirmedByA
  <2>3. /\ probing' \in [Address -> {"absent", "clear", "conflict"}]
        /\ conflictLeft' \in [Address -> 0..ConflictTTL + 1]
        /\ handler' \in [Worker -> Handler \cup {None}]
    <3>1. CASE UNCHANGED probeVars
      BY <3>1 DEF probeVars, TypeOK
    <3>2. CASE StartSeek(kind, m, left)
      BY <3>2, SeekKeeps DEF StartSeek, Unused, TypeOK
    <3>3. QED
      BY <1>2, <3>1, <3>2
  <2>4. QED
    BY <1>2, <2>1, <2>2, <2>3 DEF TypeOK, DnsInv
<1>3. ASSUME NEW h \in Names, Discover(m, h)
      PROVE  DhcpInv'
  <2>1. 0 \in 0..LeaseTime
    BY DhcpAssumption
  <2>2. UNCHANGED probeVars \/ StartSeek("offer", m, 0)
    BY <1>3 DEF Discover
  <2>3. QED
    BY <1>2, <1>3, <2>1, <2>2 DEF Discover
<1>4. ASSUME NEW h \in Names, RequestNew(m, h)
      PROVE  DhcpInv'
  <2>1. LeaseTime \in 0..LeaseTime
    BY DhcpAssumption
  <2>2. QED
    BY <1>2, <1>4, <2>1 DEF RequestNew
<1>5. ASSUME NEW h \in Names, NEW req \in Requests, Nak(m, req, h)
      PROVE  DhcpInv'
  <2>1. 0 \in 0..LeaseTime
    BY DhcpAssumption
  <2>2. QED
    BY <1>2, <1>5, <2>1 DEF Nak, dnsVars
<1>6. ASSUME NEW h \in Names, NEW req \in Requests, Confirm(m, req, h)
      PROVE  DhcpInv'
  <2>1. LeaseTime \in 0..LeaseTime /\ lease[m].ip \in Address
    BY <1>6, DhcpAssumption DEF Confirm, TypeOK, Lease
  <2>2. hostname' \in [Mac -> Hostname \cup {None}]
    BY <1>1, <1>6, LearnedType DEF Confirm
  <2>3. Learned(m, h)[m] \in Hostname \cup {None}
    BY <1>1, LearnedType
  <2>4. /\ DnsInv'
        /\ lease' \in [Mac -> Lease]
        /\ \A n \in Mac : lease'[n].ip = None => lease'[n].state = "NONE"
        /\ ipToMac' \in [Address -> Mac \cup {None}]
    BY <1>6, <2>1, <2>3, AllocateKeeps DEF Confirm
  <2>5. QED
    BY <1>6, <2>2, <2>4 DEF Confirm, probeVars, TypeOK, DnsInv
<1>7. ASSUME NEW h \in Names, NEW req \in Requests, Renew(m, req, h)
      PROVE  DhcpInv'
  <2>1. lease[m].ip \in Address
    BY <1>7 DEF Renew, Holds, TypeOK, Lease
  <2>2. hostname' \in [Mac -> Hostname \cup {None}]
    BY <1>1, <1>7, LearnedType DEF Renew
  <2>3. Learned(m, h)[m] \in Hostname \cup {None}
    BY <1>1, LearnedType
  <2>4. DnsInv'
    BY <1>1, <1>7, <2>1, <2>3, RegisterKeeps DEF Renew
  <2>5. \A n \in Mac : lease'[n] \in Lease /\ lease'[n].ip = lease[n].ip
                       /\ lease'[n].state = lease[n].state
    BY <1>7, DhcpAssumption DEF Renew, TypeOK, Lease
  <2>6. lease' \in [Mac -> Lease]
    BY <1>7, <2>5 DEF Renew, TypeOK
  <2>7. QED
    BY <1>7, <2>2, <2>4, <2>5, <2>6 DEF Renew, probeVars, TypeOK, DnsInv
<1>8. ASSUME NEW h \in Names, Known(m), ReleaseLeases({m}, Learned(m, h)),
             UNCHANGED <<probing, handler>>,
             conflictLeft' \in [Address -> 0..ConflictTTL + 1]
      PROVE  DhcpInv'
  <2>1. Learned(m, h) \in [Mac -> Hostname \cup {None}]
    BY <1>1, LearnedType
  <2>2. QED
    BY <1>8, <2>1, ReleaseKeeps DEF TypeOK, DnsInv
<1>9. ASSUME NEW h \in Names, Release(m, h) \/ Decline(m, h)
      PROVE  DhcpInv'
  <2>1. CASE Known(m)
    <3>1. lease[m].ip \in Address
      BY <2>1 DEF Known, TypeOK, Lease
    <3>2. conflictLeft' \in [Address -> 0..ConflictTTL + 1]
      BY <1>9, <2>1, <3>1, DhcpAssumption
         DEF Release, Decline, probeVars, TypeOK
    <3>3. QED
      BY <1>8, <1>9, <2>1, <3>2 DEF Release, Decline, probeVars
  <2>2. CASE ~Known(m)
    <3>1. 0 \in 0..LeaseTime
      BY DhcpAssumption
    <3>2. QED
      BY <1>2, <1>9, <2>2, <3>1 DEF Release, Decline, probeVars
  <2>3. QED
    BY <2>1, <2>2
<1>10. QED
  BY <1>3, <1>4, <1>5, <1>6, <1>7, <1>9 DEF FromClient, Request

\* The end of a probe, an ARP reply, a pass of the reaper, a tick.
LEMMA SystemKeeps ==
  ASSUME DhcpInv, System
  PROVE  DhcpInv'
<1> USE DEF DhcpInv
<1>1. TypeOK /\ DnsInv
  BY DEF DnsInv, TypeOK
<1>2. ASSUME NEW w \in Worker, WakeClear(w)
      PROVE  DhcpInv'
  <2> DEFINE me == handler[w]
  <2>1. me \in Handler
    BY <1>2 DEF WakeClear, TypeOK
  <2>2. /\ me.mac \in Mac /\ me.ip \in Address /\ me.left \in 0..LeaseTime
        /\ hostname[me.mac] \in Hostname \cup {None}
    BY <2>1 DEF Handler, TypeOK
  <2>3. /\ probing' \in [Address -> {"absent", "clear", "conflict"}]
        /\ conflictLeft' \in [Address -> 0..ConflictTTL + 1]
        /\ handler' \in [Worker -> Handler \cup {None}]
        /\ hostname' \in [Mac -> Hostname \cup {None}]
    BY <1>2 DEF WakeClear, TypeOK
  <2>4. /\ DnsInv'
        /\ lease' \in [Mac -> Lease]
        /\ \A n \in Mac : lease'[n].ip = None => lease'[n].state = "NONE"
        /\ ipToMac' \in [Address -> Mac \cup {None}]
    <3>1. CASE /\ lease' = [lease EXCEPT ![me.mac] =
                     [state |-> "OFFERED", ip |-> me.ip, ttl |-> 0]]
               /\ UNCHANGED <<ipToMac, dnsVars>>
      <4>1. [state |-> "OFFERED", ip |-> me.ip, ttl |-> 0] \in Lease
        BY <2>2, DhcpAssumption DEF Lease
      <4>2. lease' \in [Mac -> Lease] /\ ipToMac' \in [Address -> Mac \cup {None}]
        BY <3>1, <4>1 DEF TypeOK
      <4>3. \A n \in Mac : lease'[n].ip = None => lease'[n].state = "NONE"
        BY <2>2, <3>1, DnsAssumption DEF TypeOK
      <4>4. DnsInv'
        BY <1>1, <3>1 DEF dnsVars, DnsInv, DnsTypeOK, PtrConfirmedByA
      <4>5. QED
        BY <4>2, <4>3, <4>4
    <3>2. CASE Allocate(me.mac, me.ip, me.left, hostname[me.mac])
      BY <2>2, <3>2, AllocateKeeps
    <3>3. QED
      BY <1>2, <3>1, <3>2 DEF WakeClear
  <2>5. QED
    BY <2>3, <2>4 DEF TypeOK, DnsInv
<1>3. ASSUME NEW w \in Worker, WakeConflict(w)
      PROVE  DhcpInv'
  <2> DEFINE me == handler[w]
             listed == [conflictLeft EXCEPT
                          ![me.ip] = ConflictTTL + 1 - me.probeAge]
             marks == [probing EXCEPT ![me.ip] = "absent"]
  <2>1. me \in Handler
    BY <1>3 DEF WakeConflict, TypeOK
  <2>2. /\ me.kind \in {"offer", "ack"} /\ me.mac \in Mac
        /\ me.todo \in SUBSET Address /\ me.left \in 0..LeaseTime
        /\ me.probeAge \in 0..ProbeTicks
    BY <2>1 DEF Handler
  <2>3. listed \in [Address -> 0..ConflictTTL + 1]
    BY <2>1, ListedType
  <2>4. marks \in [Address -> {"absent", "clear", "conflict"}]
    BY DEF TypeOK
  <2>5. Seek(w, me.kind, me.mac, me.todo, me.left, listed, marks)
    BY <1>3 DEF WakeConflict
  <2>6. /\ probing' \in [Address -> {"absent", "clear", "conflict"}]
        /\ conflictLeft' \in [Address -> 0..ConflictTTL + 1]
        /\ handler' \in [Worker -> Handler \cup {None}]
    BY <2>2, <2>3, <2>4, <2>5, SeekKeeps
  <2>7. QED
    BY <1>3, <2>6
       DEF WakeConflict, tableVars, TypeOK, DnsTypeOK, PtrConfirmedByA
<1>4. ASSUME NEW a \in Address, ArpReply(a)
      PROVE  DhcpInv'
  BY <1>4 DEF ArpReply, tableVars, TypeOK, DnsTypeOK, PtrConfirmedByA
<1>5. ASSUME Reaper
      PROVE  DhcpInv'
  <2> DEFINE expired == {m \in Mac : Holds(m) /\ ~Live(m)}
  <2>1. \A m \in expired : Known(m)
    BY DEF Holds, Known
  <2>2. hostname \in [Mac -> Hostname \cup {None}]
    BY DEF TypeOK
  <2>3. QED
    BY <1>5, <2>1, <2>2, ReleaseKeeps
       DEF Reaper, probeVars, TypeOK, DnsInv
<1>6. ASSUME Tick
      PROVE  DhcpInv'
  <2>1. \A m \in Mac : /\ lease'[m] \in Lease
                       /\ lease'[m].ip = lease[m].ip
                       /\ lease'[m].state = lease[m].state
    BY <1>6, AgedLease DEF Tick, TypeOK
  <2>2. lease' \in [Mac -> Lease]
    BY <1>6, <2>1 DEF Tick
  <2>3. conflictLeft' \in [Address -> 0..ConflictTTL + 1]
    <3>1. ConflictTTL + 1 \in Nat
      BY DhcpAssumption
    <3>2. \A a \in Address : Less(conflictLeft[a]) \in 0..ConflictTTL + 1
      BY <3>1, LessType DEF TypeOK
    <3>3. QED
      BY <1>6, <3>2 DEF Tick
  <2>4. \A w \in Worker : handler'[w] \in Handler \cup {None}
    BY <1>6, AgedHandler DEF Tick, TypeOK
  <2>5. handler' \in [Worker -> Handler \cup {None}]
    BY <1>6, <2>4 DEF Tick
  <2>6. QED
    BY <1>6, <2>1, <2>2, <2>3, <2>5
       DEF Tick, dnsVars, TypeOK, DnsTypeOK, PtrConfirmedByA
<1>7. QED
  BY <1>2, <1>3, <1>4, <1>5, <1>6 DEF System

\* Every step of the server keeps DhcpInv, under whatever client discipline.
LEMMA NextDhcpInv ==
  ASSUME DhcpInv, [DhcpNext]_dhcpVars
  PROVE  DhcpInv'
<1>1. CASE UNCHANGED dhcpVars
  BY <1>1 DEF dhcpVars, tableVars, probeVars, DhcpInv, TypeOK, DnsTypeOK,
              PtrConfirmedByA
<1>2. QED
  BY <1>1, ClientKeeps, SystemKeeps DEF DhcpNext

\* The tables have the types the code assumes, and a MAC that is on record
\* has an address, whatever the clients send and however greenlets interleave.
THEOREM DhcpTypes == DhcpSpec => []TypeOK
<1>1. DhcpInit => DhcpInv
  BY InitDhcpInv
<1>2. DhcpInv /\ [DhcpNext]_dhcpVars => DhcpInv'
  BY NextDhcpInv
<1>3. DhcpInv => TypeOK
  BY DEF DhcpInv
<1>4. QED
  BY <1>1, <1>2, <1>3, PTL DEF DhcpSpec

\* The DNS tables agree under everything DHCPServer does to them: names
\* that move, addresses that change hands, releases in any order.
THEOREM DhcpKeepsDnsConsistent == DhcpSpec => []PtrConfirmedByA
<1>1. DhcpInit => DhcpInv
  BY InitDhcpInv
<1>2. DhcpInv /\ [DhcpNext]_dhcpVars => DhcpInv'
  BY NextDhcpInv
<1>3. DhcpInv => PtrConfirmedByA
  BY DEF DhcpInv
<1>4. QED
  BY <1>1, <1>2, <1>3, PTL DEF DhcpSpec

-----------------------------------------------------------------------------
(* No probe mark is left behind                                            *)

\* A search step keeps the marks owned when it removes no other's mark.
LEMMA SeekKeepsOwners ==
  ASSUME DhcpInv, NoOrphanProbe,
         NEW w \in Worker, NEW kind \in {"offer", "ack"},
         NEW m \in Mac, NEW todo \in SUBSET Address, NEW left \in 0..LeaseTime,
         NEW listed \in [Address -> 0..ConflictTTL + 1],
         NEW marks \in [Address -> {"absent", "clear", "conflict"}],
         \A a \in Address : marks[a] # "absent" =>
           /\ probing[a] # "absent"
           /\ handler[w] = None \/ handler[w].ip # a,
         Seek(w, kind, m, todo, left, listed, marks)
  PROVE  NoOrphanProbe'
<1> SUFFICES ASSUME NEW a \in Address, probing'[a] # "absent"
             PROVE  \E v \in Worker : handler'[v] # None /\ handler'[v].ip = a
  BY DEF NoOrphanProbe
<1>1. /\ \A v \in Worker \ {w} : handler'[v] = handler[v]
      /\ probing'[a] # marks[a] => handler'[w] # None /\ handler'[w].ip = a
  BY SeekKeeps
<1>2. CASE probing'[a] # marks[a]
  BY <1>1, <1>2
<1>3. CASE probing'[a] = marks[a]
  <2>1. PICK v \in Worker : handler[v] # None /\ handler[v].ip = a
    BY <1>3 DEF NoOrphanProbe
  <2>2. v # w
    BY <1>3, <2>1
  <2>3. QED
    BY <1>1, <2>1, <2>2
<1>4. QED
  BY <1>2, <1>3

LEMMA NextNoOrphan ==
  ASSUME DhcpInv, NoOrphanProbe, [DhcpNext]_dhcpVars
  PROVE  NoOrphanProbe'
<1>1. CASE UNCHANGED <<probing, handler>>
  BY <1>1 DEF NoOrphanProbe
<1>2. ASSUME NEW kind \in {"offer", "ack"}, NEW m \in Mac,
             NEW left \in 0..LeaseTime, StartSeek(kind, m, left)
      PROVE  NoOrphanProbe'
  <2>1. PICK w \in Worker :
          /\ handler[w] = None
          /\ Seek(w, kind, m, Unused, left, conflictLeft, probing)
    BY <1>2 DEF StartSeek
  <2>2. QED
    BY <2>1, SeekKeepsOwners DEF Unused, DhcpInv, TypeOK
<1>3. ASSUME NEW m \in Mac, FromClient(m)
      PROVE  NoOrphanProbe'
  <2>1. 0 \in 0..LeaseTime /\ LeaseTime \in 0..LeaseTime
    BY DhcpAssumption
  <2>2. ASSUME NEW h \in Names, Discover(m, h) \/ RequestNew(m, h)
        PROVE  NoOrphanProbe'
    BY <1>1, <1>2, <2>1, <2>2 DEF Discover, RequestNew, probeVars
  <2>3. ASSUME NEW h \in Names, NEW req \in Requests,
               Nak(m, req, h) \/ Confirm(m, req, h) \/ Renew(m, req, h)
        PROVE  NoOrphanProbe'
    BY <1>1, <2>3 DEF Nak, Confirm, Renew, probeVars
  <2>4. ASSUME NEW h \in Names, Release(m, h) \/ Decline(m, h)
        PROVE  NoOrphanProbe'
    BY <1>1, <2>4 DEF Release, Decline, probeVars
  <2>5. QED
    BY <1>3, <2>2, <2>3, <2>4 DEF FromClient, Request
<1>4. ASSUME NEW w \in Worker, WakeClear(w)
      PROVE  NoOrphanProbe'
  <2> SUFFICES ASSUME NEW a \in Address, probing'[a] # "absent"
               PROVE  \E v \in Worker : handler'[v] # None /\ handler'[v].ip = a
    BY DEF NoOrphanProbe
  <2>1. probing[a] # "absent" /\ a # handler[w].ip
    BY <1>4 DEF WakeClear, DhcpInv, TypeOK
  <2>2. PICK v \in Worker : handler[v] # None /\ handler[v].ip = a
    BY <2>1 DEF NoOrphanProbe
  <2>3. handler'[v] = handler[v]
    BY <1>4, <2>1, <2>2 DEF WakeClear, DhcpInv, TypeOK
  <2>4. QED
    BY <2>2, <2>3
<1>5. ASSUME NEW w \in Worker, WakeConflict(w)
      PROVE  NoOrphanProbe'
  <2> DEFINE me == handler[w]
             listed == [conflictLeft EXCEPT
                          ![me.ip] = ConflictTTL + 1 - me.probeAge]
             marks == [probing EXCEPT ![me.ip] = "absent"]
  <2>1. me \in Handler
    BY <1>5 DEF WakeConflict, DhcpInv, TypeOK
  <2>2. /\ me.kind \in {"offer", "ack"} /\ me.mac \in Mac
        /\ me.todo \in SUBSET Address /\ me.left \in 0..LeaseTime
        /\ me.probeAge \in 0..ProbeTicks
    BY <2>1 DEF Handler
  <2>3. listed \in [Address -> 0..ConflictTTL + 1]
    BY <2>1, ListedType
  <2>4. marks \in [Address -> {"absent", "clear", "conflict"}]
    BY DEF DhcpInv, TypeOK
  <2>5. \A a \in Address : marks[a] # "absent" =>
          /\ probing[a] # "absent"
          /\ handler[w] = None \/ handler[w].ip # a
    BY DEF DhcpInv, TypeOK
  <2>6. Seek(w, me.kind, me.mac, me.todo, me.left, listed, marks)
    BY <1>5 DEF WakeConflict
  <2> HIDE DEF me, listed, marks
  <2>7. QED
    BY <2>2, <2>3, <2>4, <2>5, <2>6, SeekKeepsOwners
<1>6. ASSUME NEW a \in Address, ArpReply(a)
      PROVE  NoOrphanProbe'
  BY <1>6 DEF ArpReply, NoOrphanProbe, DhcpInv, TypeOK
<1>7. ASSUME Tick
      PROVE  NoOrphanProbe'
  <2>1. \A v \in Worker : handler[v] # None =>
          handler'[v] # None /\ handler'[v].ip = handler[v].ip
    <3> SUFFICES ASSUME NEW v \in Worker, handler[v] # None
                 PROVE  handler'[v] # None /\ handler'[v].ip = handler[v].ip
      OBVIOUS
    <3>1. handler[v] \in Handler /\ handler[v].probeAge < ProbeTicks
      BY <1>7 DEF Tick, DhcpInv, TypeOK
    <3>2. QED
      BY <1>7, <3>1, AgedHandler DEF Tick
  <2>2. probing' = probing
    BY <1>7 DEF Tick
  <2>3. QED
    BY <2>1, <2>2 DEF NoOrphanProbe
<1>8. CASE Reaper \/ UNCHANGED dhcpVars
  BY <1>1, <1>8 DEF Reaper, dhcpVars, probeVars
<1>9. QED
  BY <1>3, <1>4, <1>5, <1>6, <1>7, <1>8 DEF DhcpNext, System

\* A mark in _probing always has a handler asleep on it, so each is popped.
THEOREM ProbesHaveOwners == DhcpSpec => []NoOrphanProbe
<1>1. DhcpInit => DhcpInv /\ NoOrphanProbe
  BY InitDhcpInv DEF DhcpInit, NoOrphanProbe
<1>2. /\ DhcpInv /\ NoOrphanProbe
      /\ [DhcpNext]_dhcpVars
      => (DhcpInv /\ NoOrphanProbe)'
  BY NextDhcpInv, NextNoOrphan
<1>3. QED
  BY <1>1, <1>2, PTL DEF DhcpSpec
=============================================================================
