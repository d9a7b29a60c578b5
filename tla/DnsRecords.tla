----------------------------- MODULE DnsRecords -----------------------------
(***************************************************************************)
(* The record table of DNSServer (dns_server.py): a forward map from host  *)
(* name to address (the A records) and a reverse map from address to host  *)
(* name (the PTR records).  DHCPServer adds a record when it acknowledges  *)
(* a lease and removes one, by address, when it takes a lease back.        *)
(*                                                                         *)
(* A missing dictionary entry is None.  Names and addresses are opaque.    *)
(***************************************************************************)
CONSTANTS
  Hostname,   \* the host names clients send in DHCP option 12
  Address,    \* the addresses of the pool
  None        \* the absent entry of a dictionary

ASSUME DnsAssumption == None \notin Hostname /\ None \notin Address

VARIABLES
  records,       \* _records: host name -> address
  ipToHostname   \* _ip_to_hostname: address -> host name

dnsVars == <<records, ipToHostname>>

DnsTypeOK ==
  /\ records \in [Hostname -> Address \cup {None}]
  /\ ipToHostname \in [Address -> Hostname \cup {None}]

DnsInit ==
  /\ records = [h \in Hostname |-> None]
  /\ ipToHostname = [a \in Address |-> None]

\* Mutant: the PTR of the name's previous address stays.
AddRecordOnly(h, a) ==
  /\ records' = [records EXCEPT ![h] = a]
  /\ ipToHostname' = [ipToHostname EXCEPT ![a] = h]

(***************************************************************************)
(* add_record(h, a): the PTR of the name's previous address goes, if it    *)
(* still names h, and the new pair is entered in both maps.                *)
(***************************************************************************)
AddRecord(h, a) ==
  /\ records' = [records EXCEPT ![h] = a]
  /\ ipToHostname' =
       [b \in Address |->
          IF b = a THEN h
          ELSE IF b = records[h] /\ ipToHostname[b] = h THEN None
          ELSE ipToHostname[b]]

\* Mutant: the PTR of an address stays when its A record goes.
RemoveForwardOnly(S) ==
  /\ records' =
       [h \in Hostname |->
          IF records[h] \in S /\ ipToHostname[records[h]] = h
            THEN None ELSE records[h]]
  /\ UNCHANGED ipToHostname

\* remove_record(ip=a) for every a of S, one after the other.
RemoveByIp(S) ==
  /\ records' =
       [h \in Hostname |->
          IF records[h] \in S /\ ipToHostname[records[h]] = h
            THEN None ELSE records[h]]
  /\ ipToHostname' =
       [a \in Address |-> IF a \in S THEN None ELSE ipToHostname[a]]

\* remove_record(hostname=h)
RemoveByName(h) ==
  /\ records[h] # None
  /\ records' = [records EXCEPT ![h] = None]
  /\ ipToHostname' =
       [a \in Address |->
          IF a = records[h] /\ ipToHostname[a] = h
            THEN None ELSE ipToHostname[a]]

DnsNext ==
  \/ \E h \in Hostname, a \in Address : AddRecord(h, a)
  \/ \E h \in Hostname : RemoveByName(h)
  \/ \E a \in Address : RemoveByIp({a})

DnsSpec == DnsInit /\ [][DnsNext]_dnsVars

-----------------------------------------------------------------------------
(***************************************************************************)
(* Every PTR record is confirmed by the A record of the name it gives: a   *)
(* client that resolves an address and then the name it got comes back to  *)
(* the address.  add_record and remove_record each keep two dictionaries   *)
(* in step, and a name that moves or is taken over could leave a PTR       *)
(* behind.  (The converse, an A record confirmed by a PTR, does not hold:  *)
(* see NameResolvesToLease in DhcpOrderly.)                                *)
(***************************************************************************)
PtrConfirmedByA ==
  \A a \in Address :
    ipToHostname[a] # None => records[ipToHostname[a]] = a
=============================================================================
