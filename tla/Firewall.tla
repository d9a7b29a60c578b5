------------------------------ MODULE Firewall ------------------------------
(***************************************************************************)
(* The firewall (firewall.py) as the controller uses it: the rules of the  *)
(* file, in its order, and the drop entries they become.  Wildcards of the *)
(* file are Star already; a value that cannot be converted is Bad.          *)
(***************************************************************************)
EXTENDS FlowTable, Sequences

CONSTANTS
  Bad,      \* an address or a port that is none, such as "10.0.0.0/24"
  Rules     \* the rules of the file; <<>> when there is no file

Protocols == {"tcp", "udp", "icmp"}

ASSUME FirewallAssumption == Star \notin Protocols \cup {"ip"}

\* PROTO_MAP: a name it does not have counts as any protocol.
ProtoNumber(proto) == IF proto \in Protocols THEN proto ELSE Star

\* Port 0 counts as none: a rule that gives it is for every port.
PortField(p) == IF p = 0 THEN Star ELSE p

\* Mutant: without a protocol a rule is for every kind of frame.
DenyWithoutType(r) ==
  Entry(60000,
        [Wild EXCEPT !["type"] = IF ProtoNumber(r.proto) = Star THEN Star ELSE "ip",
                     !["src"] = r.src, !["dst"] = r.dst,
                     !["proto"] = ProtoNumber(r.proto),
                     !["sport"] = PortField(r.sport),
                     !["dport"] = PortField(r.dport)], {})

\* Mutant: the captures take precedence.
DenyBelowCaptures(r) ==
  Entry(40000,
        [Wild EXCEPT !["type"] =
                       IF ProtoNumber(r.proto) # Star \/ r.src # Star \/ r.dst # Star
                         THEN "ip" ELSE Star,
                     !["src"] = r.src, !["dst"] = r.dst,
                     !["proto"] = ProtoNumber(r.proto),
                     !["sport"] = PortField(r.sport),
                     !["dport"] = PortField(r.dport)], {})

\* The drop entry for a rule.
DenyEntry(r) ==
  Entry(60000,
        [Wild EXCEPT !["type"] =
                       IF ProtoNumber(r.proto) # Star \/ r.src # Star \/ r.dst # Star
                         THEN "ip" ELSE Star,
                     !["src"] = r.src, !["dst"] = r.dst,
                     !["proto"] = ProtoNumber(r.proto),
                     !["sport"] = PortField(r.sport),
                     !["dport"] = PortField(r.dport)], {})

\* An address or port that is none ends the installation with an exception.
Raises(r) == Bad \in {r.src, r.dst, r.sport, r.dport}

(***************************************************************************)
(* _install_firewall_rules: rules that do not deny are passed over, and    *)
(* the rules that come after one that raises are never reached.            *)
(***************************************************************************)
DenyRules == {i \in 1..Len(Rules) : Rules[i].action = "deny"}
Installed == {i \in DenyRules : \A j \in DenyRules : j <= i => ~Raises(Rules[j])}
DenyEntries == {DenyEntry(Rules[i]) : i \in Installed}

-----------------------------------------------------------------------------
(* What the rules are meant to deny ("the flow entry matches packets       *)
(* according to the specified IP addresses, protocol, and ports"): frames  *)
(* that agree with every field a rule gives.                               *)
Denies(r, f) ==
  /\ f["type"] = "ip"
  /\ \A x \in {"src", "dst", "proto", "sport", "dport"} : r[x] \in {Star, f[x]}

(* The rules that a switch can carry out as they are meant: the protocol   *)
(* is one of the three, ports are those of TCP or UDP and not 0, and       *)
(* something is given at all.                                              *)
WellFormed(r) ==
  /\ r.proto \in Protocols \cup {Star}
  /\ r.sport # Star \/ r.dport # Star => r.proto \in {"tcp", "udp"}
  /\ 0 \notin {r.sport, r.dport}
  /\ r.proto # Star \/ r.src # Star \/ r.dst # Star
=============================================================================
