------------------------------- MODULE MCPath -------------------------------
(***************************************************************************)
(* Two networks.  The first is that of the NAT test: one switch, two       *)
(* inside hosts and an outside one, which the controller knows only while  *)
(* it knows an inside one (NatOrder), as when the inside hosts come first. *)
(* In the second the outside host has a switch of its own.                 *)
(***************************************************************************)
EXTENDS PacketPath, TLC

CONSTANTS a, b, e

Hosts == {a, b, e}
OneSwitch == <<[p \in 1..4 |-> IF p = 1 THEN a ELSE IF p = 2 THEN b
                               ELSE IF p = 3 THEN e ELSE None]>>
OnePlace == [h \in Hosts |-> [dpid |-> 1, port |-> IF h = a THEN 1 ELSE IF h = b THEN 2 ELSE 3]]
OneToward == <<[t \in {1} |-> 0]>>

Rule(src, dst, proto, sport, dport, action) ==
  [src |-> src, dst |-> dst, proto |-> proto, sport |-> sport, dport |-> dport,
   action |-> action]

RuleFile ==
  <<Rule(a, b, "tcp", Star, 80, "deny"), Rule(a, e, Star, Star, Star, "allow"),
    Rule(e, b, Star, Star, Star, "deny"), Rule(Star, NatIp, "tcp", 5, Star, "deny"),
    Rule(e, a, "udp", Star, 0, "deny"),
    Rule(Bad, Star, Star, Star, Star, "deny"), Rule(a, Star, Star, Star, Star, "deny")>>

To(src, dst, proto, dport) ==
  [src |-> src, dst |-> dst, proto |-> proto, sport |-> 5, dport |-> dport]

Exchanges ==
  {To(a, b, "tcp", 80), To(a, b, "udp", 53), To(a, e, "tcp", 80),
   To(b, e, "tcp", 80), To(b, NatIp, "tcp", 7)}

\* Two switches, the inside host a on the first and the outside one on the other.
Pair == {a, e}
TwoSwitches == <<[p \in 1..2 |-> IF p = 1 THEN a ELSE <<2, 2>>],
                 [p \in 1..2 |-> IF p = 1 THEN e ELSE <<1, 2>>]>>
TwoPlaces == [h \in Pair |-> [dpid |-> IF h = a THEN 1 ELSE 2, port |-> 1]]
TwoToward == [s \in 1..2 |-> [t \in 1..2 |-> 2]]
OneExchange == {To(a, e, "tcp", 80)}
NoRules == <<>>
=============================================================================
