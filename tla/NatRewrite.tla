----------------------------- MODULE NatRewrite -----------------------------
(***************************************************************************)
(* The frames that NATTable rewrites (nat.py): addresses, ports and        *)
(* checksums of what leaves by an entry of the table, and of what comes    *)
(* back by it.                                                             *)
(*                                                                         *)
(* A frame is its addresses as one word each, its ports, the sums of the   *)
(* other words of its two headers and its payload, the checksums, and the  *)
(* bytes that the Ethernet adds to a short frame (zeros, `pad` of them).    *)
(* The MAC addresses are PacketPath's.                                     *)
(***************************************************************************)
EXTENDS NatTable, Checksum

CONSTANTS
  NatWord,       \* NATConfig.external_ip
  AddressWord,   \* the words of the hosts' and the peers' addresses
  PeerPort,      \* the port of every peer
  Lengths,       \* lengths of segments
  Bodies         \* sums of the words that are never rewritten

ASSUME RewriteAssumption ==
  /\ {NatWord, PeerPort} \subseteq Word /\ Pool \subseteq Word
  /\ AddressWord \in [Host \cup Peer -> Word]
  /\ HostPort \cup Ident \cup Lengths \subseteq Word
  /\ \A sum \in Bodies : sum \in Nat /\ sum <= 2147000000   \* of 65535 bytes

Ported == {"tcp", "udp"}
Number(proto) == CASE proto = "tcp" -> 6 [] proto = "udp" -> 17 [] OTHER -> 1

\* What the checksum of the IP header covers, and that of the segment, with
\* the pseudo header's addresses.
IpSum(f) == f.src + f.dst + f.len + Number(f.proto)

Segment(f) == f.sport + f.dport + f.body

Pseudo(f, src, dst, len) ==
  IF f.proto \in Ported THEN src + dst + Number(f.proto) + len ELSE 0

\* A UDP checksum of 0 would mean that there is none.
SegmentSum(g, src, dst, pad) ==
  LET sum == ChecksumOf(Segment(g) + Pseudo(g, src, dst, g.len + pad)) IN
  IF g.proto = "udp" /\ sum = 0 THEN 65535 ELSE sum

WithSums(g, ipsum, sum) == [g EXCEPT !.ipsum = ipsum, !.sum = sum]

\* The checksums of g, computed anew with src and dst in the pseudo header.
Seal(g, src, dst, pad) ==
  WithSums(g, ChecksumOf(IpSum(g)), SegmentSum(g, src, dst, pad))

\* The segment of a TCP frame is taken to last until the frame ends.
Counted(f) == IF f.proto = "tcp" THEN f.pad ELSE 0

\* f with another source, and with another destination.
From(f, address, port) == [f EXCEPT !.src = address, !.sport = port]
To(f, address, port) == [f EXCEPT !.dst = address, !.dport = port]

\* _rewrite_outbound, for an entry with key k.
RewriteOutbound(f, k) ==
  LET port == IF f.proto \in Ported THEN connections[k].natPort ELSE f.sport IN
  Seal(From(f, NatWord, port), NatWord, AddressWord[k.peer], Counted(f))

\* Mutant: the host's port is not put back.
RewriteInboundAddress(f, k) ==
  Seal(To(f, AddressWord[k.src], f.dport), AddressWord[k.peer], AddressWord[k.src],
       Counted(f))

\* _rewrite_inbound
RewriteInbound(f, k) ==
  LET port == IF f.proto \in Ported THEN k.port ELSE f.dport IN
  Seal(To(f, AddressWord[k.src], port), AddressWord[k.peer], AddressWord[k.src],
       Counted(f))

-----------------------------------------------------------------------------
(* The frames of a connection, and what the ends make of them              *)

\* What one end sends to the other: the checksums are right.
Sent(proto, src, sport, dst, dport, len, body, pad) ==
  LET f == [proto |-> proto, src |-> src, sport |-> sport, dst |-> dst, dport |-> dport,
            len |-> len, body |-> body, pad |-> pad, ipsum |-> 0, sum |-> 0]
  IN Seal(f, src, dst, 0)

\* From the host of connection k, and back from its peer. An ICMP message
\* has its identifier in one place, the other is no port.
Asked(k, len, body, pad) ==
  Sent(k.proto, AddressWord[k.src], k.port, AddressWord[k.peer],
       IF k.proto \in Ported THEN PeerPort ELSE 0, len, body, pad)

Answered(f, len, body, pad) ==
  IF f.proto \in Ported
    THEN Sent(f.proto, f.dst, f.dport, f.src, f.sport, len, body, pad)
    ELSE Sent(f.proto, f.dst, f.sport, f.src, f.dport, len, body, pad)

\* The receiver's checks, by the length that the IP header gives.
Accepted(f) ==
  /\ Verifies(IpSum(f), f.ipsum)
  /\ \/ f.proto = "udp" /\ f.sum = 0
     \/ Verifies(Segment(f) + Pseudo(f, f.src, f.dst, f.len), f.sum)

(***************************************************************************)
(* The connections whose frames are rewritten: those that are open, and    *)
(* ICMP exchanges, of whose entry only the key counts.                     *)
(***************************************************************************)
Echoes == [src : Host, port : HostPort, peer : Peer, proto : {"icmp"}]
Tracked == {k \in Key : Open(k)} \cup Echoes

(***************************************************************************)
(* What leaves the NAT, in either direction, is accepted by its receiver,  *)
(* as long as no TCP frame has been padded.  Each checksum is computed by  *)
(* hand over a frame that is half rewritten.                               *)
(***************************************************************************)
RewrittenAccepted ==
  \A k \in Tracked, len \in Lengths, body \in Bodies, pad \in {0, 6} :
    (k.proto = "tcp" => pad = 0) =>
      LET out == RewriteOutbound(Asked(k, len, body, pad), k) IN
      /\ Accepted(out)
      /\ Accepted(RewriteInbound(Answered(out, len, body, pad), k))

(***************************************************************************)
(* The NAT cannot be told from a direct exchange: what the host gets is    *)
(* what its peer would have sent it had they spoken without the NAT, to    *)
(* the last bit.                                                           *)
(***************************************************************************)
Transparent ==
  \A k \in Tracked, len \in Lengths, body \in Bodies, pad \in {0, 6} :
    (k.proto = "tcp" => pad = 0) =>
      LET f == Asked(k, len, body, pad) IN
      RewriteInbound(Answered(RewriteOutbound(f, k), len, body, pad), k)
        = Answered(f, len, body, pad)
=============================================================================
