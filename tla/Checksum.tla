------------------------------ MODULE Checksum ------------------------------
(***************************************************************************)
(* The Internet checksum as nat.py and dns_server.py compute it, of the    *)
(* sum s of the 16-bit words that it covers.                               *)
(***************************************************************************)
EXTENDS Naturals

Word == 0..65535

\* Mutant: the carry of the carry is lost.
FoldedOnce(s) == (s \div 65536 + (s % 65536)) % 65536

\* s = (s >> 16) + (s & 0xFFFF), s += s >> 16, and its lower half.
Folded(s) ==
  LET t == s \div 65536 + (s % 65536) IN (t + t \div 65536) % 65536

\* ~s & 0xFFFF
ChecksumOf(s) == 65535 - Folded(s)

\* What the receiver does: the words and their checksum fold to all ones.
Verifies(s, sum) == Folded(s + sum) = 65535
=============================================================================
