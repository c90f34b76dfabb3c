------------------------------ MODULE Checksum -------------------------------
(* The two checksums of Tema_1/skel.c over headers given as sequences of    *)
(* bytes.  A byte has Base values (256 in the code), so that 16-bit words   *)
(* are below Word16 and 32-bit words below Word32: the algorithms are the   *)
(* same at every base.                                                      *)
EXTENDS Integers, Sequences, Functions

CONSTANT Base
ASSUME BaseAssumption == Base \in Nat /\ Base >= 2

Bytes == 0 .. Base - 1
Word16 == Base * Base
Word32 == Word16 * Word16

\* The bytes of s, and zeros before and behind them.
ByteAt(s, k) == IF k \in 1 .. Len(s) THEN s[k] ELSE 0

\* The 16-bit and the 32-bit word that start at byte k, in network order
\* (ntohl of the copied word).
Word(s, k) == ByteAt(s, k) * Base + ByteAt(s, k + 1)
DoubleWord(s, k) == Word(s, k) * Word16 + Word(s, k + 2)

\* The sum of the 16-bit words of s.
Words(s) ==
  SumFunction([j \in 0 .. (Len(s) - 1) \div 2 |-> Word(s, 2 * j + 1)])

\* The sum of the 32-bit words of s when it stands at an address that is
\* offset past a multiple of four: the first and the last are filled with
\* zeros.
Blocks(s, offset) ==
  SumFunction([j \in 0 .. (Len(s) + offset - 1) \div 4 |->
                 DoubleWord(s, 4 * j + 1 - offset)])

\* Lines 206-209: the carries come back in at the bottom until none is left.
FoldCarries[acc \in Nat] ==
  IF acc < Word16 THEN acc ELSE FoldCarries[(acc % Word16) + (acc \div Word16)]

\* An odd offset has swapped the two bytes of the sum.
ip_checksum(data, offset) ==
  LET acc == Word16 - 1 + Blocks(data, offset)
      folded == FoldCarries[(acc % Word32) + (acc \div Word32)]
      sum == IF offset % 2 = 1
             THEN (folded \div Base) + (folded % Base) * Base ELSE folded
  IN  Word16 - 1 - sum

\* Two foldings, no loop: enough for the few words of an ICMP header.
icmp_checksum(data) ==
  LET sum == Words(data)
      once == (sum \div Word16) + (sum % Word16)
      twice == (once + (once \div Word16)) % Word16
  IN  Word16 - 1 - twice

\* What a receiver asks of a header (RFC 1071): its 16-bit words, the
\* checksum among them, add up to all ones.
Verifies(data) == Words(data) % (Word16 - 1) = 0

Hi(check) == check \div Base
Lo(check) == check % Base
==============================================================================
