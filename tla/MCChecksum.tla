---------------------------- MODULE MCChecksum ----------------------------
(* Model of Checksum for TLC: bytes of three bits, words of six, so that the *)
(* largest payload is 35 bytes.                                              *)
EXTENDS Checksum

Corners == {0, 1, B - 1}

\* Empty, short, odd and even lengths, and both sides of the largest; all bytes
\* alike but the first and the last.
CornerPayloads ==
  {[k \in 1..n |-> CASE k = 1 -> x [] k = n -> z [] OTHER -> y] :
     n \in {0, 1, 2, 3, 34, 35, 36},
     x \in 0..(B - 1), y \in Corners, z \in 0..(B - 1)}

CornerAddresses == {<<0, 0>>, <<B, 3>>, <<AllOnes, AllOnes>>}
CornerPorts == {0, AllOnes, AllOnes + 1}
CornerGroupPorts == {5, AllOnes}
============================================================================
