------------------------------ MODULE Checksum ------------------------------
(***************************************************************************)
(* writeRawUDP and udpChecksum in internal/socket/multicast.go: the UDP    *)
(* datagram that keeps a client's source address is put together by hand,  *)
(* checksum included, and a receiver's stack drops it silently if it is    *)
(* wrong.  The loops of udpChecksum are steps, and the sum wraps around at *)
(* the width of its uint32.                                                *)
(*                                                                         *)
(* A byte has B values instead of 256.  Words, the uint32 and the largest  *)
(* payload follow from it: with B = 256, MaxPayload is the code's 65507.   *)
(***************************************************************************)
EXTENDS Integers, Sequences

CONSTANTS
  B,          \* values of a byte
  Addresses,  \* IPv4 addresses, two words each
  Ports,      \* source ports a packet may carry
  GroupPorts, \* ports of the configured groups
  Data        \* what is to be written, sequences of bytes

Word == B * B
AllOnes == Word - 1
Uint32 == Word * Word
IPHeaderLen == 20
UDPHeaderLen == 8
Protocol == 17

ASSUME ChecksumAssumption ==
  /\ B \in Nat /\ Word > IPHeaderLen + UDPHeaderLen
  /\ Addresses \subseteq [1..2 -> 0..AllOnes]
  /\ GroupPorts \subseteq 0..AllOnes
  /\ Data \subseteq Seq(0..(B - 1))

VARIABLES
  pc,           \* "new", "pseudo", "words", "fold", "sent" or "refused"
  source,       \* the client's address
  destination,  \* the group's
  port,         \* the client's port
  groupPort,    \* the group's
  data,
  payload,      \* header and data, as bytes
  i,            \* bytes added so far
  sum           \* the uint32

checksumVars == <<pc, source, destination, port, groupPort, data, payload, i, sum>>

ChecksumInit ==
  /\ pc = "new"
  /\ source \in Addresses /\ destination \in Addresses
  /\ port \in Ports /\ groupPort \in GroupPorts
  /\ data \in Data
  /\ payload = <<>>
  /\ i = 0
  /\ sum = 0

\* binary.BigEndian: PutUint16 of a conversion to uint16, and Uint16 at an index.
PutUint16(n) == <<(n % Word) \div B, n % B>>
Uint16(bytes, at) == bytes[at] * B + bytes[at + 1]

MaxPayload == AllOnes - IPHeaderLen - UDPHeaderLen

\* The checks of writeRawUDP, and the datagram with a checksum of zero.
Assemble ==
  /\ pc = "new"
  /\ IF port \notin 0..AllOnes \/ Len(data) > MaxPayload
       THEN pc' = "refused" /\ UNCHANGED payload
       ELSE /\ pc' = "pseudo"
            /\ payload' = PutUint16(port) \o PutUint16(groupPort)
                            \o PutUint16(UDPHeaderLen + Len(data)) \o <<0, 0>> \o data
  /\ UNCHANGED <<source, destination, port, groupPort, data, i, sum>>

\* Both addresses, the protocol and the length.
AddPseudoHeader ==
  /\ pc = "pseudo"
  /\ sum' = (source[1] + destination[1] + source[2] + destination[2]
               + Protocol + Len(payload)) % Uint32
  /\ pc' = "words"
  /\ UNCHANGED <<source, destination, port, groupPort, data, payload, i>>

\* for i := 0; i+1 < len(payload); i += 2
AddWord ==
  /\ pc = "words"
  /\ i + 1 < Len(payload)
  /\ sum' = (sum + Uint16(payload, i + 1)) % Uint32
  /\ i' = i + 2
  /\ UNCHANGED <<pc, source, destination, port, groupPort, data, payload>>

\* An odd last byte is the high byte of a word.
AddOdd ==
  /\ pc = "words"
  /\ i + 1 >= Len(payload)
  /\ sum' = IF Len(payload) % 2 # 0
              THEN (sum + payload[Len(payload)] * B) % Uint32
              ELSE sum
  /\ pc' = "fold"
  /\ UNCHANGED <<source, destination, port, groupPort, data, payload, i>>

\* Mutant: an end-around carry out of a sum of all ones, too.
TooWideInclusive == sum >= AllOnes

TooWide == sum > AllOnes

\* for sum > 0xffff
Fold ==
  /\ pc = "fold"
  /\ TooWide
  /\ sum' = (sum % Word) + (sum \div Word)
  /\ UNCHANGED <<pc, source, destination, port, groupPort, data, payload, i>>

\* Mutant: a checksum of zero is sent as it is.
OnTheWireZero(checksum) == checksum

\* Zero means "no checksum" on the wire and is sent as all ones.
OnTheWire(checksum) == IF checksum = 0 THEN AllOnes ELSE checksum

\* The complement goes into the header, and the datagram to rawConn.
Send ==
  /\ pc = "fold"
  /\ ~TooWide
  /\ LET checksum == PutUint16(OnTheWire(AllOnes - sum)) IN
     payload' = [payload EXCEPT ![7] = checksum[1], ![8] = checksum[2]]
  /\ pc' = "sent"
  /\ UNCHANGED <<source, destination, port, groupPort, data, i, sum>>

ChecksumNext == Assemble \/ AddPseudoHeader \/ AddWord \/ AddOdd \/ Fold \/ Send

ChecksumSpec == ChecksumInit /\ [][ChecksumNext]_checksumVars
ChecksumFairSpec == ChecksumSpec /\ WF_checksumVars(ChecksumNext)

----------------------------------------------------------------------------
(* Properties.                                                             *)

\* One's complement addition of words: the carry comes back in at the end.
Plus(x, y) == IF x + y > AllOnes THEN x + y - AllOnes ELSE x + y

\* The words of a byte sequence, padded with a zero byte to an even length.
WordsOf(bytes) ==
  LET padded == IF Len(bytes) % 2 = 0 THEN bytes ELSE Append(bytes, 0) IN
  [k \in 1..(Len(padded) \div 2) |-> Uint16(padded, 2 * k - 1)]

\* What a receiver adds up: the pseudo header and the datagram.
ReceiverWords(bytes) ==
  <<source[1], source[2], destination[1], destination[2], Protocol, Len(bytes)>>
    \o WordsOf(bytes)

\* The sum after each of the words.
RunningSum(words) ==
  LET after[k \in 0..Len(words)] == IF k = 0 THEN 0 ELSE Plus(after[k - 1], words[k])
  IN  after

\* A receiver's view, by RFC 768: the lengths agree with the bytes that arrive
\* in an IP packet of at most AllOnes bytes, a checksum is present, and pseudo
\* header and datagram add up to all ones.  So every datagram that writeRawUDP
\* sends is accepted, for odd lengths, repeated carries, a sum that complements
\* to zero and the largest payload of nothing but ones alike: no carry is lost.
ReceiverAccepts ==
  pc = "sent" =>
    /\ Uint16(payload, 5) = Len(payload)
    /\ IPHeaderLen + Len(payload) <= AllOnes
    /\ Uint16(payload, 7) # 0
    /\ LET words == ReceiverWords(payload) IN
       RunningSum(words)[Len(words)] = AllOnes

\* The folding ends, and every write is sent or refused.
WriteEnds == <>(pc \in {"sent", "refused"})

----------------------------------------------------------------------------
(* The inductive invariant behind ReceiverAccepts.                         *)

\* Equal in one's complement arithmetic, but for the two zeros.
Congruent(x, y) == (x - y) % AllOnes = 0

\* The datagram has its header, with a length that fits an IP packet.
Assembled ==
  /\ payload \in Seq(0..(B - 1))
  /\ Len(payload) >= UDPHeaderLen
  /\ IPHeaderLen + Len(payload) <= AllOnes
  /\ Uint16(payload, 5) = Len(payload)

\* The uint32 is what a receiver has after as many words, but for carries that
\* have yet to come back in.  The protocol number keeps it from zero.
SumAgrees(added) ==
  /\ sum >= 1
  /\ Congruent(sum, RunningSum(ReceiverWords(payload))[added])

\* While words are added, the bound on the sum keeps it from wrapping around.
ChecksumInv ==
  /\ pc \in {"new", "pseudo", "words", "fold", "sent", "refused"}
  /\ source \in Addresses /\ destination \in Addresses /\ data \in Data
  /\ groupPort \in GroupPorts
  /\ i \in Nat /\ sum \in Nat
  /\ pc \in {"new", "pseudo"} => i = 0
  /\ pc \in {"pseudo", "words", "fold"} =>
       Assembled /\ payload[7] = 0 /\ payload[8] = 0
  /\ pc = "words" => /\ i % 2 = 0 /\ i <= Len(payload)
                     /\ sum <= (6 + i \div 2) * AllOnes
                     /\ SumAgrees(6 + i \div 2)
  /\ pc = "fold" => SumAgrees(Len(ReceiverWords(payload)))
  /\ ReceiverAccepts
============================================================================
