----------------------- MODULE MulticastSocketProofs -----------------------
(* Proofs about internal/socket/multicast.go: MulticastSocket, for any      *)
(* window, payloads and interfaces, and after it Checksum, for any width of *)
(* a byte, addresses, ports and payload.                                    *)
EXTENDS MulticastSocket, Checksum, SequenceTheorems, WellFoundedInduction, TLAPS

\* A new socket has marked nothing and has no echo under way.
LEMMA InitIInv == Init => IInv
  BY SocketAssumption
     DEF Init, IInv, TypeOK, RecentMatchesMarks, WriterHasMarked,
         EchoesAreMarked, LoadCoversEcho, FreshEchoDiscarded, DiscardOnlyRecent

\* A mark renews the payload's entry; what the cleanup drops has expired.
LEMMA MarkIInv == IInv /\ markSent => IInv'
  <1> SUFFICES ASSUME IInv, markSent PROVE IInv'
    OBVIOUS
  <1>1. /\ writing \in Payloads /\ began \in Nat \ {0} /\ began <= now
        /\ \A d \in Payloads : lastMark[d] <= began
    BY DEF IInv, TypeOK, WriterHasMarked, RecentMatchesMarks, markSent
  <1>2. /\ lastMark' \in [Payloads -> Nat]
        /\ lastMark'[writing] = began
        /\ \A d \in Payloads : lastMark[d] <= lastMark'[d]
        /\ \A d \in Payloads \ {writing} : lastMark'[d] = lastMark[d]
    BY <1>1 DEF IInv, TypeOK, markSent
  <1>3. UNCHANGED <<now, writing, left, inbox, reading, writes, clients, lastRead>>
        /\ began' = 0
    BY DEF markSent
  <1>4. TypeOK'
    BY <1>1, <1>2, <1>3, SocketAssumption DEF IInv, TypeOK, markSent, Unexpired
  <1>5. RecentMatchesMarks'
    BY <1>1, <1>2, <1>3, SocketAssumption
       DEF IInv, TypeOK, RecentMatchesMarks, markSent, Unexpired
  <1>6. WriterHasMarked'
    BY <1>1, <1>2, <1>3, SocketAssumption DEF WriterHasMarked
  <1>7. EchoesAreMarked'
    <2>1. ASSUME NEW n \in DOMAIN inbox, inbox[n].echo
          PROVE  /\ lastMark'[inbox[n].data] # 0
                 /\ inbox[n].marked <= lastMark'[inbox[n].data]
      <3>1. inbox[n] \in Message
        BY DEF IInv, TypeOK
      <3>2. inbox[n].data \in Payloads /\ inbox[n].marked \in Nat
        BY <3>1 DEF Message
      <3>3. /\ lastMark[inbox[n].data] # 0
            /\ inbox[n].marked <= lastMark[inbox[n].data]
        BY <2>1 DEF IInv, EchoesAreMarked
      <3>4. lastMark[inbox[n].data] \in Nat /\ lastMark'[inbox[n].data] \in Nat
        BY <1>2, <3>2 DEF IInv, TypeOK
      <3>5. lastMark[inbox[n].data] <= lastMark'[inbox[n].data]
        BY <1>2, <3>2
      <3>6. QED
        BY <3>2, <3>3, <3>4, <3>5
    <2>2. QED
      BY <1>3, <2>1 DEF EchoesAreMarked
  <1>8. LoadCoversEcho'
    <2>1. CASE reading = None
      BY <1>3, <2>1 DEF LoadCoversEcho
    <2>2. CASE reading # None
      <3>1. reading.data \in Payloads /\ reading.exp \in Nat
        BY <2>2 DEF IInv, TypeOK, Reading
      <3>2. /\ lastMark[reading.data] \in Nat /\ lastMark'[reading.data] \in Nat
            /\ lastMark[reading.data] <= lastMark'[reading.data]
        BY <1>2, <3>1 DEF IInv, TypeOK
      <3>3. /\ reading.echo => \/ reading.exp >= reading.marked + selfEchoWindow
                               \/ now >= reading.marked + selfEchoWindow
            /\ reading.exp # 0 =>
                 /\ lastMark[reading.data] # 0
                 /\ reading.exp <= lastMark[reading.data] + selfEchoWindow
        BY <2>2 DEF IInv, LoadCoversEcho
      <3>4. reading.exp # 0 =>
              /\ lastMark'[reading.data] # 0
              /\ reading.exp <= lastMark'[reading.data] + selfEchoWindow
        BY <3>1, <3>2, <3>3, SocketAssumption
      <3>5. QED
        BY <1>3, <3>3, <3>4 DEF LoadCoversEcho
    <2>3. QED
      BY <2>1, <2>2
  <1>9. FreshEchoDiscarded' /\ DiscardOnlyRecent'
    BY <1>3 DEF IInv, FreshEchoDiscarded, DiscardOnlyRecent
  <1>10. QED
    BY <1>4, <1>5, <1>6, <1>7, <1>8, <1>9 DEF IInv

\* A copy carries the time of the mark that WriteToGroup made.
LEMMA CopyIInv ==
  \A x \in {"raw", "udp"} \X Interfaces : IInv /\ WriteCopy(x) => IInv'
  <1> SUFFICES ASSUME NEW x \in {"raw", "udp"} \X Interfaces, IInv, WriteCopy(x)
               PROVE  IInv'
    OBVIOUS
  <1> DEFINE m == [data |-> writing, echo |-> TRUE, marked |-> lastMark[writing]]
  <1> USE SocketAssumption DEF IInv, TypeOK
  <1>1. writing \in Payloads /\ lastMark[writing] # 0
    BY DEF WriteCopy, WriterHasMarked, IsNext
  <1>2. m \in Message /\ inbox' = Append(inbox, m)
    BY <1>1 DEF WriteCopy, Message
  <1>3. UNCHANGED <<now, recent, expires, writing, began, reading, writes, clients,
                    lastMark, lastRead>>
        /\ left' \subseteq left
    BY DEF WriteCopy
  <1>4. TypeOK'
    BY <1>2, <1>3
  <1>5. EchoesAreMarked'
    <2>1. ASSUME NEW n \in DOMAIN inbox', inbox'[n].echo
          PROVE  /\ lastMark[inbox'[n].data] # 0
                 /\ inbox'[n].marked <= lastMark[inbox'[n].data]
      <3>1. CASE n \in DOMAIN inbox
        BY <1>2, <2>1, <3>1 DEF EchoesAreMarked
      <3>2. CASE n \notin DOMAIN inbox
        <4>1. inbox'[n] = m
          BY <1>2, <2>1, <3>2
        <4>2. QED
          BY <1>1, <4>1
      <3>3. QED
        BY <3>1, <3>2
    <2>2. QED
      BY <1>3, <2>1 DEF EchoesAreMarked
  <1>6. RecentMatchesMarks' /\ FreshEchoDiscarded' /\ DiscardOnlyRecent'
    BY <1>3 DEF RecentMatchesMarks, FreshEchoDiscarded, DiscardOnlyRecent
  <1>7. WriterHasMarked' /\ LoadCoversEcho'
    BY <1>3 DEF WriterHasMarked, LoadCoversEcho
  <1>8. QED
    BY <1>4, <1>5, <1>6, <1>7

\* A packet from a client disturbs no mark.
LEMMA ClientIInv == \A d \in Payloads : IInv /\ ClientSends(d) => IInv'
  <1> SUFFICES ASSUME NEW d \in Payloads, IInv, ClientSends(d) PROVE IInv'
    OBVIOUS
  <1> DEFINE m == [data |-> d, echo |-> FALSE, marked |-> 0]
  <1> USE SocketAssumption DEF IInv, TypeOK
  <1>1. m \in Message /\ inbox' = Append(inbox, m)
    BY DEF ClientSends, Message
  <1>2. UNCHANGED <<now, recent, expires, writing, began, left, reading, writes,
                    lastMark, lastRead>>
    BY DEF ClientSends
  <1>3. TypeOK'
    BY <1>1, <1>2 DEF ClientSends
  <1>4. EchoesAreMarked'
    <2>1. ASSUME NEW n \in DOMAIN inbox', inbox'[n].echo
          PROVE  n \in DOMAIN inbox /\ inbox'[n] = inbox[n]
      BY <1>1, <2>1
    <2>2. QED
      BY <1>2, <2>1 DEF EchoesAreMarked
  <1>5. RecentMatchesMarks' /\ FreshEchoDiscarded' /\ DiscardOnlyRecent'
    BY <1>2 DEF RecentMatchesMarks, FreshEchoDiscarded, DiscardOnlyRecent
  <1>6. WriterHasMarked' /\ LoadCoversEcho'
    BY <1>2 DEF WriterHasMarked, LoadCoversEcho
  <1>7. QED
    BY <1>3, <1>4, <1>5, <1>6

\* The entry that ReadFrom loads for an echo expires a window after a mark no
\* older than the echo's; if there is none, that mark has left the window.
LEMMA LoadIInv == IInv /\ ReadFrom => IInv'
  <1> SUFFICES ASSUME IInv, ReadFrom PROVE IInv'
    OBVIOUS
  <1> DEFINE m == Head(inbox)
             e == IF m.data \in recent THEN expires[m.data] ELSE 0
  <1> USE SocketAssumption DEF IInv, TypeOK
  <1>1. /\ m \in Message
        /\ m = inbox[1] /\ 1 \in DOMAIN inbox
        /\ inbox' = Tail(inbox)
        /\ inbox' \in Seq(Message)
    BY DEF ReadFrom
  <1>2. UNCHANGED <<now, recent, expires, writing, began, left, writes, clients,
                    lastMark, lastRead>>
    BY DEF ReadFrom
  <1>3. reading' = [data |-> m.data, echo |-> m.echo, marked |-> m.marked, exp |-> e]
    BY DEF ReadFrom
  <1>4. m.data \in Payloads /\ m.echo \in BOOLEAN /\ m.marked \in Nat
    BY <1>1 DEF Message
  <1>5. m.echo => m.marked <= lastMark[m.data] /\ lastMark[m.data] # 0
    BY <1>1 DEF EchoesAreMarked
  <1> HIDE DEF m
  <1>6. e \in Nat
    BY <1>4
  <1>7. TypeOK'
    BY <1>1, <1>2, <1>3, <1>4, <1>6 DEF Reading
  <1>8. RecentMatchesMarks' /\ WriterHasMarked' /\ FreshEchoDiscarded'
        /\ DiscardOnlyRecent'
    BY <1>2 DEF RecentMatchesMarks, WriterHasMarked, FreshEchoDiscarded,
                DiscardOnlyRecent
  <1>9. EchoesAreMarked'
    <2>1. ASSUME NEW n \in DOMAIN inbox'
          PROVE  n + 1 \in DOMAIN inbox /\ inbox'[n] = inbox[n + 1]
      BY <1>1
    <2>2. ASSUME NEW n \in DOMAIN inbox', inbox'[n].echo
          PROVE  lastMark'[inbox'[n].data] # 0 /\ inbox'[n].marked <= lastMark'[inbox'[n].data]
      <3>1. n + 1 \in DOMAIN inbox /\ inbox'[n] = inbox[n + 1]
        BY <2>1
      <3>2. lastMark' = lastMark
        BY <1>2
      <3>3. EchoesAreMarked
        BY DEF IInv
      <3> HIDE DEF IInv, TypeOK
      <3>4. QED
        BY <2>2, <3>1, <3>2, <3>3 DEF EchoesAreMarked
    <2>3. QED
      BY <2>2 DEF EchoesAreMarked
  <1>10. LoadCoversEcho'
    <2>1. m.echo => \/ e >= m.marked + selfEchoWindow
                    \/ now >= m.marked + selfEchoWindow
      BY <1>4, <1>5 DEF RecentMatchesMarks
    <2>2. e # 0 => lastMark[m.data] # 0 /\ e <= lastMark[m.data] + selfEchoWindow
      BY <1>4 DEF RecentMatchesMarks
    <2> HIDE DEF e
    <2>3. QED
      BY <1>2, <1>3, <2>1, <2>2 DEF LoadCoversEcho
  <1>11. QED
    BY <1>7, <1>8, <1>9, <1>10

\* A kept echo is past the expiry that was loaded for it, a discarded packet
\* is before it.
LEMMA DecideIInv == IInv /\ ReadDecides => IInv'
  <1> SUFFICES ASSUME IInv, ReadDecides PROVE IInv'
    OBVIOUS
  <1> DEFINE m == reading
  <1>1. UNCHANGED <<now, recent, expires, writing, began, left, inbox, writes,
                    clients, lastMark>>
        /\ reading' = None
    BY DEF ReadDecides
  <1>2. /\ m.data \in Payloads /\ m.echo \in BOOLEAN
        /\ m.marked \in Nat /\ m.exp \in Nat
    BY DEF IInv, TypeOK, ReadDecides, Reading
  <1>3. /\ m.echo => \/ m.exp >= m.marked + selfEchoWindow
                     \/ now >= m.marked + selfEchoWindow
        /\ m.exp # 0 => /\ lastMark[m.data] # 0
                        /\ m.exp <= lastMark[m.data] + selfEchoWindow
    BY DEF IInv, LoadCoversEcho, ReadDecides
  <1>4. /\ now \in Nat \ {0} /\ lastMark[m.data] \in Nat
        /\ lastMark[m.data] <= now
    BY <1>2 DEF IInv, TypeOK, RecentMatchesMarks
  <1>5. lastRead' = [echo |-> m.echo, marked |-> m.marked, at |-> now,
                     since |-> lastMark[m.data], kept |-> ~(m.exp > now)]
    BY DEF ReadDecides, isSelfEcho
  <1>6. TypeOK'
    BY <1>1, <1>2, <1>4, <1>5 DEF IInv, TypeOK
  <1>7. RecentMatchesMarks' /\ WriterHasMarked' /\ EchoesAreMarked' /\ LoadCoversEcho'
    BY <1>1 DEF IInv, RecentMatchesMarks, WriterHasMarked, EchoesAreMarked,
                LoadCoversEcho
  <1>8. /\ lastRead'.echo = m.echo /\ lastRead'.marked = m.marked
        /\ lastRead'.at = now /\ lastRead'.since = lastMark[m.data]
        /\ lastRead'.kept = ~(m.exp > now)
    BY <1>5
  <1> HIDE DEF m
  <1>9. FreshEchoDiscarded'
    <2>1. SUFFICES ASSUME m.echo, ~(m.exp > now)
                   PROVE  now >= m.marked + selfEchoWindow
      BY <1>8 DEF FreshEchoDiscarded
    <2>2. QED
      BY <1>2, <1>3, <1>4, <2>1, SocketAssumption
  <1>10. DiscardOnlyRecent'
    <2>1. SUFFICES ASSUME m.exp > now
                   PROVE  /\ lastMark[m.data] # 0
                          /\ lastMark[m.data] <= now
                          /\ now < lastMark[m.data] + selfEchoWindow
      BY <1>8 DEF DiscardOnlyRecent
    <2>2. QED
      BY <1>2, <1>3, <1>4, <2>1, SocketAssumption
  <1>11. QED
    BY <1>6, <1>7, <1>9, <1>10 DEF IInv

\* Time passing between the steps of reader and writer keeps them consistent.
LEMMA TickIInv == IInv /\ Tick => IInv'
  <1> SUFFICES ASSUME IInv, Tick PROVE IInv'
    OBVIOUS
  <1> USE SocketAssumption DEF IInv, TypeOK, Tick
  <1>1. TypeOK' /\ WriterHasMarked' /\ EchoesAreMarked'
    BY DEF WriterHasMarked, EchoesAreMarked
  <1>2. RecentMatchesMarks'
    BY DEF RecentMatchesMarks
  <1>3. LoadCoversEcho'
    BY DEF LoadCoversEcho, Reading
  <1>4. FreshEchoDiscarded' /\ DiscardOnlyRecent'
    BY DEF FreshEchoDiscarded, DiscardOnlyRecent
  <1>5. QED
    BY <1>1, <1>2, <1>3, <1>4

\* A new call reads the clock: no payload has been marked later.
LEMMA WriteIInv ==
  \A d \in Payloads, hows \in {{"raw", "udp"}, {"udp"}} :
    IInv /\ WriteToGroup(d, hows) => IInv'
  <1> SUFFICES ASSUME NEW d \in Payloads, NEW hows \in {{"raw", "udp"}, {"udp"}},
                      IInv, WriteToGroup(d, hows)
               PROVE  IInv'
    OBVIOUS
  <1> USE SocketAssumption DEF IInv, TypeOK, WriteToGroup
  <1>1. TypeOK'
    OBVIOUS
  <1>2. RecentMatchesMarks' /\ WriterHasMarked'
    BY DEF RecentMatchesMarks, WriterHasMarked
  <1>3. EchoesAreMarked' /\ LoadCoversEcho'
    BY DEF EchoesAreMarked, LoadCoversEcho
  <1>4. FreshEchoDiscarded' /\ DiscardOnlyRecent'
    BY DEF FreshEchoDiscarded, DiscardOnlyRecent
  <1>5. QED
    BY <1>1, <1>2, <1>3, <1>4

\* The rest of WriteToGroup, and steps of others.
LEMMA OtherIInv ==
  IInv /\ (\/ \E x \in {"raw", "udp"} \X Interfaces : CopyFails(x)
           \/ WriteReturns
           \/ UNCHANGED vars) => IInv'
  <1> SUFFICES ASSUME IInv,
                      \/ \E x \in {"raw", "udp"} \X Interfaces : CopyFails(x)
                      \/ WriteReturns
                      \/ UNCHANGED vars
               PROVE  IInv'
    OBVIOUS
  <1>1. /\ UNCHANGED <<now, recent, expires, began, inbox, reading, writes,
                       clients, lastMark, lastRead>>
        /\ writing' = writing \/ (writing' = None /\ left = {} /\ began = 0)
        /\ left' \subseteq left
    BY DEF CopyFails, WriteReturns, vars
  <1> USE DEF IInv, TypeOK
  <1>2. TypeOK'
    BY <1>1
  <1>3. EchoesAreMarked' /\ LoadCoversEcho' /\ WriterHasMarked'
    BY <1>1 DEF EchoesAreMarked, LoadCoversEcho, WriterHasMarked
  <1>4. RecentMatchesMarks' /\ FreshEchoDiscarded' /\ DiscardOnlyRecent'
    BY <1>1 DEF RecentMatchesMarks, FreshEchoDiscarded, DiscardOnlyRecent
  <1>5. QED
    BY <1>2, <1>3, <1>4

\* The suppression map, the echoes under way and what ReadFrom has loaded stay
\* consistent, however reads and writes interleave.
THEOREM SocketInvariant == Spec => []IInv
  <1>1. IInv /\ [Next]_vars => IInv'
    BY WriteIInv, MarkIInv, CopyIInv, ClientIInv, LoadIInv, DecideIInv, TickIInv,
       OtherIInv DEF Next
  <1>2. QED
    BY InitIInv, <1>1, PTL DEF Spec

\* ReadFrom never returns an echo within the window of its markSent.
THEOREM NoFreshEcho == Spec => []FreshEchoDiscarded
  <1>1. IInv => FreshEchoDiscarded
    BY DEF IInv
  <1>2. QED
    BY SocketInvariant, <1>1, PTL

\* ReadFrom discards nothing but what was sent within the window.
THEOREM OnlyRecentDiscarded == Spec => []DiscardOnlyRecent
  <1>1. IInv => DiscardOnlyRecent
    BY DEF IInv
  <1>2. QED
    BY SocketInvariant, <1>1, PTL

----------------------------------------------------------------------------
(* Checksum: induction over numbers, from the well-foundedness of <.       *)

\* A nonempty set of natural numbers has a least element.
LEMMA LeastNatural ==
  ASSUME NEW S, S \subseteq Nat, S # {}
  PROVE  \E m \in S : \A k \in S : m <= k
  <1> DEFINE R == OpToRel(<, Nat)
  <1>1. IsWellFoundedOn(R, Nat)
    BY NatLessThanWellFounded
  <1>2. \A x, y \in Nat : y < x => <<y, x>> \in R
    BY DEF OpToRel
  <1> HIDE DEF R
  <1>3. PICK m \in S : \A y \in S : ~(<<y, m>> \in R)
    BY <1>1, WFMin
  <1>4. ASSUME NEW k \in S PROVE m <= k
    <2>1. k \in Nat /\ m \in Nat
      OBVIOUS
    <2>2. ~(k < m)
      BY <1>2, <1>3, <2>1
    <2>3. QED
      BY <2>1, <2>2
  <1>5. QED
    BY <1>4

\* Induction over an interval, for the set of the numbers that have a property.
LEMMA IntervalInduction ==
  ASSUME NEW a \in Nat, NEW n \in Nat, NEW S, a \in S,
         \A k \in a..n : k + 1 <= n /\ k \in S => k + 1 \in S
  PROVE  a..n \subseteq S
  <1> SUFFICES ASSUME (a..n) \ S # {} PROVE FALSE
    OBVIOUS
  <1>0. (a..n) \ S \subseteq Nat
    OBVIOUS
  <1>1. PICK m \in (a..n) \ S : \A k \in (a..n) \ S : m <= k
    BY <1>0, LeastNatural
  <1>2. m \in Nat /\ a < m /\ m <= n
    BY <1>1
  <1>3. m - 1 \in a..n /\ m - 1 + 1 = m
    BY <1>2
  <1>4. m - 1 \in S
    BY <1>1, <1>2, <1>3
  <1>5. QED
    BY <1>1, <1>2, <1>3, <1>4

----------------------------------------------------------------------------
(* Arithmetic of bytes and words.                                          *)

\* A word is larger than the headers, and so are two bytes.
LEMMA WordSize ==
  /\ B \in Nat /\ B >= 6
  /\ Word \in Nat /\ Word = B * B /\ Word >= 29
  /\ AllOnes \in Nat /\ AllOnes = Word - 1 /\ AllOnes >= 28
  <1>1. B \in Nat /\ B * B > 28
    BY ChecksumAssumption DEF Word, IPHeaderLen, UDPHeaderLen
  <1>2. B >= 6
    <2> SUFFICES ASSUME B < 6 PROVE FALSE
      BY <1>1
    <2>1. B \in {0, 1, 2, 3, 4, 5}
      BY <1>1
    <2>2. QED
      BY <1>1, <2>1
  <1>3. B * B \in Nat
    BY <1>1
  <1>4. QED
    BY <1>1, <1>2, <1>3 DEF Word, AllOnes

\* Two bytes make a word.
LEMMA BytesMakeWord ==
  ASSUME NEW x \in 0..(B - 1), NEW y \in 0..(B - 1)
  PROVE  x * B + y \in 0..AllOnes
  <1>1. x * B <= (B - 1) * B
    BY WordSize
  <1>2. (B - 1) * B + (B - 1) = AllOnes
    BY WordSize
  <1>3. x * B \in Nat
    BY WordSize
  <1>4. QED
    BY <1>1, <1>2, <1>3, WordSize

\* Division by a positive number.
LEMMA Division ==
  ASSUME NEW a \in Nat, NEW b \in Nat, b > 0
  PROVE  /\ a \div b \in Nat /\ a % b \in 0..(b - 1)
         /\ a = (a \div b) * b + (a % b)
  OBVIOUS

\* PutUint16 writes the bytes that Uint16 reads back.
LEMMA PutThenGet ==
  ASSUME NEW n \in 0..AllOnes
  PROVE  /\ PutUint16(n) = <<PutUint16(n)[1], PutUint16(n)[2]>>
         /\ PutUint16(n)[1] \in 0..(B - 1) /\ PutUint16(n)[2] \in 0..(B - 1)
         /\ PutUint16(n)[1] * B + PutUint16(n)[2] = n
  <1> DEFINE h == n \div B
             l == n % B
  <1>1. n % Word = n
    BY WordSize
  <1>2. PutUint16(n) = <<h, l>>
    BY <1>1 DEF PutUint16
  <1>3. h \in Nat /\ l \in 0..(B - 1) /\ n = h * B + l
    BY WordSize, Division
  <1> HIDE DEF h, l
  <1>4. h <= B - 1
    <2> SUFFICES ASSUME h >= B PROVE FALSE
      BY <1>3, WordSize
    <2>1. h * B >= B * B
      BY <1>3, WordSize
    <2>2. QED
      BY <1>3, <2>1, WordSize
  <1>5. QED
    BY <1>2, <1>3, <1>4, WordSize

----------------------------------------------------------------------------
(* Congruence modulo AllOnes.                                              *)

\* Congruent numbers differ by a multiple of AllOnes.
LEMMA CongruentMultiple ==
  ASSUME NEW x \in Int, NEW y \in Int
  PROVE  Congruent(x, y) <=> \E q \in Int : x = y + q * AllOnes
  <1> DEFINE M == AllOnes
  <1>0. M \in Nat /\ M > 0
    BY WordSize
  <1> HIDE DEF M
  <1>1. ASSUME (x - y) % M = 0 PROVE \E q \in Int : x = y + q * M
    <2>1. x - y = M * ((x - y) \div M) + ((x - y) % M)
      BY <1>0
    <2>2. (x - y) \div M \in Int
      BY <1>0
    <2>3. QED
      BY <1>0, <1>1, <2>1, <2>2
  <1>2. ASSUME NEW q \in Int, x = y + q * M PROVE (x - y) % M = 0
    <2>1. x - y = q * M
      BY <1>0, <1>2
    <2>2. (q * M) % M = 0
      BY <1>0
    <2>3. QED
      BY <2>1, <2>2
  <1>3. QED
    BY <1>1, <1>2 DEF Congruent, M

\* Congruence is an equivalence, and addition respects it.
LEMMA CongruentRules ==
  ASSUME NEW x \in Int, NEW y \in Int, NEW z \in Int
  PROVE  /\ Congruent(x, x)
         /\ Congruent(x, y) => Congruent(y, x)
         /\ Congruent(x, y) /\ Congruent(y, z) => Congruent(x, z)
         /\ Congruent(x, y) => Congruent(x + z, y + z)
  <1> DEFINE M == AllOnes
  <1>0. M \in Int
    BY WordSize
  <1>a. \A u, v \in Int : Congruent(u, v) <=> \E q \in Int : u = v + q * M
    BY CongruentMultiple
  <1> HIDE DEF M
  <1>1. Congruent(x, x)
    <2>1. x = x + 0 * M
      BY <1>0
    <2>2. QED
      BY <1>a, <2>1
  <1>2. ASSUME Congruent(x, y) PROVE Congruent(y, x) /\ Congruent(x + z, y + z)
    <2>1. PICK q \in Int : x = y + q * M
      BY <1>a, <1>2
    <2>2. y = x + (-q) * M /\ x + z = (y + z) + q * M
      BY <1>0, <2>1
    <2>3. -q \in Int /\ x + z \in Int /\ y + z \in Int
      OBVIOUS
    <2>4. QED
      BY <1>a, <2>2, <2>3
  <1>3. ASSUME Congruent(x, y), Congruent(y, z) PROVE Congruent(x, z)
    <2>1. PICK q \in Int : x = y + q * M
      BY <1>a, <1>3
    <2>2. PICK r \in Int : y = z + r * M
      BY <1>a, <1>3
    <2>3. x = z + (q + r) * M
      BY <1>0, <2>1, <2>2
    <2>4. QED
      BY <1>a, <2>3
  <1>4. QED
    BY <1>1, <1>2, <1>3

----------------------------------------------------------------------------
(* The receiver's sum.                                                     *)

\* One's complement addition stays within a word, is addition but for a
\* multiple of AllOnes, and is zero for zeros only.
LEMMA PlusProperties ==
  ASSUME NEW x \in 0..AllOnes, NEW y \in 0..AllOnes
  PROVE  /\ Plus(x, y) \in 0..AllOnes
         /\ Congruent(Plus(x, y), x + y)
         /\ x > 0 \/ y > 0 => Plus(x, y) > 0
  <1>1. AllOnes \in Nat /\ x \in Nat /\ y \in Nat
    BY WordSize
  <1>2. Plus(x, y) \in 0..AllOnes /\ (x > 0 \/ y > 0 => Plus(x, y) > 0)
    BY <1>1 DEF Plus
  <1>3. \E q \in Int : Plus(x, y) = (x + y) + q * AllOnes
    <2>1. CASE x + y > AllOnes
      <3>1. Plus(x, y) = (x + y) + (-1) * AllOnes
        BY <1>1, <2>1 DEF Plus
      <3>2. QED
        BY <3>1
    <2>2. CASE ~(x + y > AllOnes)
      <3>1. Plus(x, y) = (x + y) + 0 * AllOnes
        BY <1>1, <2>2 DEF Plus
      <3>2. QED
        BY <3>1
    <2>3. QED
      BY <2>1, <2>2
  <1>4. Plus(x, y) \in Int /\ x + y \in Int
    BY <1>1, <1>2
  <1>5. QED
    BY <1>2, <1>3, <1>4, CongruentMultiple

\* The recursion that defines a running sum has a solution.
LEMMA RunningSumExists ==
  ASSUME NEW words \in Seq(0..AllOnes)
  PROVE  \E g : g = [k \in 0..Len(words) |->
                       IF k = 0 THEN 0 ELSE Plus(g[k - 1], words[k])]
  <1> DEFINE N == Len(words)
             Solves(g, m) == g = [k \in 0..m |->
                                    IF k = 0 THEN 0 ELSE Plus(g[k - 1], words[k])]
             S == {m \in 0..N : \E g : Solves(g, m)}
  <1>0. N \in Nat
    OBVIOUS
  <1>1. 0 \in S
    <2>1. Solves([k \in 0..0 |-> 0], 0)
      OBVIOUS
    <2> HIDE DEF Solves
    <2>2. \E g : Solves(g, 0)
      BY <2>1
    <2>3. 0 \in 0..N
      BY <1>0
    <2>4. QED
      BY <2>2, <2>3
  <1>2. ASSUME NEW m \in 0..N, m + 1 <= N, m \in S PROVE m + 1 \in S
    <2>1. PICK g : Solves(g, m)
      BY <1>2
    <2> DEFINE h == [k \in 0..(m + 1) |->
                       IF k <= m THEN g[k] ELSE Plus(g[m], words[m + 1])]
    <2>2. ASSUME NEW k \in 0..(m + 1)
          PROVE  h[k] = IF k = 0 THEN 0 ELSE Plus(h[k - 1], words[k])
      <3>1. CASE k <= m
        <4>1. k \in 0..m /\ h[k] = g[k]
          BY <3>1
        <4>2. k # 0 => k - 1 \in 0..(m + 1) /\ h[k - 1] = g[k - 1]
          BY <3>1
        <4>3. g[k] = IF k = 0 THEN 0 ELSE Plus(g[k - 1], words[k])
          BY <2>1, <4>1
        <4>4. QED
          BY <4>1, <4>2, <4>3
      <3>2. CASE k = m + 1
        <4>1. h[k] = Plus(g[m], words[m + 1]) /\ k # 0 /\ k - 1 = m
          BY <3>2
        <4>2. h[m] = g[m]
          OBVIOUS
        <4>3. QED
          BY <3>2, <4>1, <4>2
      <3>3. QED
        BY <3>1, <3>2
    <2>3. h = [k \in 0..(m + 1) |-> h[k]]
      OBVIOUS
    <2> HIDE DEF h
    <2>4. Solves(h, m + 1)
      BY <2>2, <2>3
    <2>5. m + 1 \in 0..N
      BY <1>0, <1>2
    <2>6. QED
      BY <2>4, <2>5
  <1> HIDE DEF S
  <1>3. 0..N \subseteq S
    BY <1>0, <1>1, <1>2, IntervalInduction
  <1>4. N \in S
    BY <1>0, <1>3
  <1>5. QED
    BY <1>4 DEF S

\* So a running sum starts at zero, and each word is added to the sum before it.
LEMMA RunningSumSteps ==
  ASSUME NEW words \in Seq(0..AllOnes)
  PROVE  /\ RunningSum(words)[0] = 0
         /\ \A k \in 1..Len(words) :
              RunningSum(words)[k] = Plus(RunningSum(words)[k - 1], words[k])
  <1> DEFINE s == RunningSum(words)
  <1>1. s = [k \in 0..Len(words) |-> IF k = 0 THEN 0 ELSE Plus(s[k - 1], words[k])]
    BY RunningSumExists DEF RunningSum
  <1> HIDE DEF s
  <1>2. Len(words) \in Nat
    OBVIOUS
  <1>3. s[0] = 0
    BY <1>1, <1>2
  <1>4. ASSUME NEW k \in 1..Len(words) PROVE s[k] = Plus(s[k - 1], words[k])
    BY <1>1, <1>2
  <1>5. QED
    BY <1>3, <1>4 DEF s

\* Every running sum is a word; it is congruent to the sum before it plus the
\* word added, and never falls back to zero.
LEMMA RunningSumProperties ==
  ASSUME NEW words \in Seq(0..AllOnes)
  PROVE  /\ \A k \in 0..Len(words) : RunningSum(words)[k] \in 0..AllOnes
         /\ \A k \in 1..Len(words) :
              /\ Congruent(RunningSum(words)[k], RunningSum(words)[k - 1] + words[k])
              /\ RunningSum(words)[k - 1] > 0 \/ words[k] > 0 => RunningSum(words)[k] > 0
  <1> DEFINE N == Len(words)
             s == RunningSum(words)
             S == {k \in 0..N : s[k] \in 0..AllOnes}
  <1>0. N \in Nat /\ AllOnes \in Nat /\ \A k \in 1..N : words[k] \in 0..AllOnes
    BY WordSize
  <1>1. s[0] = 0 /\ \A k \in 1..N : s[k] = Plus(s[k - 1], words[k])
    BY RunningSumSteps
  <1> HIDE DEF s, N
  <1>2. 0 \in S
    BY <1>0, <1>1
  <1>3. ASSUME NEW k \in 0..N, k + 1 <= N, k \in S PROVE k + 1 \in S
    <2>1. k + 1 \in 1..N /\ (k + 1) - 1 = k
      BY <1>0, <1>3
    <2>2. s[k + 1] = Plus(s[k], words[k + 1])
      BY <1>1, <2>1
    <2>3. s[k + 1] \in 0..AllOnes
      BY <1>0, <1>3, <2>1, <2>2, PlusProperties
    <2>4. QED
      BY <1>0, <2>1, <2>3
  <1>4. \A k \in 0..N : s[k] \in 0..AllOnes
    <2> HIDE DEF S
    <2>1. 0..N \subseteq S
      BY <1>0, <1>2, <1>3, IntervalInduction
    <2>2. QED
      BY <2>1 DEF S
  <1>5. ASSUME NEW k \in 1..N
        PROVE  /\ Congruent(s[k], s[k - 1] + words[k])
               /\ s[k - 1] > 0 \/ words[k] > 0 => s[k] > 0
    <2>1. k - 1 \in 0..N
      BY <1>0
    <2>2. s[k - 1] \in 0..AllOnes /\ words[k] \in 0..AllOnes
      BY <1>0, <1>4, <2>1
    <2>3. QED
      BY <1>1, <2>2, PlusProperties
  <1>6. QED
    BY <1>4, <1>5 DEF s, N

\* Once a word other than zero has been added, the sum stays positive.
LEMMA RunningSumPositive ==
  ASSUME NEW words \in Seq(0..AllOnes), NEW j \in 1..Len(words), words[j] > 0
  PROVE  \A k \in j..Len(words) : RunningSum(words)[k] > 0
  <1> DEFINE N == Len(words)
             s == RunningSum(words)
             S == {k \in j..N : s[k] > 0}
  <1>0. N \in Nat /\ j \in Nat /\ 1 <= j /\ j <= N
    OBVIOUS
  <1>1. \A k \in 1..N : s[k - 1] > 0 \/ words[k] > 0 => s[k] > 0
    BY RunningSumProperties
  <1> HIDE DEF s, N
  <1>2. j \in S
    BY <1>0, <1>1
  <1>3. ASSUME NEW k \in j..N, k + 1 <= N, k \in S PROVE k + 1 \in S
    <2>1. k + 1 \in 1..N /\ (k + 1) - 1 = k /\ k + 1 \in j..N
      BY <1>0, <1>3
    <2>2. s[k + 1] > 0
      BY <1>1, <1>3, <2>1
    <2>3. QED
      BY <2>1, <2>2
  <1>4. j..N \subseteq S
    <2> HIDE DEF S
    <2>1. QED
      BY <1>0, <1>2, <1>3, IntervalInduction
  <1>5. QED
    BY <1>4 DEF s, N

\* A word that changes from zero to c changes every later sum by c.
LEMMA RunningSumPatched ==
  ASSUME NEW words \in Seq(0..AllOnes), NEW patched \in Seq(0..AllOnes),
         Len(patched) = Len(words),
         NEW j \in 1..Len(words), words[j] = 0,
         \A k \in 1..Len(words) : k # j => patched[k] = words[k]
  PROVE  Congruent(RunningSum(patched)[Len(words)],
                   RunningSum(words)[Len(words)] + patched[j])
  <1> DEFINE N == Len(words)
             s == RunningSum(words)
             t == RunningSum(patched)
             c == patched[j]
             d == [k \in 0..N |-> IF k < j THEN 0 ELSE c]
             S == {k \in 0..N : Congruent(t[k], s[k] + d[k])}
  <1>0. N \in Nat /\ j \in 1..N /\ AllOnes \in Nat /\ c \in 0..AllOnes
    BY WordSize
  <1>1. \A k \in 1..N : words[k] \in Int /\ patched[k] \in Int
    BY <1>0
  <1>2. \A k \in 0..N : s[k] \in Int /\ t[k] \in Int
    BY <1>0, RunningSumProperties
  <1>3. \A k \in 1..N : /\ Congruent(s[k], s[k - 1] + words[k])
                        /\ Congruent(t[k], t[k - 1] + patched[k])
    BY RunningSumProperties
  <1>4. s[0] = 0 /\ t[0] = 0
    BY RunningSumSteps
  <1>5. \A k \in 0..N : d[k] \in Int
    BY <1>0
  <1>6. \A k \in 1..N : d[k - 1] + patched[k] = words[k] + d[k]
    <2> SUFFICES ASSUME NEW k \in 1..N PROVE d[k - 1] + patched[k] = words[k] + d[k]
      OBVIOUS
    <2>1. k - 1 \in 0..N /\ k \in 0..N
      BY <1>0
    <2>2. CASE k = j
      BY <1>0, <2>1, <2>2
    <2>3. CASE k < j
      BY <1>0, <1>1, <2>1, <2>3
    <2>4. CASE k > j
      BY <1>0, <1>1, <2>1, <2>4
    <2>5. QED
      BY <1>0, <2>2, <2>3, <2>4
  <1>7. d[0] = 0 /\ d[N] = c
    BY <1>0
  <1> HIDE DEF s, t, N, c, d
  <1>8. 0 \in S
    BY <1>0, <1>4, <1>7, CongruentRules
  <1>9. ASSUME NEW k \in 0..N, k + 1 <= N, k \in S PROVE k + 1 \in S
    <2>1. PICK m \in 1..N : m = k + 1 /\ m - 1 = k /\ m \in 0..N
      BY <1>0, <1>9
    <2>2. /\ Congruent(s[m], s[k] + words[m])
          /\ Congruent(t[m], t[k] + patched[m])
          /\ d[k] + patched[m] = words[m] + d[m]
      BY <1>3, <1>6, <2>1
    <2>3. Congruent(t[k], s[k] + d[k])
      BY <1>9
    <2>4. /\ s[k] \in Int /\ s[m] \in Int /\ t[k] \in Int /\ t[m] \in Int
          /\ words[m] \in Int /\ patched[m] \in Int /\ d[k] \in Int /\ d[m] \in Int
      BY <1>1, <1>2, <1>5, <2>1
    <2>5. Congruent(t[m], s[m] + d[m])
      <3> DEFINE M == AllOnes
      <3>0. M \in Int
        BY <1>0
      <3>a. \A u, v \in Int : Congruent(u, v) <=> \E q \in Int : u = v + q * M
        BY CongruentMultiple
      <3> HIDE DEF M
      <3>s0. PICK s0 \in Int : s0 = s[k]
        BY <2>4
      <3>s1. PICK s1 \in Int : s1 = s[m]
        BY <2>4
      <3>t0. PICK t0 \in Int : t0 = t[k]
        BY <2>4
      <3>t1. PICK t1 \in Int : t1 = t[m]
        BY <2>4
      <3>w. PICK w \in Int : w = words[m]
        BY <2>4
      <3>p. PICK p \in Int : p = patched[m]
        BY <2>4
      <3>d0. PICK d0 \in Int : d0 = d[k]
        BY <2>4
      <3>d1. PICK d1 \in Int : d1 = d[m]
        BY <2>4
      <3>1. /\ Congruent(s1, s0 + w) /\ Congruent(t1, t0 + p)
            /\ Congruent(t0, s0 + d0) /\ d0 + p = w + d1
        BY <2>2, <2>3, <3>s0, <3>s1, <3>t0, <3>t1, <3>w, <3>p, <3>d0, <3>d1
      <3>b. s0 + w \in Int /\ t0 + p \in Int /\ s0 + d0 \in Int /\ s1 + d1 \in Int
        OBVIOUS
      <3>2. PICK q1 \in Int : s1 = (s0 + w) + q1 * M
        BY <3>1, <3>a, <3>b
      <3>3. PICK q2 \in Int : t1 = (t0 + p) + q2 * M
        BY <3>1, <3>a, <3>b
      <3>4. PICK q3 \in Int : t0 = (s0 + d0) + q3 * M
        BY <3>1, <3>a, <3>b
      <3>5. PICK e1 \in Int, e2 \in Int, e3 \in Int :
              /\ e1 = q1 * M /\ e2 = q2 * M /\ e3 = q3 * M
              /\ (q2 + q3 - q1) * M = e2 + e3 - e1
        BY <3>0
      <3>6. t1 = (s1 + d1) + (e2 + e3 - e1)
        <4>1. d0 + p = w + d1
          BY <3>1
        <4>2. s1 = (s0 + w) + e1 /\ t1 = (t0 + p) + e2 /\ t0 = (s0 + d0) + e3
          BY <3>2, <3>3, <3>4, <3>5
        <4>3. QED
          BY <4>1, <4>2
      <3>7. t1 = (s1 + d1) + (q2 + q3 - q1) * M
        BY <3>5, <3>6
      <3>8. Congruent(t1, s1 + d1)
        BY <3>a, <3>b, <3>7
      <3>9. QED
        BY <3>8, <3>s1, <3>t1, <3>d1
    <2>6. QED
      BY <2>1, <2>5
  <1>10. N \in S
    <2> HIDE DEF S
    <2>1. 0 \in Nat
      OBVIOUS
    <2>2. 0..N \subseteq S
      BY <1>0, <1>8, <1>9, <2>1, IntervalInduction
    <2>3. QED
      BY <1>0, <2>2
  <1>11. Congruent(t[N], s[N] + d[N])
    BY <1>10
  <1>12. QED
    BY <1>7, <1>11 DEF s, t, N, c

----------------------------------------------------------------------------
(* The words of a datagram.                                                *)

\* A function on 1..n with values in T is a sequence of length n over T.
LEMMA FunctionIsSequence ==
  ASSUME NEW T, NEW n \in Nat, NEW f \in [1..n -> T]
  PROVE  f \in Seq(T) /\ Len(f) = n
  OBVIOUS

\* The words of a byte sequence: half as many, rounded up, each of two bytes,
\* with an odd last byte as the high byte of its word.
LEMMA WordsOfProperties ==
  ASSUME NEW bytes \in Seq(0..(B - 1)), NEW n \in Nat, NEW r \in {0, 1},
         Len(bytes) = 2 * n + r
  PROVE  /\ WordsOf(bytes) \in Seq(0..AllOnes)
         /\ Len(WordsOf(bytes)) = n + r
         /\ \A k \in 1..n : WordsOf(bytes)[k] = bytes[2 * k - 1] * B + bytes[2 * k]
         /\ r = 1 => WordsOf(bytes)[n + 1] = bytes[2 * n + 1] * B
  <1> DEFINE Byte == 0..(B - 1)
             padded == IF Len(bytes) % 2 = 0 THEN bytes ELSE Append(bytes, 0)
             f == [k \in 1..(n + r) |-> padded[2 * k - 1] * B + padded[2 * k]]
  <1>0. B \in Nat /\ B >= 6 /\ 0 \in Byte
    BY WordSize
  <1>1. Len(bytes) % 2 = r
    <2>1. CASE r = 0
      BY <2>1
    <2>2. CASE r = 1
      BY <2>2
    <2>3. QED
      BY <2>1, <2>2
  <1>2. /\ padded \in Seq(Byte) /\ Len(padded) = 2 * (n + r)
        /\ \A k \in 1..(2 * n + r) : padded[k] = bytes[k]
        /\ r = 1 => padded[2 * n + 2] = 0
    <2>1. CASE r = 0
      <3>1. padded = bytes
        BY <1>1, <2>1
      <3>2. QED
        BY <2>1, <3>1
    <2>2. CASE r = 1
      <3>1. padded = Append(bytes, 0)
        BY <1>1, <2>2
      <3>2. /\ padded \in Seq(Byte) /\ Len(padded) = Len(bytes) + 1
            /\ \A k \in 1..Len(bytes) : padded[k] = bytes[k]
            /\ padded[Len(bytes) + 1] = 0
        <4>1. bytes \in Seq(Byte)
          OBVIOUS
        <4> HIDE DEF Byte, padded
        <4>2. QED
          BY <1>0, <3>1, <4>1, AppendProperties
      <3>3. QED
        BY <2>2, <3>2
    <2>3. QED
      BY <2>1, <2>2
  <1>3. WordsOf(bytes) = f
    <2>1. Len(padded) \div 2 = n + r
      <3>1. \A x \in Nat : (2 * x) \div 2 = x
        OBVIOUS
      <3>2. n + r \in Nat
        OBVIOUS
      <3> HIDE DEF padded
      <3>3. QED
        BY <1>2, <3>1, <3>2
    <2>2. \A k \in 1..(n + r) : (2 * k - 1) + 1 = 2 * k
      OBVIOUS
    <2>3. WordsOf(bytes) = [k \in 1..(Len(padded) \div 2) |->
                              padded[2 * k - 1] * B + padded[(2 * k - 1) + 1]]
      BY DEF WordsOf, Uint16
    <2> HIDE DEF padded
    <2>4. QED
      BY <2>1, <2>2, <2>3
  <1> HIDE DEF padded
  <1>4. ASSUME NEW k \in 1..(n + r) PROVE f[k] \in 0..AllOnes
    <2>1. 2 * k - 1 \in 1..Len(padded) /\ 2 * k \in 1..Len(padded)
      BY <1>2
    <2>2. padded[2 * k - 1] \in Byte /\ padded[2 * k] \in Byte
      <3>1. padded \in Seq(Byte)
        BY <1>2
      <3> HIDE DEF Byte
      <3>2. QED
        BY <2>1, <3>1, ElementOfSeq
    <2>3. QED
      BY <2>2, BytesMakeWord
  <1>5. f \in [1..(n + r) -> 0..AllOnes]
    BY <1>4
  <1>6. f \in Seq(0..AllOnes) /\ Len(f) = n + r
    <2> HIDE DEF f
    <2>1. n + r \in Nat
      OBVIOUS
    <2>2. QED
      BY <1>5, <2>1, FunctionIsSequence
  <1>7. ASSUME NEW k \in 1..n PROVE f[k] = bytes[2 * k - 1] * B + bytes[2 * k]
    <2>1. k \in 1..(n + r) /\ 2 * k - 1 \in 1..(2 * n + r) /\ 2 * k \in 1..(2 * n + r)
      OBVIOUS
    <2>2. QED
      BY <1>2, <2>1
  <1>8. ASSUME r = 1 PROVE f[n + 1] = bytes[2 * n + 1] * B
    <2>1. n + 1 \in 1..(n + r) /\ 2 * (n + 1) - 1 = 2 * n + 1 /\ 2 * (n + 1) = 2 * n + 2
      BY <1>8
    <2>2. f[n + 1] = padded[2 * n + 1] * B + padded[2 * n + 2]
      BY <2>1
    <2>3. 2 * n + 1 \in 1..Len(bytes) /\ bytes[2 * n + 1] \in Byte
      <3>1. 2 * n + 1 \in 1..Len(bytes)
        BY <1>8
      <3>2. bytes \in Seq(Byte)
        OBVIOUS
      <3> HIDE DEF Byte
      <3>3. QED
        BY <3>1, <3>2, ElementOfSeq
    <2>4. padded[2 * n + 1] = bytes[2 * n + 1] /\ padded[2 * n + 2] = 0
      BY <1>2, <1>8, <2>3
    <2>5. bytes[2 * n + 1] * B \in Int
      BY <1>0, <2>3
    <2>6. QED
      BY <2>2, <2>4, <2>5
  <1> HIDE DEF f
  <1>9. QED
    BY <1>3, <1>6, <1>7, <1>8

\* What a receiver adds up: six words of pseudo header, then the datagram's.
LEMMA ReceiverWordsProperties ==
  ASSUME NEW bytes, WordsOf(bytes) \in Seq(0..AllOnes), Len(bytes) \in 0..AllOnes,
         source \in Addresses, destination \in Addresses
  PROVE  LET words == ReceiverWords(bytes) IN
         /\ words \in Seq(0..AllOnes)
         /\ Len(words) = 6 + Len(WordsOf(bytes))
         /\ words[1] = source[1] /\ words[2] = source[2]
         /\ words[3] = destination[1] /\ words[4] = destination[2]
         /\ words[5] = Protocol /\ words[6] = Len(bytes)
         /\ \A k \in 1..Len(WordsOf(bytes)) : words[6 + k] = WordsOf(bytes)[k]
         /\ source[1] \in 0..AllOnes /\ source[2] \in 0..AllOnes
         /\ destination[1] \in 0..AllOnes /\ destination[2] \in 0..AllOnes
         /\ Protocol \in 1..AllOnes
  <1> DEFINE T == 0..AllOnes
             pseudo == <<source[1], source[2], destination[1], destination[2],
                         Protocol, Len(bytes)>>
             rest == WordsOf(bytes)
             words == pseudo \o rest
  <1>1. /\ source[1] \in T /\ source[2] \in T
        /\ destination[1] \in T /\ destination[2] \in T
    BY ChecksumAssumption
  <1>2. Protocol \in T /\ Protocol \in 1..AllOnes
    BY WordSize DEF Protocol
  <1> HIDE DEF T
  <1>3. pseudo \in Seq(T) /\ Len(pseudo) = 6
    BY <1>1, <1>2 DEF T
  <1>4. /\ pseudo[1] = source[1] /\ pseudo[2] = source[2]
        /\ pseudo[3] = destination[1] /\ pseudo[4] = destination[2]
        /\ pseudo[5] = Protocol /\ pseudo[6] = Len(bytes)
    OBVIOUS
  <1>5. rest \in Seq(T) /\ Len(rest) \in Nat
    BY DEF T
  <1> HIDE DEF pseudo, rest
  <1>6. /\ words \in Seq(T) /\ Len(words) = Len(pseudo) + Len(rest)
        /\ \A k \in 1..(Len(pseudo) + Len(rest)) :
             words[k] = IF k <= Len(pseudo) THEN pseudo[k] ELSE rest[k - Len(pseudo)]
    BY <1>3, <1>5, ConcatProperties
  <1> HIDE DEF words
  <1>7. ASSUME NEW k \in 1..6 PROVE words[k] = pseudo[k]
    <2>1. k \in 1..(6 + Len(rest)) /\ k <= 6
      BY <1>5
    <2>2. QED
      BY <1>3, <1>6, <2>1
  <1>8. ASSUME NEW k \in 1..Len(rest) PROVE words[6 + k] = rest[k]
    <2>1. PICK m \in 1..(6 + Len(rest)) : m = 6 + k /\ ~(m <= 6) /\ m - 6 = k
      BY <1>5
    <2>2. words[m] = rest[m - 6]
      BY <1>3, <1>6, <2>1
    <2>3. QED
      BY <2>1, <2>2
  <1>9. words = ReceiverWords(bytes)
    BY DEF words, pseudo, rest, ReceiverWords
  <1>10. /\ words[1] = source[1] /\ words[2] = source[2]
         /\ words[3] = destination[1] /\ words[4] = destination[2]
         /\ words[5] = Protocol /\ words[6] = Len(bytes)
    BY <1>4, <1>7
  <1>11. QED
    BY <1>1, <1>2, <1>3, <1>6, <1>8, <1>9, <1>10 DEF rest, T

----------------------------------------------------------------------------
(* The sender's sum.                                                       *)

\* A sum that agrees with the receiver's before a word does so after it.
LEMMA AddedWord ==
  ASSUME NEW words \in Seq(0..AllOnes), NEW k \in 1..Len(words), NEW a \in Int,
         Congruent(a, RunningSum(words)[k - 1])
  PROVE  words[k] \in 0..AllOnes /\ Congruent(a + words[k], RunningSum(words)[k])
  <1>0. Len(words) \in Nat /\ AllOnes \in Nat /\ k - 1 \in 0..Len(words) /\ k \in 0..Len(words)
    BY WordSize
  <1>1. words[k] \in 0..AllOnes
    BY ElementOfSeq
  <1>2. PICK w \in Int : w = words[k]
    BY <1>0, <1>1
  <1>3. PICK x \in Int : x = RunningSum(words)[k - 1]
    BY <1>0, RunningSumProperties
  <1>4. PICK y \in Int : y = RunningSum(words)[k]
    BY <1>0, RunningSumProperties
  <1>5. Congruent(y, x + w)
    BY <1>2, <1>3, <1>4, RunningSumProperties
  <1>6. Congruent(a + w, x + w)
    <2>1. Congruent(a, x)
      BY <1>3
    <2>2. QED
      BY <2>1, CongruentRules
  <1>7. Congruent(x + w, y)
    BY <1>5, CongruentRules
  <1>8. Congruent(a + w, y)
    <2>1. a + w \in Int /\ x + w \in Int
      OBVIOUS
    <2>2. QED
      BY <1>6, <1>7, <2>1, CongruentRules
  <1>9. QED
    BY <1>1, <1>2, <1>4, <1>8

\* The bytes of an assembled datagram, as the words that a receiver adds up.
LEMMA DatagramWords ==
  ASSUME NEW bytes \in Seq(0..(B - 1)), UDPHeaderLen <= Len(bytes),
         IPHeaderLen + Len(bytes) <= AllOnes,
         source \in Addresses, destination \in Addresses,
         NEW n \in Nat, NEW r \in {0, 1}, Len(bytes) = 2 * n + r
  PROVE  LET words == ReceiverWords(bytes) IN
         /\ n >= 4 /\ n + r + 7 <= AllOnes
         /\ words \in Seq(0..AllOnes) /\ Len(words) = 6 + n + r
         /\ words[1] = source[1] /\ words[2] = source[2]
         /\ words[3] = destination[1] /\ words[4] = destination[2]
         /\ words[5] = Protocol /\ words[6] = Len(bytes)
         /\ \A k \in 1..n : words[6 + k] = bytes[2 * k - 1] * B + bytes[2 * k]
         /\ r = 1 => words[7 + n] = bytes[2 * n + 1] * B
  <1> DEFINE words == ReceiverWords(bytes)
  <1>0. /\ AllOnes \in Nat /\ Len(bytes) \in Nat
        /\ 8 <= Len(bytes) /\ 20 + Len(bytes) <= AllOnes
    BY WordSize DEF UDPHeaderLen, IPHeaderLen
  <1>1. n >= 4 /\ n + r + 7 <= AllOnes
    BY <1>0
  <1>2. /\ WordsOf(bytes) \in Seq(0..AllOnes) /\ Len(WordsOf(bytes)) = n + r
        /\ \A k \in 1..n : WordsOf(bytes)[k] = bytes[2 * k - 1] * B + bytes[2 * k]
        /\ r = 1 => WordsOf(bytes)[n + 1] = bytes[2 * n + 1] * B
    BY WordsOfProperties
  <1>3. Len(bytes) \in 0..AllOnes
    BY <1>0
  <1>4. /\ words \in Seq(0..AllOnes) /\ Len(words) = 6 + (n + r)
        /\ words[1] = source[1] /\ words[2] = source[2]
        /\ words[3] = destination[1] /\ words[4] = destination[2]
        /\ words[5] = Protocol /\ words[6] = Len(bytes)
        /\ \A k \in 1..(n + r) : words[6 + k] = WordsOf(bytes)[k]
    BY <1>2, <1>3, ReceiverWordsProperties
  <1> HIDE DEF words
  <1>5. ASSUME NEW k \in 1..n PROVE words[6 + k] = bytes[2 * k - 1] * B + bytes[2 * k]
    <2>1. k \in 1..(n + r)
      OBVIOUS
    <2>2. QED
      BY <1>2, <1>4, <2>1
  <1>6. ASSUME r = 1 PROVE words[7 + n] = bytes[2 * n + 1] * B
    <2>1. n + 1 \in 1..(n + r) /\ 6 + (n + 1) = 7 + n
      BY <1>6
    <2>2. words[6 + (n + 1)] = WordsOf(bytes)[n + 1]
      BY <1>4, <2>1
    <2>3. QED
      BY <1>2, <1>6, <2>1, <2>2
  <1>7. Len(words) = 6 + n + r
    BY <1>4
  <1>8. QED
    BY <1>1, <1>4, <1>5, <1>6, <1>7 DEF words

\* The pseudo header, whatever the order of its additions.
LEMMA PseudoHeaderSum ==
  ASSUME NEW words \in Seq(0..AllOnes), Len(words) >= 6
  PROVE  Congruent(words[1] + words[2] + words[3] + words[4] + words[5] + words[6],
                   RunningSum(words)[6])
  <1>0. Len(words) \in Nat /\ \A k \in 1..6 : k \in 1..Len(words)
    OBVIOUS
  <1>1. \A k \in 1..6 : words[k] \in Int
    BY <1>0, WordSize
  <1>w1. PICK w1 \in Int : w1 = words[1]
    BY <1>1
  <1>w2. PICK w2 \in Int : w2 = words[2]
    BY <1>1
  <1>w3. PICK w3 \in Int : w3 = words[3]
    BY <1>1
  <1>w4. PICK w4 \in Int : w4 = words[4]
    BY <1>1
  <1>w5. PICK w5 \in Int : w5 = words[5]
    BY <1>1
  <1>w6. PICK w6 \in Int : w6 = words[6]
    BY <1>1
  <1>a. \A a \in Int : \A k \in 1..6 :
          Congruent(a, RunningSum(words)[k - 1])
            => Congruent(a + words[k], RunningSum(words)[k])
    BY <1>0, AddedWord
  <1>3. Congruent(0, RunningSum(words)[0])
    BY RunningSumSteps, CongruentRules
  <1>4. Congruent(w1, RunningSum(words)[1])
    <2>1. Congruent(0 + words[1], RunningSum(words)[1])
      BY <1>3, <1>a
    <2>2. QED
      BY <1>w1, <2>1
  <1>5. Congruent(w1 + w2, RunningSum(words)[2])
    <2>1. PICK u \in Int : u = w1
      OBVIOUS
    <2>2. Congruent(u + words[2], RunningSum(words)[2])
      BY <1>4, <1>a, <2>1
    <2>3. QED
      BY <1>w2, <2>1, <2>2
  <1>6. Congruent(w1 + w2 + w3, RunningSum(words)[3])
    <2>1. PICK u \in Int : u = w1 + w2
      OBVIOUS
    <2>2. Congruent(u + words[3], RunningSum(words)[3])
      BY <1>5, <1>a, <2>1
    <2>3. QED
      BY <1>w3, <2>1, <2>2
  <1>7. Congruent(w1 + w2 + w3 + w4, RunningSum(words)[4])
    <2>1. PICK u \in Int : u = w1 + w2 + w3
      OBVIOUS
    <2>2. Congruent(u + words[4], RunningSum(words)[4])
      BY <1>6, <1>a, <2>1
    <2>3. QED
      BY <1>w4, <2>1, <2>2
  <1>8. Congruent(w1 + w2 + w3 + w4 + w5, RunningSum(words)[5])
    <2>1. PICK u \in Int : u = w1 + w2 + w3 + w4
      OBVIOUS
    <2>2. Congruent(u + words[5], RunningSum(words)[5])
      BY <1>7, <1>a, <2>1
    <2>3. QED
      BY <1>w5, <2>1, <2>2
  <1>9. Congruent(w1 + w2 + w3 + w4 + w5 + w6, RunningSum(words)[6])
    <2>1. PICK u \in Int : u = w1 + w2 + w3 + w4 + w5
      OBVIOUS
    <2>2. Congruent(u + words[6], RunningSum(words)[6])
      BY <1>8, <1>a, <2>1
    <2>3. QED
      BY <1>w6, <2>1, <2>2
  <1>10. QED
    BY <1>9, <1>w1, <1>w2, <1>w3, <1>w4, <1>w5, <1>w6

----------------------------------------------------------------------------
(* The steps of a write.                                                   *)

\* A length is even or odd.
LEMMA Halves ==
  ASSUME NEW x \in Nat
  PROVE  \E n \in Nat : \E r \in {0, 1} : x = 2 * n + r
  <1>1. /\ x = (x \div 2) * 2 + (x % 2)
        /\ x \div 2 \in Nat /\ x % 2 \in 0..(2 - 1)
    BY Division
  <1>2. PICK n \in Nat : n = x \div 2
    BY <1>1
  <1>3. PICK r \in {0, 1} : r = x % 2
    BY <1>1
  <1>4. x = 2 * n + r
    BY <1>1, <1>2, <1>3
  <1>5. QED
    BY <1>4

\* A uint32 does not wrap around at a sum of no more than AllOnes words.
LEMMA NoWrap ==
  ASSUME NEW x \in Nat, NEW k \in Nat, k <= AllOnes, x <= k * AllOnes
  PROVE  x % Uint32 = x
  <1>1. AllOnes \in Nat /\ Word = AllOnes + 1
    BY WordSize
  <1>2. k * AllOnes <= AllOnes * AllOnes
    BY <1>1
  <1>3. Word * Word = AllOnes * AllOnes + 2 * AllOnes + 1
    BY <1>1
  <1>4. k * AllOnes \in Nat /\ AllOnes * AllOnes \in Nat
    BY <1>1
  <1>5. x < Uint32 /\ Uint32 \in Nat
    BY <1>1, <1>2, <1>3, <1>4 DEF Uint32
  <1>6. QED
    BY <1>5

\* Two more bytes.
LEMMA ConcatPair ==
  ASSUME NEW T, NEW s \in Seq(T), NEW pair \in Seq(T), Len(pair) = 2
  PROVE  /\ s \o pair \in Seq(T) /\ Len(s \o pair) = Len(s) + 2
         /\ (s \o pair)[Len(s) + 1] = pair[1] /\ (s \o pair)[Len(s) + 2] = pair[2]
         /\ \A k \in 1..Len(s) : (s \o pair)[k] = s[k]
  <1> DEFINE t == s \o pair
             n == Len(s)
  <1>1. /\ t \in Seq(T) /\ Len(t) = n + 2
        /\ \A k \in 1..(n + 2) : t[k] = IF k <= n THEN s[k] ELSE pair[k - n]
    <2>1. /\ t \in Seq(T) /\ Len(t) = Len(s) + Len(pair)
          /\ \A k \in 1..(Len(s) + Len(pair)) :
               t[k] = IF k <= Len(s) THEN s[k] ELSE pair[k - Len(s)]
      BY ConcatProperties
    <2> HIDE DEF t
    <2>2. QED
      BY <2>1
  <1>2. n \in Nat
    OBVIOUS
  <1> HIDE DEF t, n
  <1>3. /\ n + 1 \in 1..(n + 2) /\ ~(n + 1 <= n) /\ (n + 1) - n = 1
        /\ n + 2 \in 1..(n + 2) /\ ~(n + 2 <= n) /\ (n + 2) - n = 2
    BY <1>2
  <1>4. t[n + 1] = pair[1] /\ t[n + 2] = pair[2]
    BY <1>1, <1>3
  <1>5. ASSUME NEW k \in 1..n PROVE t[k] = s[k]
    <2>1. k \in 1..(n + 2) /\ k <= n
      BY <1>2
    <2>2. QED
      BY <1>1, <2>1
  <1>6. QED
    BY <1>1, <1>4, <1>5 DEF t, n

\* writeRawUDP puts together a header of eight bytes with the length of the
\* datagram and no checksum.
LEMMA AssembleStep ==
  ASSUME ChecksumInv, Assemble
  PROVE  ChecksumInv'
  <1>0. /\ pc' \in {"pseudo", "refused"} /\ i' = 0 /\ i' \in Nat
        /\ source' \in Addresses /\ destination' \in Addresses /\ data' \in Data
        /\ sum' \in Nat /\ data \in Data
        /\ groupPort \in GroupPorts /\ groupPort' \in GroupPorts
    BY DEF Assemble, ChecksumInv
  <1>1. ASSUME pc' = "pseudo"
        PROVE  Assembled' /\ payload'[7] = 0 /\ payload'[8] = 0
    <2> DEFINE Byte == 0..(B - 1)
               n == UDPHeaderLen + Len(data)
    <2>0. data \in Seq(Byte) /\ Len(data) \in Nat /\ 0 \in Byte
      BY <1>0, ChecksumAssumption, WordSize
    <2>1. port \in 0..AllOnes /\ Len(data) <= MaxPayload
      <3>1. port \in 0..AllOnes /\ ~(Len(data) > MaxPayload)
        BY <1>1 DEF Assemble
      <3>2. MaxPayload \in Int
        BY WordSize DEF MaxPayload, IPHeaderLen, UDPHeaderLen
      <3>3. QED
        BY <2>0, <3>1, <3>2
    <2>2. n \in 0..AllOnes /\ n = 8 + Len(data) /\ IPHeaderLen + n <= AllOnes
      BY <2>0, <2>1, WordSize DEF MaxPayload, IPHeaderLen, UDPHeaderLen
    <2> HIDE DEF n
    <2>3. PICK p1 \in Byte, p2 \in Byte : PutUint16(port) = <<p1, p2>>
      BY <2>1, PutThenGet
    <2>e. PICK g1 \in Byte, g2 \in Byte : PutUint16(groupPort) = <<g1, g2>>
      <3>1. groupPort \in 0..AllOnes
        BY <1>0, ChecksumAssumption
      <3>2. QED
        BY <3>1, PutThenGet
    <2>4. PICK l1 \in Byte, l2 \in Byte :
            PutUint16(n) = <<l1, l2>> /\ l1 * B + l2 = n
      <3>1. /\ PutUint16(n) = <<PutUint16(n)[1], PutUint16(n)[2]>>
            /\ PutUint16(n)[1] \in Byte /\ PutUint16(n)[2] \in Byte
            /\ PutUint16(n)[1] * B + PutUint16(n)[2] = n
        BY <2>2, PutThenGet
      <3>2. QED
        BY <3>1
    <2> HIDE DEF Byte
    <2>b. PICK a : a = <<p1, p2>>
      OBVIOUS
    <2>f. PICK g : g = <<g1, g2>>
      OBVIOUS
    <2>c. PICK c : c = <<l1, l2>>
      OBVIOUS
    <2>d. PICK d : d = <<0, 0>>
      OBVIOUS
    <2>5. a \in Seq(Byte) /\ Len(a) = 2
      BY <2>b
    <2>g. g \in Seq(Byte) /\ Len(g) = 2
      BY <2>f
    <2>6. c \in Seq(Byte) /\ Len(c) = 2 /\ c[1] = l1 /\ c[2] = l2
      BY <2>c
    <2>7. d \in Seq(Byte) /\ Len(d) = 2 /\ d[1] = 0 /\ d[2] = 0
      BY <2>0, <2>d
    <2> DEFINE header == a \o g \o c \o d
    <2>8. /\ header \in Seq(Byte) /\ Len(header) = 8
          /\ header[5] = c[1] /\ header[6] = c[2] /\ header[7] = d[1] /\ header[8] = d[2]
      <3>1. PICK h4 : h4 = a \o g
        OBVIOUS
      <3>2. PICK h6 : h6 = h4 \o c
        OBVIOUS
      <3>3. PICK h8 : h8 = h6 \o d
        OBVIOUS
      <3>a. h4 \in Seq(Byte) /\ Len(h4) = 4
        <4>1. h4 \in Seq(Byte) /\ Len(h4) = Len(a) + 2
          BY <2>5, <2>g, <3>1, ConcatPair
        <4>2. QED
          BY <2>5, <4>1
      <3>b. h6 \in Seq(Byte) /\ Len(h6) = 6 /\ h6[5] = c[1] /\ h6[6] = c[2]
        <4>1. /\ h4 \o c \in Seq(Byte) /\ Len(h4 \o c) = Len(h4) + 2
              /\ (h4 \o c)[Len(h4) + 1] = c[1] /\ (h4 \o c)[Len(h4) + 2] = c[2]
          <5>1. h4 \in Seq(Byte) /\ c \in Seq(Byte) /\ Len(c) = 2
            BY <2>6, <3>a
          <5>2. QED
            BY <5>1, ConcatPair, Zenon
        <4>2. QED
          BY <3>2, <3>a, <4>1
      <3>c. /\ h8 \in Seq(Byte) /\ Len(h8) = 8 /\ h8[7] = d[1] /\ h8[8] = d[2]
            /\ \A k \in 1..6 : h8[k] = h6[k]
        <4>0. h6 \in Seq(Byte) /\ d \in Seq(Byte) /\ Len(d) = 2
          BY <2>7, <3>b
        <4>1. /\ h6 \o d \in Seq(Byte) /\ Len(h6 \o d) = Len(h6) + 2
              /\ (h6 \o d)[Len(h6) + 1] = d[1] /\ (h6 \o d)[Len(h6) + 2] = d[2]
          BY <4>0, ConcatPair, Zenon
        <4>2. \A k \in 1..Len(h6) : (h6 \o d)[k] = h6[k]
          BY <4>0, ConcatPair
        <4>3. Len(h6) = 6 /\ Len(h6) + 1 = 7 /\ Len(h6) + 2 = 8
          BY <3>b
        <4>4. h8 \in Seq(Byte) /\ Len(h8) = 8 /\ h8[7] = d[1] /\ h8[8] = d[2]
          BY <3>3, <4>1, <4>3
        <4>5. \A k \in 1..6 : h8[k] = h6[k]
          BY <3>3, <4>2, <4>3
        <4>6. QED
          BY <4>4, <4>5
      <3>4. header = h8
        BY <3>1, <3>2, <3>3
      <3> HIDE DEF header
      <3>5. h8[5] = c[1] /\ h8[6] = c[2]
        BY <3>b, <3>c
      <3>6. QED
        BY <3>c, <3>4, <3>5
    <2>a. payload' = header \o data
      BY <1>1, <2>3, <2>4, <2>b, <2>c, <2>d, <2>e, <2>f DEF Assemble, n
    <2> HIDE DEF header
    <2>9. header[5] = l1 /\ header[6] = l2 /\ header[7] = 0 /\ header[8] = 0
      BY <2>6, <2>7, <2>8
    <2>10. /\ payload' \in Seq(Byte) /\ Len(payload') = 8 + Len(data)
           /\ \A k \in 1..(8 + Len(data)) :
                payload'[k] = IF k <= 8 THEN header[k] ELSE data[k - 8]
      <3>1. /\ header \o data \in Seq(Byte)
            /\ Len(header \o data) = Len(header) + Len(data)
            /\ \A k \in 1..(Len(header) + Len(data)) :
                 (header \o data)[k] =
                   IF k <= Len(header) THEN header[k] ELSE data[k - Len(header)]
        BY <2>0, <2>8, ConcatProperties
      <3>2. QED
        BY <2>8, <2>a, <3>1
    <2>11. \A k \in 1..8 : payload'[k] = header[k]
      <3> SUFFICES ASSUME NEW k \in 1..8 PROVE payload'[k] = header[k]
        OBVIOUS
      <3>1. k \in 1..(8 + Len(data)) /\ k <= 8
        BY <2>0
      <3>2. QED
        BY <2>10, <3>1
    <2>12. /\ payload'[5] = l1 /\ payload'[6] = l2
           /\ payload'[7] = 0 /\ payload'[8] = 0
      BY <2>9, <2>11
    <2>13. Uint16(payload', 5) = Len(payload')
      BY <2>2, <2>4, <2>10, <2>12 DEF Uint16
    <2>14. /\ payload' \in Seq(0..(B - 1)) /\ Len(payload') >= UDPHeaderLen
           /\ IPHeaderLen + Len(payload') <= AllOnes
      BY <2>0, <2>2, <2>10 DEF Byte, UDPHeaderLen
    <2>15. QED
      BY <2>12, <2>13, <2>14 DEF Assembled
  <1>2. QED
    BY <1>0, <1>1 DEF ReceiverAccepts, ChecksumInv

\* The pseudo header makes the first six words.
LEMMA AddPseudoHeaderStep ==
  ASSUME ChecksumInv, AddPseudoHeader
  PROVE  ChecksumInv'
  <1> DEFINE words == ReceiverWords(payload)
             x == source[1] + destination[1] + source[2] + destination[2]
                    + Protocol + Len(payload)
  <1>0. /\ source \in Addresses /\ destination \in Addresses /\ data \in Data
        /\ groupPort \in GroupPorts
        /\ Assembled /\ payload[7] = 0 /\ payload[8] = 0 /\ i = 0
    BY DEF ChecksumInv, AddPseudoHeader
  <1>1. /\ pc' = "words" /\ source' = source /\ destination' = destination
        /\ groupPort' = groupPort
        /\ data' = data /\ payload' = payload /\ i' = 0 /\ sum' = x % Uint32
    BY <1>0 DEF AddPseudoHeader
  <1>2. /\ payload \in Seq(0..(B - 1)) /\ UDPHeaderLen <= Len(payload)
        /\ IPHeaderLen + Len(payload) <= AllOnes /\ Len(payload) \in Nat
    BY <1>0 DEF Assembled
  <1>3. PICK n \in Nat, r \in {0, 1} : Len(payload) = 2 * n + r
    BY <1>2, Halves
  <1>4. /\ words \in Seq(0..AllOnes) /\ Len(words) = 6 + n + r
        /\ words[1] = source[1] /\ words[2] = source[2]
        /\ words[3] = destination[1] /\ words[4] = destination[2]
        /\ words[5] = Protocol /\ words[6] = Len(payload)
    BY <1>0, <1>2, <1>3, DatagramWords
  <1>5. words' = words
    BY <1>1 DEF ReceiverWords
  <1> HIDE DEF words
  <1>6. AllOnes \in Nat /\ \A k \in 1..6 : words[k] \in 0..AllOnes
    <2>1. \A k \in 1..6 : k \in 1..Len(words)
      BY <1>4
    <2>2. QED
      BY <1>4, <2>1, ElementOfSeq, WordSize
  <1>7. Congruent(words[1] + words[2] + words[3] + words[4] + words[5] + words[6],
                  RunningSum(words)[6])
    BY <1>4, PseudoHeaderSum
  <1>8. /\ x = words[1] + words[2] + words[3] + words[4] + words[5] + words[6]
        /\ x \in Nat /\ 1 <= x /\ x <= 6 * AllOnes
    <2>w1. PICK w1 \in 0..AllOnes : w1 = words[1]
      BY <1>6
    <2>w2. PICK w2 \in 0..AllOnes : w2 = words[2]
      BY <1>6
    <2>w3. PICK w3 \in 0..AllOnes : w3 = words[3]
      BY <1>6
    <2>w4. PICK w4 \in 0..AllOnes : w4 = words[4]
      BY <1>6
    <2>w5. PICK w5 \in 0..AllOnes : w5 = words[5]
      BY <1>6
    <2>w6. PICK w6 \in 0..AllOnes : w6 = words[6]
      BY <1>6
    <2>1. x = w1 + w3 + w2 + w4 + w5 + w6 /\ w5 = 17
      BY <1>4, <2>w1, <2>w2, <2>w3, <2>w4, <2>w5, <2>w6 DEF Protocol
    <2>2. x = w1 + w2 + w3 + w4 + w5 + w6 /\ x \in Nat /\ 1 <= x /\ x <= 6 * AllOnes
      <3> HIDE DEF x
      <3>1. QED
        BY <1>6, <2>1
    <2>3. QED
      BY <2>2, <2>w1, <2>w2, <2>w3, <2>w4, <2>w5, <2>w6
  <1> HIDE DEF x
  <1>9. sum' = x
    <2>1. 6 \in Nat /\ 6 <= AllOnes
      BY WordSize
    <2>2. x % Uint32 = x
      BY <1>8, <2>1, NoWrap
    <2>3. QED
      BY <1>1, <2>2
  <1>10. Congruent(x, RunningSum(words)[6])
    BY <1>7, <1>8
  <1>11. 6 + i' \div 2 = 6 /\ i' % 2 = 0
    BY <1>1
  <1>12. SumAgrees(6 + i \div 2)'
    BY <1>5, <1>8, <1>9, <1>10, <1>11 DEF SumAgrees, words
  <1>13. Assembled' /\ payload'[7] = 0 /\ payload'[8] = 0
    BY <1>0, <1>1 DEF Assembled
  <1>14. QED
    BY <1>0, <1>1, <1>2, <1>8, <1>9, <1>11, <1>12, <1>13 DEF ChecksumInv, ReceiverAccepts

\* An even index has a half.
LEMMA EvenHalf ==
  ASSUME NEW x \in Nat, x % 2 = 0
  PROVE  \E h \in Nat : x = 2 * h /\ x \div 2 = h
  <1>1. x = (x \div 2) * 2 + (x % 2) /\ x \div 2 \in Nat
    BY Division
  <1>2. PICK h \in Nat : h = x \div 2
    BY <1>1
  <1>3. QED
    BY <1>1, <1>2

\* Every round of the loop adds the next word, and the uint32 has room for it.
LEMMA AddWordStep ==
  ASSUME ChecksumInv, AddWord
  PROVE  ChecksumInv'
  <1> DEFINE words == ReceiverWords(payload)
             s == RunningSum(words)
  <1>0. /\ source \in Addresses /\ destination \in Addresses /\ data \in Data
        /\ groupPort \in GroupPorts
        /\ Assembled /\ payload[7] = 0 /\ payload[8] = 0
        /\ i \in Nat /\ i % 2 = 0 /\ i <= Len(payload)
        /\ sum \in Nat /\ sum <= (6 + i \div 2) * AllOnes
        /\ sum >= 1 /\ Congruent(sum, s[6 + i \div 2])
    BY DEF ChecksumInv, AddWord, SumAgrees
  <1>1. /\ pc' = "words" /\ source' = source /\ destination' = destination
        /\ groupPort' = groupPort
        /\ data' = data /\ payload' = payload /\ i' = i + 2
        /\ i + 1 < Len(payload)
        /\ sum' = (sum + Uint16(payload, i + 1)) % Uint32
    BY DEF AddWord
  <1>2. /\ payload \in Seq(0..(B - 1)) /\ UDPHeaderLen <= Len(payload)
        /\ IPHeaderLen + Len(payload) <= AllOnes /\ Len(payload) \in Nat
    BY <1>0 DEF Assembled
  <1>3. PICK n \in Nat, r \in {0, 1} : Len(payload) = 2 * n + r
    BY <1>2, Halves
  <1>4. PICK h \in Nat : i = 2 * h /\ i \div 2 = h
    BY <1>0, EvenHalf
  <1>5. /\ n + r + 7 <= AllOnes
        /\ words \in Seq(0..AllOnes) /\ Len(words) = 6 + n + r
        /\ \A k \in 1..n : words[6 + k] = payload[2 * k - 1] * B + payload[2 * k]
    BY <1>0, <1>2, <1>3, DatagramWords
  <1>6. words' = words
    BY <1>1 DEF ReceiverWords
  <1>7. AllOnes \in Nat
    BY WordSize
  <1> HIDE DEF words, s
  <1>8. h + 1 \in 1..n
    BY <1>1, <1>3, <1>4
  <1>9. PICK k \in 1..Len(words) : k = 7 + h /\ k - 1 = 6 + h /\ k = 6 + (h + 1)
    BY <1>5, <1>8
  <1>10. Uint16(payload, i + 1) = words[k]
    <2>1. 2 * (h + 1) - 1 = i + 1 /\ 2 * (h + 1) = (i + 1) + 1
      BY <1>4
    <2>2. words[k] = payload[2 * (h + 1) - 1] * B + payload[2 * (h + 1)]
      BY <1>5, <1>8, <1>9
    <2>3. QED
      BY <2>1, <2>2 DEF Uint16
  <1>11. words[k] \in 0..AllOnes /\ Congruent(sum + words[k], s[k])
    <2>1. Congruent(sum, RunningSum(words)[k - 1]) /\ sum \in Int
      BY <1>0, <1>4, <1>9 DEF s
    <2>2. QED
      BY <1>5, <2>1, AddedWord DEF s
  <1>12. PICK w \in 0..AllOnes : w = words[k]
    BY <1>11
  <1>13. sum + w \in Nat /\ sum + w >= 1 /\ sum + w <= k * AllOnes
    <2>1. PICK e \in Nat : e = (6 + h) * AllOnes
      BY <1>7
    <2>2. k * AllOnes = e + AllOnes
      BY <1>7, <1>9, <2>1
    <2>3. sum <= e
      BY <1>0, <1>4, <2>1
    <2>4. QED
      BY <1>0, <1>7, <2>2, <2>3
  <1>14. sum' = sum + w
    <2>1. k \in Nat /\ k <= AllOnes
      BY <1>5, <1>7, <1>8, <1>9
    <2>2. (sum + w) % Uint32 = sum + w
      BY <1>13, <2>1, NoWrap
    <2>3. QED
      BY <1>1, <1>10, <1>12, <2>2
  <1>15. /\ i' \in Nat /\ i' % 2 = 0 /\ i' <= Len(payload') /\ 6 + i' \div 2 = k
    <2>1. i' = 2 * (h + 1) /\ i + 2 <= Len(payload)
      BY <1>1, <1>2, <1>4
    <2>2. (2 * (h + 1)) % 2 = 0 /\ (2 * (h + 1)) \div 2 = h + 1
      OBVIOUS
    <2>3. QED
      BY <1>1, <1>9, <2>1, <2>2
  <1>16. SumAgrees(6 + i \div 2)'
    BY <1>6, <1>11, <1>12, <1>13, <1>14, <1>15 DEF SumAgrees, words, s
  <1>17. Assembled' /\ payload'[7] = 0 /\ payload'[8] = 0
    BY <1>0, <1>1 DEF Assembled
  <1>18. sum' \in Nat /\ sum' <= (6 + i' \div 2) * AllOnes
    BY <1>13, <1>14, <1>15
  <1>19. QED
    BY <1>0, <1>1, <1>15, <1>16, <1>17, <1>18 DEF ChecksumInv, ReceiverAccepts

\* The loop has added every word but the one of an odd last byte.
LEMMA AddOddStep ==
  ASSUME ChecksumInv, AddOdd
  PROVE  ChecksumInv'
  <1> DEFINE words == ReceiverWords(payload)
             s == RunningSum(words)
  <1>0. /\ source \in Addresses /\ destination \in Addresses /\ data \in Data
        /\ groupPort \in GroupPorts
        /\ Assembled /\ payload[7] = 0 /\ payload[8] = 0
        /\ i \in Nat /\ i % 2 = 0 /\ i <= Len(payload)
        /\ sum \in Nat /\ sum <= (6 + i \div 2) * AllOnes
        /\ sum >= 1 /\ Congruent(sum, s[6 + i \div 2])
    BY DEF ChecksumInv, AddOdd, SumAgrees
  <1>1. /\ pc' = "fold" /\ source' = source /\ destination' = destination
        /\ groupPort' = groupPort
        /\ data' = data /\ payload' = payload /\ i' = i
        /\ i + 1 >= Len(payload)
        /\ sum' = IF Len(payload) % 2 # 0
                    THEN (sum + payload[Len(payload)] * B) % Uint32
                    ELSE sum
    BY DEF AddOdd
  <1>2. /\ payload \in Seq(0..(B - 1)) /\ UDPHeaderLen <= Len(payload)
        /\ IPHeaderLen + Len(payload) <= AllOnes /\ Len(payload) \in Nat
    BY <1>0 DEF Assembled
  <1>3. PICK n \in Nat, r \in {0, 1} : Len(payload) = 2 * n + r
    BY <1>2, Halves
  <1>4. PICK h \in Nat : i = 2 * h /\ i \div 2 = h
    BY <1>0, EvenHalf
  <1>5. /\ n + r + 7 <= AllOnes
        /\ words \in Seq(0..AllOnes) /\ Len(words) = 6 + n + r
        /\ r = 1 => words[7 + n] = payload[2 * n + 1] * B
    BY <1>0, <1>2, <1>3, DatagramWords
  <1>6. words' = words
    BY <1>1 DEF ReceiverWords
  <1>7. AllOnes \in Nat
    BY WordSize
  <1> HIDE DEF words, s
  <1>8. h = n
    BY <1>0, <1>1, <1>3, <1>4
  <1>9. sum' \in Nat /\ sum' >= 1 /\ Congruent(sum', s[Len(words)])
    <2>1. CASE r = 0
      <3>1. Len(payload) % 2 = 0
        BY <1>3, <2>1
      <3>2. Len(words) = 6 + i \div 2
        BY <1>4, <1>5, <1>8, <2>1
      <3>3. QED
        BY <1>0, <1>1, <3>1, <3>2
    <2>2. CASE r = 1
      <3>1. Len(payload) % 2 = 1 /\ Len(payload) = 2 * n + 1
        BY <1>3, <2>2
      <3>2. PICK k \in 1..Len(words) : k = 7 + n /\ k - 1 = 6 + h /\ k = Len(words)
        BY <1>5, <1>8, <2>2
      <3>3. words[k] \in 0..AllOnes /\ Congruent(sum + words[k], s[k])
        <4>1. Congruent(sum, RunningSum(words)[k - 1]) /\ sum \in Int
          BY <1>0, <1>4, <3>2 DEF s
        <4>2. QED
          BY <1>5, <4>1, AddedWord DEF s
      <3>4. PICK w \in 0..AllOnes : w = words[k]
        BY <3>3
      <3>5. sum + w \in Nat /\ sum + w >= 1 /\ sum + w <= k * AllOnes
        <4>1. PICK e \in Nat : e = (6 + h) * AllOnes
          BY <1>7
        <4>2. k * AllOnes = e + AllOnes
          BY <1>7, <1>8, <3>2, <4>1
        <4>3. sum <= e
          BY <1>0, <1>4, <4>1
        <4>4. QED
          BY <1>0, <1>7, <4>2, <4>3
      <3>6. sum' = sum + w
        <4>1. k \in Nat /\ k <= AllOnes
          BY <1>5, <1>7, <2>2, <3>2
        <4>2. (sum + w) % Uint32 = sum + w
          BY <3>5, <4>1, NoWrap
        <4>3. w = payload[Len(payload)] * B
          BY <1>5, <2>2, <3>1, <3>2, <3>4
        <4>4. QED
          BY <1>1, <3>1, <4>2, <4>3
      <3>7. QED
        BY <3>2, <3>3, <3>4, <3>5, <3>6
    <2>3. QED
      BY <2>1, <2>2
  <1>10. SumAgrees(Len(ReceiverWords(payload)))'
    BY <1>6, <1>9 DEF SumAgrees, words, s
  <1>11. Assembled' /\ payload'[7] = 0 /\ payload'[8] = 0
    BY <1>0, <1>1 DEF Assembled
  <1>12. QED
    BY <1>0, <1>1, <1>9, <1>10, <1>11 DEF ChecksumInv, ReceiverAccepts

\* Folding takes a multiple of AllOnes away and does not reach zero.
LEMMA FoldStep ==
  ASSUME ChecksumInv, Fold
  PROVE  ChecksumInv'
  <1> DEFINE words == ReceiverWords(payload)
             s == RunningSum(words)
  <1>0. /\ source \in Addresses /\ destination \in Addresses /\ data \in Data
        /\ groupPort \in GroupPorts
        /\ Assembled /\ payload[7] = 0 /\ payload[8] = 0
        /\ i \in Nat /\ sum \in Nat /\ Congruent(sum, s[Len(words)])
    BY DEF ChecksumInv, Fold, SumAgrees
  <1>1. /\ pc' = "fold" /\ source' = source /\ destination' = destination
        /\ groupPort' = groupPort
        /\ data' = data /\ payload' = payload /\ i' = i
        /\ sum > AllOnes /\ sum' = (sum % Word) + (sum \div Word)
    BY DEF Fold, TooWide
  <1>2. words' = words
    BY <1>1 DEF ReceiverWords
  <1>3. s[Len(words)] \in Int
    <2>1. /\ payload \in Seq(0..(B - 1)) /\ UDPHeaderLen <= Len(payload)
          /\ IPHeaderLen + Len(payload) <= AllOnes /\ Len(payload) \in Nat
      BY <1>0 DEF Assembled
    <2>2. PICK n \in Nat, r \in {0, 1} : Len(payload) = 2 * n + r
      BY <2>1, Halves
    <2>3. words \in Seq(0..AllOnes)
      BY <1>0, <2>1, <2>2, DatagramWords
    <2> HIDE DEF words
    <2>4. Len(words) \in 0..Len(words) /\ AllOnes \in Nat
      BY <2>3, WordSize
    <2>5. QED
      BY <2>3, <2>4, RunningSumProperties
  <1> HIDE DEF words, s
  <1>4. Word \in Nat /\ Word > 0 /\ AllOnes \in Nat /\ Word = AllOnes + 1
    BY WordSize
  <1>5. PICK q \in Nat, r \in 0..(Word - 1) :
          q = sum \div Word /\ r = sum % Word /\ sum = q * Word + r
    BY <1>0, <1>4, Division
  <1>6. sum' = r + q
    BY <1>1, <1>5
  <1>7. q >= 1
    <2> SUFFICES ASSUME q = 0 PROVE FALSE
      BY <1>5
    <2>1. sum = r
      BY <1>4, <1>5
    <2>2. QED
      BY <1>1, <1>4, <2>1
  <1>8. sum' = sum + (-q) * AllOnes
    <2>1. PICK e \in Nat : e = q * AllOnes
      BY <1>4
    <2>2. q * Word = e + q
      BY <1>4, <2>1
    <2>3. (-q) * AllOnes = -e
      BY <1>4, <2>1
    <2>4. sum = e + q + r
      BY <1>5, <2>2
    <2>5. sum' = sum + (-e)
      <3>1. r \in Int /\ q \in Int /\ e \in Int
        BY <1>4, <1>5
      <3>2. QED
        BY <1>6, <2>4, <3>1
    <2>6. QED
      BY <2>3, <2>5
  <1>9. sum' \in Nat /\ sum' >= 1
    BY <1>4, <1>5, <1>6, <1>7
  <1>10. Congruent(sum', sum)
    <2>1. -q \in Int /\ sum' \in Int /\ sum \in Int
      BY <1>0, <1>9
    <2>2. QED
      BY <1>8, <2>1, CongruentMultiple
  <1>11. Congruent(sum', s[Len(words)])
    <2>1. sum' \in Int /\ sum \in Int
      BY <1>0, <1>9
    <2>2. QED
      BY <1>0, <1>3, <1>10, <2>1, CongruentRules
  <1>12. SumAgrees(Len(ReceiverWords(payload)))'
    BY <1>2, <1>9, <1>11 DEF SumAgrees, words, s
  <1>13. Assembled' /\ payload'[7] = 0 /\ payload'[8] = 0
    BY <1>0, <1>1 DEF Assembled
  <1>14. QED
    BY <1>0, <1>1, <1>9, <1>12, <1>13 DEF ChecksumInv, ReceiverAccepts

\* The complement makes the sum a multiple of AllOnes, even where it is zero
\* and sent as all ones.
LEMMA Complement ==
  ASSUME NEW x \in Nat, x >= 1, x <= AllOnes
  PROVE  /\ OnTheWire(AllOnes - x) \in 1..AllOnes
         /\ Congruent(x + OnTheWire(AllOnes - x), 0)
  <1> DEFINE c == OnTheWire(AllOnes - x)
  <1>0. AllOnes \in Nat /\ AllOnes >= 1
    BY WordSize
  <1>1. /\ c \in 1..AllOnes
        /\ \/ x + c = 0 + 1 * AllOnes
           \/ x + c = 0 + 2 * AllOnes
    <2>1. CASE x = AllOnes
      <3>1. c = AllOnes
        BY <1>0, <2>1 DEF OnTheWire
      <3> HIDE DEF c
      <3>2. QED
        BY <1>0, <2>1, <3>1
    <2>2. CASE x < AllOnes
      <3>1. c = AllOnes - x
        BY <1>0, <2>2 DEF OnTheWire
      <3> HIDE DEF c
      <3>2. QED
        BY <1>0, <2>2, <3>1
    <2>3. QED
      BY <1>0, <2>1, <2>2
  <1> HIDE DEF c
  <1>2. x + c \in Int
    BY <1>0, <1>1
  <1>3. Congruent(x + c, 0)
    BY <1>1, <1>2, CongruentMultiple
  <1>4. QED
    BY <1>1, <1>3 DEF c

\* The complement of a sum that agrees with the receiver's makes the datagram
\* that is sent one that the receiver accepts.
LEMMA SendStep ==
  ASSUME ChecksumInv, Send
  PROVE  ChecksumInv'
  <1> DEFINE words == ReceiverWords(payload)
             s == RunningSum(words)
             c == OnTheWire(AllOnes - sum)
             patched == ReceiverWords(payload')
             t == RunningSum(patched)
             N == Len(words)
  <1>0. /\ source \in Addresses /\ destination \in Addresses /\ data \in Data
        /\ groupPort \in GroupPorts
        /\ Assembled /\ payload[7] = 0 /\ payload[8] = 0
        /\ i \in Nat /\ sum \in Nat /\ sum >= 1 /\ Congruent(sum, s[N])
    BY DEF ChecksumInv, Send, SumAgrees
  <1>1. /\ pc' = "sent" /\ source' = source /\ destination' = destination
        /\ groupPort' = groupPort
        /\ data' = data /\ i' = i /\ sum' = sum /\ ~(sum > AllOnes)
        /\ payload' = [payload EXCEPT ![7] = PutUint16(c)[1], ![8] = PutUint16(c)[2]]
    BY DEF Send, TooWide
  <1>2. /\ payload \in Seq(0..(B - 1)) /\ UDPHeaderLen <= Len(payload)
        /\ IPHeaderLen + Len(payload) <= AllOnes /\ Len(payload) \in Nat
        /\ Len(payload) >= 8 /\ Uint16(payload, 5) = Len(payload)
    BY <1>0 DEF Assembled, UDPHeaderLen
  <1>3. AllOnes \in Nat /\ sum <= AllOnes /\ B \in Nat
    BY <1>0, <1>1, WordSize
  <1>4. c \in 1..AllOnes /\ Congruent(sum + c, 0)
    BY <1>0, <1>3, Complement
  <1> HIDE DEF c
  <1>5. PICK c1 \in 0..(B - 1), c2 \in 0..(B - 1) :
          c1 = PutUint16(c)[1] /\ c2 = PutUint16(c)[2] /\ c1 * B + c2 = c
    <2>1. c \in 0..AllOnes
      BY <1>3, <1>4
    <2>2. QED
      BY <2>1, PutThenGet
  <1>6. /\ payload' \in Seq(0..(B - 1)) /\ Len(payload') = Len(payload)
        /\ payload'[7] = c1 /\ payload'[8] = c2
        /\ \A k \in 1..Len(payload) : k # 7 /\ k # 8 => payload'[k] = payload[k]
    <2> DEFINE Byte == 0..(B - 1)
    <2>1. PICK p : p = [payload EXCEPT ![7] = c1]
      OBVIOUS
    <2>2. 7 \in 1..Len(payload) /\ 8 \in 1..Len(payload)
      BY <1>2
    <2>3. payload \in Seq(Byte) /\ c1 \in Byte /\ c2 \in Byte
      BY <1>2
    <2> HIDE DEF Byte
    <2>4. /\ p \in Seq(Byte) /\ Len(p) = Len(payload)
          /\ \A k \in 1..Len(payload) : p[k] = IF k = 7 THEN c1 ELSE payload[k]
      BY <2>1, <2>2, <2>3, ExceptSeq
    <2>5. payload' = [p EXCEPT ![8] = c2]
      BY <1>1, <1>5, <2>1
    <2>6. /\ payload' \in Seq(Byte) /\ Len(payload') = Len(p)
          /\ \A k \in 1..Len(p) : payload'[k] = IF k = 8 THEN c2 ELSE p[k]
      BY <2>2, <2>3, <2>4, <2>5, ExceptSeq
    <2>7. QED
      BY <2>2, <2>4, <2>6 DEF Byte
  <1>7. PICK n \in Nat, r \in {0, 1} : Len(payload) = 2 * n + r
    BY <1>2, Halves
  <1>8. /\ n >= 4 /\ words \in Seq(0..AllOnes) /\ N = 6 + n + r
        /\ words[1] = source[1] /\ words[2] = source[2]
        /\ words[3] = destination[1] /\ words[4] = destination[2]
        /\ words[5] = Protocol /\ words[6] = Len(payload)
        /\ \A k \in 1..n : words[6 + k] = payload[2 * k - 1] * B + payload[2 * k]
        /\ r = 1 => words[7 + n] = payload[2 * n + 1] * B
    BY <1>0, <1>2, <1>7, DatagramWords
  <1>9. /\ patched \in Seq(0..AllOnes) /\ Len(patched) = 6 + n + r
        /\ patched[1] = source[1] /\ patched[2] = source[2]
        /\ patched[3] = destination[1] /\ patched[4] = destination[2]
        /\ patched[5] = Protocol /\ patched[6] = Len(payload')
        /\ \A k \in 1..n : patched[6 + k] = payload'[2 * k - 1] * B + payload'[2 * k]
        /\ r = 1 => patched[7 + n] = payload'[2 * n + 1] * B
    <2>1. /\ payload' \in Seq(0..(B - 1)) /\ UDPHeaderLen <= Len(payload')
          /\ IPHeaderLen + Len(payload') <= AllOnes /\ Len(payload') = 2 * n + r
      BY <1>2, <1>6, <1>7
    <2>2. QED
      BY <1>0, <2>1, DatagramWords
  <1>10. ReceiverWords(payload)' = patched
    BY <1>1 DEF ReceiverWords
  <1> HIDE DEF words, patched, s, t, N
  <1>11. words[10] = 0 /\ patched[10] = c
    <2>1. 4 \in 1..n /\ 6 + 4 = 10 /\ 2 * 4 - 1 = 7 /\ 2 * 4 = 8
      BY <1>8
    <2>2. words[10] = payload[7] * B + payload[8]
      BY <1>8, <2>1
    <2>3. patched[10] = payload'[7] * B + payload'[8]
      BY <1>9, <2>1
    <2>4. QED
      BY <1>0, <1>3, <1>5, <1>6, <2>2, <2>3
  <1>12. ASSUME NEW k \in 1..N, k # 10 PROVE patched[k] = words[k]
    <2>1. CASE k <= 6
      <3>1. k \in {1, 2, 3, 4, 5, 6}
        BY <2>1
      <3>2. QED
        BY <1>6, <1>8, <1>9, <3>1
    <2>2. CASE k > 6 /\ k <= 6 + n
      <3>1. PICK m \in 1..n : k = 6 + m /\ m # 4
        <4>1. k - 6 \in 1..n /\ k = 6 + (k - 6) /\ k - 6 # 4
          BY <1>12, <2>2
        <4>2. QED
          BY <4>1
      <3>2. 2 * m - 1 \in 1..Len(payload) /\ 2 * m \in 1..Len(payload)
        BY <1>7
      <3>3. 2 * m - 1 # 7 /\ 2 * m # 8 /\ 2 * m - 1 # 8 /\ 2 * m # 7
        BY <3>1
      <3>4. payload'[2 * m - 1] = payload[2 * m - 1] /\ payload'[2 * m] = payload[2 * m]
        BY <1>6, <3>2, <3>3
      <3>5. QED
        BY <1>8, <1>9, <3>1, <3>4
    <2>3. CASE k > 6 + n
      <3>1. r = 1 /\ k = 7 + n
        BY <1>8, <2>3
      <3>2. 2 * n + 1 \in 1..Len(payload) /\ 2 * n + 1 # 7 /\ 2 * n + 1 # 8
        BY <1>7, <1>8, <3>1
      <3>3. payload'[2 * n + 1] = payload[2 * n + 1]
        BY <1>6, <3>2
      <3>4. QED
        BY <1>8, <1>9, <3>1, <3>3
    <2>4. N \in Nat
      BY <1>8
    <2>5. QED
      BY <2>1, <2>2, <2>3, <2>4
  <1>13. N \in Nat /\ 10 \in 1..N /\ 5 \in 1..N /\ N \in 0..N /\ N \in 5..N /\ Len(patched) = N
    BY <1>8, <1>9
  <1>14. Congruent(t[N], s[N] + c)
    <2>1. 10 \in 1..Len(words) /\ Len(patched) = Len(words)
      BY <1>13 DEF N
    <2>2. \A k \in 1..Len(words) : k # 10 => patched[k] = words[k]
      BY <1>12 DEF N
    <2>3. Congruent(RunningSum(patched)[Len(words)],
                    RunningSum(words)[Len(words)] + patched[10])
      BY <1>8, <1>9, <1>11, <2>1, <2>2, RunningSumPatched
    <2>4. QED
      BY <1>11, <2>3 DEF N, s, t
  <1>15. PICK x \in 0..AllOnes : x = s[N]
    BY <1>8, <1>13, RunningSumProperties DEF s, N
  <1>16. PICK y \in 0..AllOnes : y = t[N]
    BY <1>9, <1>13, RunningSumProperties DEF t
  <1>17. y > 0
    <2>1. patched[5] > 0
      BY <1>9 DEF Protocol
    <2>2. RunningSum(patched)[N] > 0
      BY <1>9, <1>13, <2>1, RunningSumPositive
    <2>3. QED
      BY <1>16, <2>2 DEF t
  <1>18. Congruent(y, 0)
    <2>0. /\ x \in Int /\ y \in Int /\ c \in Int /\ sum \in Int
          /\ x + c \in Int /\ sum + c \in Int
      BY <1>0, <1>3, <1>4
    <2>1. Congruent(y, x + c)
      BY <1>14, <1>15, <1>16
    <2>2. Congruent(sum, x)
      BY <1>0, <1>15
    <2>3. Congruent(sum + c, x + c)
      BY <2>0, <2>2, CongruentRules
    <2>4. Congruent(x + c, sum + c)
      BY <2>0, <2>3, CongruentRules
    <2>5. Congruent(y, sum + c)
      BY <2>0, <2>1, <2>4, CongruentRules
    <2>6. QED
      BY <1>4, <2>0, <2>5, CongruentRules
  <1>19. y = AllOnes
    <2>1. y \in Int /\ 0 \in Int
      BY <1>3
    <2>2. PICK q \in Int : y = 0 + q * AllOnes
      BY <1>18, <2>1, CongruentMultiple
    <2>3. q >= 1
      <3> SUFFICES ASSUME q <= 0 PROVE FALSE
        OBVIOUS
      <3>1. PICK e \in Int : e = q * AllOnes
        BY <1>3
      <3>2. e <= 0
        BY <1>3, <3>1
      <3>3. y = e
        BY <2>2, <3>1
      <3>4. QED
        BY <1>17, <3>2, <3>3
    <2>4. q <= 1
      <3> SUFFICES ASSUME q >= 2 PROVE FALSE
        OBVIOUS
      <3>1. q * AllOnes >= 2 * AllOnes
        BY <1>3
      <3>2. QED
        BY <1>3, <1>17, <2>1, <2>2, <3>1
    <2>5. q = 1
      BY <2>3, <2>4
    <2>6. QED
      BY <1>3, <2>1, <2>2, <2>5
  <1>20. Uint16(payload', 5) = Len(payload') /\ Uint16(payload', 7) # 0
    <2>1. 5 \in 1..Len(payload) /\ 6 \in 1..Len(payload)
      BY <1>2
    <2>2. payload'[5] = payload[5] /\ payload'[6] = payload[6]
      BY <1>6, <2>1
    <2>3. QED
      BY <1>2, <1>4, <1>5, <1>6, <2>2 DEF Uint16
  <1>21. ReceiverAccepts'
    <2>1. RunningSum(patched)[Len(patched)] = AllOnes
      BY <1>13, <1>16, <1>19 DEF t
    <2>2. QED
      BY <1>2, <1>6, <1>10, <1>20, <2>1 DEF ReceiverAccepts
  <1>22. QED
    BY <1>0, <1>1, <1>21 DEF ChecksumInv

----------------------------------------------------------------------------
(* The results.                                                            *)

\* ChecksumInv is inductive: the uint32 of udpChecksum never wraps around, and
\* is at every step what a receiver has after the same words, but for carries
\* that have yet to come back in.
THEOREM ChecksumInvariant == ChecksumSpec => []ChecksumInv
  <1>1. ChecksumInit => ChecksumInv
    BY DEF ChecksumInit, ChecksumInv, ReceiverAccepts
  <1>2. ChecksumInv /\ [ChecksumNext]_checksumVars => ChecksumInv'
    <2> SUFFICES ASSUME ChecksumInv, [ChecksumNext]_checksumVars PROVE ChecksumInv'
      OBVIOUS
    <2>1. CASE Assemble
      BY <2>1, AssembleStep
    <2>2. CASE AddPseudoHeader
      BY <2>2, AddPseudoHeaderStep
    <2>3. CASE AddWord
      BY <2>3, AddWordStep
    <2>4. CASE AddOdd
      BY <2>4, AddOddStep
    <2>5. CASE Fold
      BY <2>5, FoldStep
    <2>6. CASE Send
      BY <2>6, SendStep
    <2>7. CASE UNCHANGED checksumVars
      <3>1. ReceiverWords(payload)' = ReceiverWords(payload)
        BY <2>7 DEF checksumVars, ReceiverWords
      <3>2. QED
        BY <2>7, <3>1 DEF ChecksumInv, checksumVars, Assembled, SumAgrees, ReceiverAccepts
    <2>8. QED
      BY <2>1, <2>2, <2>3, <2>4, <2>5, <2>6, <2>7 DEF ChecksumNext
  <1>3. QED
    BY <1>1, <1>2, PTL DEF ChecksumSpec

\* Every datagram that writeRawUDP sends is one that a receiver accepts, for
\* every width of a byte, addresses, ports and payload of any length and content.
THEOREM EveryDatagramAccepted == ChecksumSpec => []ReceiverAccepts
  <1>1. ChecksumInv => ReceiverAccepts
    BY DEF ChecksumInv
  <1>2. QED
    BY <1>1, ChecksumInvariant, PTL
============================================================================
