------------------------ MODULE LoopBarriersProofs ------------------------
(***************************************************************************)
(* Proofs about LoopBarriers, for any namespaces on any networks and any   *)
(* windows.  How long a packet may be under way, and how far apart clients *)
(* send the payload, are the hypotheses of the theorems: they are what the *)
(* windows have to be chosen for.                                          *)
(***************************************************************************)
EXTENDS LoopBarriers, FiniteSetTheorems, TLAPS

\* The constants are naturals.
LEMMA Bounds ==
  /\ Window \in Nat /\ Window > 0 /\ selfEchoWindow \in Nat /\ selfEchoWindow > 0
  /\ ChannelBuffer \in Nat /\ ChannelBuffer > 0
  /\ MaxDelay \in Nat /\ Gap \in Nat /\ MaxSends \in Nat
  BY BarrierAssumption

----------------------------------------------------------------------------
(* Queues and the ages of what is in them.                                 *)

\* What a queue holds is of the queue's type.
LEMMA AgesTypes ==
  ASSUME NEW S, NEW q \in Seq(S)
  PROVE  (\A i \in DOMAIN q : q[i] \in S) /\ Ages(q) \subseteq S
  BY DEF Ages

\* A send on a channel adds one age to its queue.
LEMMA AppendAges ==
  ASSUME NEW S, NEW q \in Seq(S), NEW x \in S
  PROVE  Append(q, x) \in Seq(S) /\ Ages(Append(q, x)) = Ages(q) \cup {x}
  <1>1. /\ Append(q, x) \in Seq(S)
        /\ DOMAIN Append(q, x) = 1..(Len(q) + 1) /\ DOMAIN q = 1..Len(q) /\ Len(q) \in Nat
        /\ \A i \in 1..Len(q) : Append(q, x)[i] = q[i]
        /\ Append(q, x)[Len(q) + 1] = x
    OBVIOUS
  <1>2. Ages(Append(q, x)) \subseteq Ages(q) \cup {x}
    BY <1>1 DEF Ages
  <1>3. Ages(q) \subseteq Ages(Append(q, x)) /\ x \in Ages(Append(q, x))
    BY <1>1 DEF Ages
  <1>4. QED
    BY <1>1, <1>2, <1>3

\* A receive takes the age at the queue's head and adds none.
LEMMA TailAges ==
  ASSUME NEW S, NEW q \in Seq(S), q # <<>>
  PROVE  /\ Tail(q) \in Seq(S) /\ Ages(Tail(q)) \subseteq Ages(q)
         /\ Head(q) \in S /\ Head(q) \in Ages(q)
  <1>1. /\ Tail(q) \in Seq(S) /\ Len(q) \in Nat /\ Len(q) > 0 /\ DOMAIN q = 1..Len(q)
        /\ DOMAIN Tail(q) = 1..(Len(q) - 1)
        /\ \A i \in 1..(Len(q) - 1) : Tail(q)[i] = q[i + 1]
        /\ Head(q) = q[1] /\ Head(q) \in S
    OBVIOUS
  <1>2. QED
    BY <1>1 DEF Ages

\* Delivered copies add one age, and leave the buffer with something in it.
LEMMA CopiesAges ==
  ASSUME NEW S, NEW q \in Seq(S), NEW x \in S, NEW n \in Nat
  PROVE  /\ q \o Repeat(x, n) \in Seq(S)
         /\ Ages(q \o Repeat(x, n)) \subseteq Ages(q) \cup {x}
         /\ n > 0 => q \o Repeat(x, n) # <<>>
         /\ q # <<>> => q \o Repeat(x, n) # <<>>
  <1> DEFINE c == Repeat(x, n)
  <1>1. c \in Seq(S) /\ Len(c) = n /\ \A i \in 1..n : c[i] = x
    BY DEF Repeat
  <1> HIDE DEF c
  <1>2. /\ q \o c \in Seq(S) /\ Len(q \o c) = Len(q) + n /\ Len(q) \in Nat
        /\ DOMAIN q = 1..Len(q) /\ DOMAIN (q \o c) = 1..(Len(q) + n)
        /\ \A i \in 1..(Len(q) + n) :
             (q \o c)[i] = IF i <= Len(q) THEN q[i] ELSE c[i - Len(q)]
    BY <1>1
  <1>3. Ages(q \o c) \subseteq Ages(q) \cup {x}
    BY <1>1, <1>2 DEF Ages
  <1>4. n > 0 \/ q # <<>> => q \o c # <<>>
    BY <1>2
  <1>5. QED
    BY <1>2, <1>3, <1>4 DEF c

\* A tick makes every age in a queue that is not overdue one larger.
LEMMA OlderAges ==
  ASSUME NEW q \in Seq(0..MaxDelay), NotOverdue(q)
  PROVE  Older(q) \in Seq(0..MaxDelay) /\ Ages(Older(q)) = {age + 1 : age \in Ages(q)}
  <1>1. /\ DOMAIN q = 1..Len(q) /\ Len(q) \in Nat /\ DOMAIN Older(q) = 1..Len(q)
        /\ \A i \in 1..Len(q) : Older(q)[i] = q[i] + 1 /\ q[i] + 1 \in 0..MaxDelay
    BY BarrierAssumption DEF Older, NotOverdue
  <1>2. Older(q) \in Seq(0..MaxDelay)
    BY <1>1 DEF Older
  <1>3. QED
    BY <1>1, <1>2 DEF Ages

\* A segment that the path is on brings it a copy.
LEMMA CopiesNat ==
  ASSUME NEW p \in Paths, NEW S, NEW segments \in Seq(S)
  PROVE  /\ Copies(p, segments) \in Nat
         /\ \A i \in DOMAIN segments : segments[i] \in SegmentsOf(p) => Copies(p, segments) > 0
  <1> DEFINE hits == {i \in DOMAIN segments : segments[i] \in SegmentsOf(p)}
  <1>1. IsFiniteSet(1..Len(segments))
    <2>1. Len(segments) \in Int
      OBVIOUS
    <2>2. QED
      BY <2>1, FS_Interval
  <1>2. hits \subseteq 1..Len(segments)
    OBVIOUS
  <1>3. IsFiniteSet(hits)
    BY <1>1, <1>2, FS_Subset
  <1>4. Cardinality(hits) \in Nat /\ (Cardinality(hits) = 0 <=> hits = {})
    BY <1>3, FS_CardinalityType, FS_EmptySet
  <1>5. Copies(p, segments) = Cardinality(hits)
    BY DEF Copies
  <1>6. \A i \in DOMAIN segments : segments[i] \in SegmentsOf(p) => hits # {}
    OBVIOUS
  <1> HIDE DEF hits
  <1>7. QED
    BY <1>4, <1>5, <1>6

----------------------------------------------------------------------------
(* What each step does to the packets under way.                           *)

\* Multicast puts copies of one age into sockets.
LEMMA DeliverTypes ==
  ASSUME inbox \in [Paths -> Seq(0..MaxDelay)], NEW age \in 0..MaxDelay,
         NEW S, NEW segments \in Seq(S), Deliver(segments, age)
  PROVE  /\ inbox' \in [Paths -> Seq(0..MaxDelay)]
         /\ \A p \in Paths : Ages(inbox'[p]) \subseteq Ages(inbox[p]) \cup {age}
         /\ \A p \in Paths, i \in DOMAIN segments :
              segments[i] \in SegmentsOf(p) => inbox'[p] # <<>>
  <1>1. ASSUME NEW p \in Paths
        PROVE  /\ inbox'[p] \in Seq(0..MaxDelay)
               /\ Ages(inbox'[p]) \subseteq Ages(inbox[p]) \cup {age}
               /\ \A i \in DOMAIN segments : segments[i] \in SegmentsOf(p) => inbox'[p] # <<>>
    <2> DEFINE n == Copies(p, segments)
    <2>1. n \in Nat /\ \A i \in DOMAIN segments : segments[i] \in SegmentsOf(p) => n > 0
      BY CopiesNat
    <2>2. inbox'[p] = inbox[p] \o Repeat(age, n)
      BY DEF Deliver
    <2> HIDE DEF n
    <2>3. inbox[p] \in Seq(0..MaxDelay)
      OBVIOUS
    <2> DEFINE T == 0..MaxDelay
    <2>4. inbox[p] \in Seq(T) /\ age \in T
      BY <2>3
    <2> HIDE DEF T
    <2>5. inbox[p] \o Repeat(age, n) \in Seq(T)
      BY <2>1, <2>4, CopiesAges
    <2>6. Ages(inbox[p] \o Repeat(age, n)) \subseteq Ages(inbox[p]) \cup {age}
      BY <2>1, <2>4, CopiesAges
    <2>7. n > 0 => inbox[p] \o Repeat(age, n) # <<>>
      BY <2>1, <2>4, CopiesAges
    <2>8. /\ inbox'[p] \in Seq(T)
          /\ Ages(inbox'[p]) \subseteq Ages(inbox[p]) \cup {age}
          /\ n > 0 => inbox'[p] # <<>>
      BY <2>2, <2>5, <2>6, <2>7, Zenon
    <2>9. QED
      BY <2>1, <2>8, Zenon DEF T
  <1>2. inbox' = [p \in Paths |-> inbox'[p]]
    BY DEF Deliver
  <1>3. QED
    BY <1>1, <1>2

\* The ages of what is under way are ages.
LEMMA UnderWayTypes ==
  ASSUME TypeOK
  PROVE  UnderWay \subseteq 0..MaxDelay
  <1> DEFINE T == 0..MaxDelay
           B == [src : Paths, age : T]
  <1>1. bcast \in Seq(B) /\ \A p \in Paths : inbox[p] \in Seq(T) /\ sendq[p] \in Seq(T)
    BY DEF TypeOK
  <1>2. \A x \in B : x.age \in T
    OBVIOUS
  <1> HIDE DEF T, B
  <1>3. \A p \in Paths : Ages(inbox[p]) \subseteq T /\ Ages(sendq[p]) \subseteq T
    BY <1>1, AgesTypes
  <1>4. \A i \in DOMAIN bcast : bcast[i].age \in T
    BY <1>1, <1>2, AgesTypes
  <1>5. UnderWay \subseteq T
    BY <1>3, <1>4 DEF UnderWay
  <1>6. QED
    BY <1>5 DEF T

\* A client's send adds packets of age 0, at every path on its segment.
LEMMA ClientEffect ==
  ASSUME TypeOK, NEW s \in ClientSegments, ClientSends(s)
  PROVE  TypeOK' /\ UnderWay' \subseteq UnderWay \cup {0}
         /\ \A p \in Paths : s \in SegmentsOf(p) => inbox'[p] # <<>>
  <1>1. <<s>> \in Seq({s}) /\ 0 \in 0..MaxDelay /\ 1 \in DOMAIN <<s>> /\ <<s>>[1] = s
    BY BarrierAssumption
  <1>2. Deliver(<<s>>, 0)
    BY DEF ClientSends
  <1>3. /\ inbox' \in [Paths -> Seq(0..MaxDelay)]
        /\ \A p \in Paths : Ages(inbox'[p]) \subseteq Ages(inbox[p]) \cup {0}
        /\ \A p \in Paths : s \in SegmentsOf(p) => inbox'[p] # <<>>
    BY <1>1, <1>2, DeliverTypes DEF TypeOK
  <1>4. sends' \in 0..MaxSends /\ since' \in 0..Gap
    BY BarrierAssumption DEF ClientSends, TypeOK
  <1>5. TypeOK'
    BY <1>3, <1>4 DEF ClientSends, TypeOK
  <1>6. UnderWay' \subseteq UnderWay \cup {0}
    BY <1>3 DEF ClientSends, UnderWay
  <1>7. QED
    BY <1>3, <1>5, <1>6

\* A receive loop moves a packet, which keeps its age, or discards an echo.
LEMMA ReceiveEffect ==
  ASSUME TypeOK, NEW p \in Paths, Receive(p)
  PROVE  TypeOK' /\ UnderWay' \subseteq UnderWay
         /\ (~isSelfEcho(p) => bcast' # <<>>)
  <1> DEFINE T == 0..MaxDelay
           B == [src : Paths, age : T]
           h == Head(inbox[p])
           m == [src |-> p, age |-> h]
  <1>1. inbox[p] \in Seq(T) /\ inbox[p] # <<>> /\ bcast \in Seq(B)
    BY DEF TypeOK, Receive
  <1> HIDE DEF T
  <1>2. Tail(inbox[p]) \in Seq(T) /\ h \in T
    BY <1>1, TailAges
  <1>3. Ages(Tail(inbox[p])) \subseteq Ages(inbox[p]) /\ h \in Ages(inbox[p])
    BY <1>1, TailAges
  <1> HIDE DEF h
  <1>4. m \in B /\ m.age = h
    BY <1>2
  <1> HIDE DEF B, m
  <1>5. inbox' = [inbox EXCEPT ![p] = Tail(inbox[p])]
    BY DEF Receive
  <1>6. \/ bcast' = bcast /\ isSelfEcho(p)
        \/ bcast' = Append(bcast, m)
    BY DEF Receive, m, h
  <1>7. Append(bcast, m) \in Seq(B) /\ Len(Append(bcast, m)) = Len(bcast) + 1 /\ Len(bcast) \in Nat
    BY <1>1, <1>4
  <1>8. \A i \in DOMAIN Append(bcast, m) :
          (i \in DOMAIN bcast /\ Append(bcast, m)[i] = bcast[i]) \/ Append(bcast, m)[i] = m
    BY <1>1, <1>4
  <1>9. bcast' \in Seq(B) /\ (~isSelfEcho(p) => bcast' # <<>>)
    <2>1. CASE bcast' = bcast /\ isSelfEcho(p)
      BY <1>1, <2>1
    <2>2. CASE bcast' = Append(bcast, m)
      <3>1. Append(bcast, m) # <<>>
        BY <1>7
      <3>2. QED
        BY <1>7, <2>2, <3>1, Zenon
    <2>3. QED
      BY <1>6, <2>1, <2>2
  <1>10. inbox' \in [Paths -> Seq(T)]
    BY <1>2, <1>5 DEF TypeOK, T
  <1>11. TypeOK'
    BY <1>9, <1>10 DEF TypeOK, Receive, T, B
  <1>12. \A q \in Paths : Ages(inbox'[q]) \subseteq Ages(inbox[q])
    BY <1>3, <1>5 DEF TypeOK
  <1>13. \A i \in DOMAIN bcast' :
           (i \in DOMAIN bcast /\ bcast'[i].age = bcast[i].age) \/ bcast'[i].age = h
    BY <1>4, <1>6, <1>8
  <1>14. UnderWay' \subseteq UnderWay
    BY <1>3, <1>12, <1>13 DEF UnderWay, Receive
  <1>15. QED
    BY <1>9, <1>11, <1>14

\* What broadcast takes from its queue.
LEMMA BroadcastTypes ==
  ASSUME TypeOK, Broadcast
  PROVE  /\ bcast' \in Seq([src : Paths, age : 0..MaxDelay])
         /\ {bcast'[i].age : i \in DOMAIN bcast'} \subseteq {bcast[i].age : i \in DOMAIN bcast}
         /\ \E age \in UnderWay : age \in 0..MaxDelay
  <1> DEFINE B == [src : Paths, age : 0..MaxDelay]
  <1>1. bcast \in Seq(B) /\ bcast # <<>> /\ bcast' = Tail(bcast)
    BY DEF TypeOK, Broadcast
  <1>2. \A x \in B : x.age \in 0..MaxDelay
    OBVIOUS
  <1> HIDE DEF B
  <1>3. /\ bcast' \in Seq(B) /\ Len(bcast) \in Nat /\ Len(bcast) > 0 /\ Len(bcast') = Len(bcast) - 1
        /\ DOMAIN bcast = 1..Len(bcast) /\ DOMAIN bcast' = 1..(Len(bcast) - 1)
        /\ \A i \in 1..(Len(bcast) - 1) : bcast'[i] = bcast[i + 1]
        /\ bcast[1] \in B
    BY <1>1
  <1>4. {bcast'[i].age : i \in DOMAIN bcast'} \subseteq {bcast[i].age : i \in DOMAIN bcast}
    BY <1>3
  <1>5. bcast[1].age \in UnderWay /\ bcast[1].age \in 0..MaxDelay
    BY <1>2, <1>3 DEF UnderWay
  <1>6. QED
    BY <1>3, <1>4, <1>5 DEF B

\* broadcast adds packets of age 0, and only when the guard has no entry.
LEMMA BroadcastEffect ==
  ASSUME TypeOK, Broadcast
  PROVE  TypeOK' /\ UnderWay' \subseteq UnderWay \cup {0}
         /\ (guard > 0 => UnderWay' \subseteq UnderWay)
  <1> DEFINE T == 0..MaxDelay
  <1>1. 0 \in T /\ \A p \in Paths : sendq[p] \in Seq(T) /\ Len(sendq[p]) <= ChannelBuffer
    BY BarrierAssumption DEF TypeOK
  <1> HIDE DEF T
  <1>2. ASSUME NEW p \in Paths
        PROVE  /\ Append(sendq[p], 0) \in Seq(T)
               /\ Len(sendq[p]) \in Nat /\ Len(Append(sendq[p], 0)) = Len(sendq[p]) + 1
               /\ Ages(Append(sendq[p], 0)) = Ages(sendq[p]) \cup {0}
    <2>1. Append(sendq[p], 0) \in Seq(T)
      BY <1>1
    <2>2. Len(sendq[p]) \in Nat /\ Len(Append(sendq[p], 0)) = Len(sendq[p]) + 1
      BY <1>1
    <2>3. Ages(Append(sendq[p], 0)) = Ages(sendq[p]) \cup {0}
      BY <1>1, AppendAges
    <2>4. QED
      BY <2>1, <2>2, <2>3
  <1>3. \A p \in Paths :
          \/ sendq'[p] = sendq[p]
          \/ guard = 0 /\ sendq'[p] = Append(sendq[p], 0) /\ Len(sendq[p]) < ChannelBuffer
    BY DEF Broadcast, HasRoom, TypeOK
  <1>4. sendq' = [p \in Paths |-> sendq'[p]]
    BY DEF Broadcast, TypeOK
  <1>5. ASSUME NEW p \in Paths
        PROVE  sendq'[p] \in Seq(T) /\ Len(sendq'[p]) <= ChannelBuffer
    <2>1. CASE sendq'[p] = sendq[p]
      BY <1>1, <2>1
    <2>2. CASE sendq'[p] = Append(sendq[p], 0) /\ Len(sendq[p]) < ChannelBuffer
      <3>1. Append(sendq[p], 0) \in Seq(T)
        BY <1>2
      <3>2. Len(Append(sendq[p], 0)) <= ChannelBuffer
        BY <1>2, <2>2, Bounds
      <3>3. QED
        BY <2>2, <3>1, <3>2
    <2>3. QED
      BY <1>3, <2>1, <2>2
  <1>6. sendq' \in [Paths -> Seq(T)]
    BY <1>4, <1>5
  <1>7. guard' \in 0..Window /\ passes' \in Nat
    <2>1. (guard' = guard \/ guard' = Window) /\ (passes' = passes \/ passes' = passes + 1)
      BY DEF Broadcast, GuardEntry
    <2>2. guard \in 0..Window /\ passes \in Nat
      BY DEF TypeOK
    <2>3. QED
      BY <2>1, <2>2, Bounds
  <1>8. TypeOK'
    BY <1>5, <1>6, <1>7, BroadcastTypes DEF TypeOK, Broadcast, T
  <1>9. ASSUME NEW p \in Paths
        PROVE  /\ Ages(sendq'[p]) \subseteq Ages(sendq[p]) \cup {0}
               /\ guard > 0 => Ages(sendq'[p]) = Ages(sendq[p])
    <2>1. CASE sendq'[p] = sendq[p]
      BY <2>1
    <2>2. CASE guard = 0 /\ sendq'[p] = Append(sendq[p], 0)
      <3>1. Ages(Append(sendq[p], 0)) = Ages(sendq[p]) \cup {0}
        BY <1>2
      <3>2. QED
        BY <2>2, <3>1
    <2>3. QED
      BY <1>3, <2>1, <2>2
  <1>10. inbox' = inbox
    BY DEF Broadcast
  <1>11. {bcast'[i].age : i \in DOMAIN bcast'} \subseteq {bcast[i].age : i \in DOMAIN bcast}
    BY BroadcastTypes
  <1>12. UnderWay' \subseteq UnderWay \cup {0} /\ (guard > 0 => UnderWay' \subseteq UnderWay)
    BY <1>9, <1>10, <1>11 DEF UnderWay
  <1>13. QED
    BY <1>8, <1>12

\* A worker's write turns one packet into copies of its age and marks its socket.
LEMMA WriteEffect ==
  ASSUME TypeOK, NEW p \in Paths, Write(p)
  PROVE  /\ TypeOK' /\ UnderWay' \subseteq UnderWay
         /\ \E age \in UnderWay : age \in 0..MaxDelay
         /\ \A q \in Paths : mark'[q] = IF q = p THEN selfEchoWindow ELSE mark[q]
  <1> DEFINE T == 0..MaxDelay
           h == Head(sendq[p])
  <1>1. sendq[p] \in Seq(T) /\ sendq[p] # <<>>
    BY DEF TypeOK, Write
  <1>2. PICK raw \in {<<>>, Links[p]} : Deliver(raw \o Links[p], h)
    BY DEF Write
  <1> HIDE DEF T
  <1>3. Tail(sendq[p]) \in Seq(T) /\ h \in T
    BY <1>1, TailAges
  <1>4. Ages(Tail(sendq[p])) \subseteq Ages(sendq[p]) /\ h \in Ages(sendq[p])
    BY <1>1, TailAges
  <1>5. Len(Tail(sendq[p])) <= ChannelBuffer
    <2>1. Len(Tail(sendq[p])) = Len(sendq[p]) - 1 /\ Len(sendq[p]) \in Nat
      BY <1>1
    <2>2. Len(sendq[p]) <= ChannelBuffer
      BY DEF TypeOK
    <2>3. QED
      BY <2>1, <2>2, Bounds
  <1> HIDE DEF h
  <1>6. raw \o Links[p] \in Seq(SegmentsOf(p))
    <2>1. Links[p] \in Seq(SegmentsOf(p))
      BY BarrierAssumption
    <2>2. raw = <<>> \/ raw = Links[p]
      BY <1>2
    <2>3. raw \in Seq(SegmentsOf(p))
      <3>1. <<>> \in Seq(SegmentsOf(p))
        OBVIOUS
      <3>2. QED
        BY <2>1, <2>2, <3>1, Zenon
    <2>4. QED
      BY <2>1, <2>3
  <1>7. inbox' \in [Paths -> Seq(T)] /\ \A q \in Paths : Ages(inbox'[q]) \subseteq Ages(inbox[q]) \cup {h}
    BY <1>2, <1>3, <1>6, DeliverTypes DEF TypeOK, T
  <1>8. sendq' = [sendq EXCEPT ![p] = Tail(sendq[p])] /\ sendq \in [Paths -> Seq(T)]
    BY DEF Write, TypeOK, T
  <1>9. sendq' \in [Paths -> Seq(T)]
    BY <1>3, <1>8
  <1>10. /\ \A q \in Paths : Len(sendq'[q]) <= ChannelBuffer
         /\ \A q \in Paths : Ages(sendq'[q]) \subseteq Ages(sendq[q])
    BY <1>4, <1>5, <1>8 DEF TypeOK
  <1>11. mark' = [mark EXCEPT ![p] = selfEchoWindow] /\ mark \in [Paths -> 0..selfEchoWindow]
    BY DEF Write, TypeOK
  <1>12. /\ mark' \in [Paths -> 0..selfEchoWindow]
         /\ \A q \in Paths : mark'[q] = IF q = p THEN selfEchoWindow ELSE mark[q]
    <2>1. selfEchoWindow \in 0..selfEchoWindow
      BY Bounds
    <2>2. QED
      BY <1>11, <2>1
  <1>13. TypeOK'
    BY <1>7, <1>9, <1>10, <1>12 DEF TypeOK, Write, T
  <1>14. bcast' = bcast
    BY DEF Write
  <1>15. UnderWay' \subseteq UnderWay /\ h \in UnderWay
    BY <1>4, <1>7, <1>10, <1>14 DEF UnderWay
  <1>16. QED
    BY <1>3, <1>12, <1>13, <1>15 DEF T

\* Time makes every packet one tick older and every mark one tick shorter.
LEMMA TickEffect ==
  ASSUME TypeOK, Tick
  PROVE  /\ TypeOK' /\ UnderWay' \subseteq {age + 1 : age \in UnderWay}
         /\ \A p \in Paths : mark'[p] = Less(mark[p])
  <1>1. ASSUME NEW p \in Paths
        PROVE  /\ inbox'[p] \in Seq(0..MaxDelay) /\ Ages(inbox'[p]) = {age + 1 : age \in Ages(inbox[p])}
               /\ sendq'[p] \in Seq(0..MaxDelay) /\ Ages(sendq'[p]) = {age + 1 : age \in Ages(sendq[p])}
    <2>1. inbox[p] \in Seq(0..MaxDelay) /\ NotOverdue(inbox[p]) /\ inbox'[p] = Older(inbox[p])
      BY DEF Tick, TypeOK
    <2>2. sendq[p] \in Seq(0..MaxDelay) /\ NotOverdue(sendq[p]) /\ sendq'[p] = Older(sendq[p])
      BY DEF Tick, TypeOK
    <2>3. Older(inbox[p]) \in Seq(0..MaxDelay) /\ Ages(Older(inbox[p])) = {age + 1 : age \in Ages(inbox[p])}
      BY <2>1, OlderAges, Zenon
    <2>4. Older(sendq[p]) \in Seq(0..MaxDelay) /\ Ages(Older(sendq[p])) = {age + 1 : age \in Ages(sendq[p])}
      BY <2>2, OlderAges, Zenon
    <2>5. QED
      BY <2>1, <2>2, <2>3, <2>4, Zenon
  <1>2. \A p \in Paths : Len(sendq'[p]) <= ChannelBuffer
    BY DEF Tick, TypeOK, Older
  <1>3. inbox' = [p \in Paths |-> inbox'[p]] /\ sendq' = [p \in Paths |-> sendq'[p]]
    BY DEF Tick
  <1>4. inbox' \in [Paths -> Seq(0..MaxDelay)] /\ sendq' \in [Paths -> Seq(0..MaxDelay)]
    BY <1>1, <1>3
  <1> DEFINE B == [src : Paths, age : 0..MaxDelay]
  <1>5. /\ bcast \in Seq(B) /\ DOMAIN bcast = 1..Len(bcast) /\ Len(bcast) \in Nat
        /\ bcast' = [i \in 1..Len(bcast) |-> [bcast[i] EXCEPT !.age = bcast[i].age + 1]]
    BY DEF Tick, TypeOK
  <1>6. ASSUME NEW i \in 1..Len(bcast)
        PROVE  bcast'[i] \in B /\ bcast'[i].age = bcast[i].age + 1
    <2>1. bcast[i] \in B /\ bcast[i].age < MaxDelay
      <3> HIDE DEF B
      <3>1. bcast[i] \in B
        BY <1>5
      <3>2. bcast[i].age < MaxDelay
        BY <1>5 DEF Tick
      <3>3. QED
        BY <3>1, <3>2
    <2>2. bcast'[i] = [bcast[i] EXCEPT !.age = bcast[i].age + 1]
      BY <1>5
    <2>3. bcast[i].age + 1 \in 0..MaxDelay
      BY <2>1, Bounds
    <2>4. QED
      BY <2>1, <2>2, <2>3
  <1> HIDE DEF B
  <1>7. bcast' \in Seq(B) /\ Len(bcast') = Len(bcast) /\ DOMAIN bcast' = 1..Len(bcast)
    <2>1. DOMAIN bcast' = 1..Len(bcast) /\ bcast' = [i \in 1..Len(bcast) |-> bcast'[i]]
      BY <1>5
    <2>2. bcast' \in [1..Len(bcast) -> B]
      BY <1>6, <2>1
    <2>3. QED
      BY <1>5, <2>1, <2>2
  <1>8. mark' = [p \in Paths |-> Less(mark[p])] /\ mark \in [Paths -> 0..selfEchoWindow]
    BY DEF Tick, TypeOK
  <1>9. mark' \in [Paths -> 0..selfEchoWindow]
    BY <1>8, Bounds DEF Less
  <1>10. guard' \in 0..Window /\ since' \in 0..Gap
    BY Bounds DEF Tick, TypeOK, Less
  <1>11. TypeOK'
    BY <1>2, <1>4, <1>7, <1>9, <1>10 DEF TypeOK, Tick, B
  <1>12. {bcast'[i].age : i \in DOMAIN bcast'} \subseteq {age + 1 : age \in UnderWay}
    BY <1>5, <1>6, <1>7 DEF UnderWay
  <1>13. \A p \in Paths : /\ Ages(inbox'[p]) \subseteq {age + 1 : age \in UnderWay}
                          /\ Ages(sendq'[p]) \subseteq {age + 1 : age \in UnderWay}
    <2>1. \A p \in Paths : Ages(inbox[p]) \subseteq UnderWay /\ Ages(sendq[p]) \subseteq UnderWay
      BY DEF UnderWay
    <2>2. ASSUME NEW S, S \subseteq UnderWay
          PROVE  {age + 1 : age \in S} \subseteq {age + 1 : age \in UnderWay}
      BY <2>2
    <2>3. TAKE p \in Paths
    <2>4. /\ Ages(inbox'[p]) = {age + 1 : age \in Ages(inbox[p])}
          /\ Ages(sendq'[p]) = {age + 1 : age \in Ages(sendq[p])}
      BY <1>1
    <2>5. Ages(inbox'[p]) \subseteq {age + 1 : age \in UnderWay}
      BY <2>1, <2>2, <2>4, Zenon
    <2>6. Ages(sendq'[p]) \subseteq {age + 1 : age \in UnderWay}
      BY <2>1, <2>2, <2>4, Zenon
    <2>7. QED
      BY <2>5, <2>6
  <1>14. UnderWay' \subseteq {age + 1 : age \in UnderWay}
    BY <1>12, <1>13 DEF UnderWay
  <1>15. QED
    BY <1>8, <1>11, <1>14

----------------------------------------------------------------------------
(* No second fan-out.                                                      *)

\* While copies return in time, every step keeps the guard ahead of them.
LEMMA GuardStep ==
  ASSUME CopiesReturnInTime, GuardInv, [Next]_vars
  PROVE  GuardInv'
  <1> USE Bounds DEF CopiesReturnInTime
  <1>1. /\ TypeOK /\ passes <= sends /\ UnderWay \subseteq 0..MaxDelay
        /\ passes < sends \/ \A age \in UnderWay : guard + age > MaxDelay
        /\ guard \in 0..Window /\ sends \in Nat /\ passes \in Nat
    BY UnderWayTypes DEF GuardInv, NoSecondFanOut, GuardCovers, TypeOK
  <1>2. SUFFICES /\ TypeOK' /\ passes' <= sends'
                 /\ passes' < sends' \/ \A age \in UnderWay' : guard' + age > MaxDelay
    BY DEF GuardInv, NoSecondFanOut, GuardCovers
  <1>3. CASE UNCHANGED vars
    BY <1>1, <1>3 DEF vars, TypeOK, UnderWay
  <1>4. ASSUME NEW s \in ClientSegments, ClientSends(s)
        PROVE  /\ TypeOK' /\ passes' <= sends'
               /\ passes' < sends' \/ \A age \in UnderWay' : guard' + age > MaxDelay
    <2>1. passes' = passes /\ sends' = sends + 1
      BY <1>4 DEF ClientSends
    <2>2. TypeOK'
      BY <1>1, <1>4, ClientEffect
    <2>3. QED
      BY <1>1, <2>1, <2>2
  <1>5. ASSUME TypeOK', UnderWay' \subseteq UnderWay, UNCHANGED <<passes, sends, guard>>
        PROVE  /\ TypeOK' /\ passes' <= sends'
               /\ passes' < sends' \/ \A age \in UnderWay' : guard' + age > MaxDelay
    BY <1>1, <1>5
  <1>6. ASSUME NEW p \in Paths, Receive(p) \/ Write(p)
        PROVE  /\ TypeOK' /\ passes' <= sends'
               /\ passes' < sends' \/ \A age \in UnderWay' : guard' + age > MaxDelay
    <2>1. TypeOK' /\ UnderWay' \subseteq UnderWay /\ UNCHANGED <<passes, sends, guard>>
      BY <1>1, <1>6, ReceiveEffect, WriteEffect DEF Receive, Write
    <2>2. QED
      BY <1>5, <2>1
  <1>7. ASSUME Broadcast
        PROVE  /\ TypeOK' /\ passes' <= sends'
               /\ passes' < sends' \/ \A age \in UnderWay' : guard' + age > MaxDelay
    <2>1. TypeOK'
      BY <1>1, <1>7, BroadcastEffect
    <2>2. CASE guard > 0
      <3>1. UnderWay' \subseteq UnderWay
        BY <1>1, <1>7, <2>2, BroadcastEffect
      <3>2. UNCHANGED <<passes, sends, guard>>
        BY <1>7, <2>2 DEF Broadcast
      <3>3. QED
        BY <1>5, <2>1, <3>1, <3>2
    <2>3. CASE guard = 0
      <3>1. guard' = Window /\ passes' = passes + 1 /\ sends' = sends
        BY <1>7, <2>3 DEF Broadcast, GuardEntry
      <3>2. PICK age \in UnderWay : age \in 0..MaxDelay
        BY <1>1, <1>7, BroadcastTypes
      <3>3. passes < sends
        BY <1>1, <2>3, <3>2
      <3>4. UnderWay' \subseteq 0..MaxDelay
        <4>1. UnderWay' \subseteq UnderWay \cup {0}
          BY <1>1, <1>7, BroadcastEffect
        <4>2. QED
          BY <1>1, <4>1
      <3>5. \A x \in UnderWay' : guard' + x > MaxDelay
        BY <3>1, <3>4
      <3>6. passes' <= sends'
        BY <1>1, <3>1, <3>3
      <3>7. QED
        BY <2>1, <3>5, <3>6
    <2>4. QED
      BY <1>1, <2>2, <2>3
  <1>8. ASSUME Tick
        PROVE  /\ TypeOK' /\ passes' <= sends'
               /\ passes' < sends' \/ \A age \in UnderWay' : guard' + age > MaxDelay
    <2>1. TypeOK' /\ UnderWay' \subseteq {age + 1 : age \in UnderWay}
      BY <1>1, <1>8, TickEffect
    <2>2. UNCHANGED <<passes, sends>> /\ guard' = Less(guard)
      BY <1>8 DEF Tick
    <2>3. ASSUME NEW age \in UnderWay, guard + age > MaxDelay PROVE guard' + (age + 1) > MaxDelay
      BY <1>1, <2>2, <2>3 DEF Less
    <2>4. QED
      BY <1>1, <2>1, <2>2, <2>3
  <1>9. QED
    BY <1>3, <1>4, <1>6, <1>7, <1>8 DEF Next

\* Nothing is under way when the relay starts.
LEMMA BarrierInit ==
  ASSUME Init
  PROVE  TypeOK /\ UnderWay = {}
  <1>1. inbox \in [Paths -> Seq(0..MaxDelay)] /\ sendq \in [Paths -> Seq(0..MaxDelay)]
    BY DEF Init
  <1>2. bcast \in Seq([src : Paths, age : 0..MaxDelay]) /\ Len(bcast) <= ChannelBuffer
        /\ \A p \in Paths : Len(sendq[p]) <= ChannelBuffer
    BY Bounds DEF Init
  <1>3. mark \in [Paths -> 0..selfEchoWindow] /\ guard \in 0..Window /\ since \in 0..Gap
        /\ sends \in 0..MaxSends /\ passes \in Nat
    BY Bounds DEF Init
  <1>4. TypeOK
    BY <1>1, <1>2, <1>3 DEF TypeOK
  <1>5. DOMAIN bcast = {} /\ \A p \in Paths : Ages(inbox[p]) = {} /\ Ages(sendq[p]) = {}
    BY DEF Init, Ages
  <1>6. QED
    BY <1>4, <1>5 DEF UnderWay

\* NoSecondFanOut, for any networks: whatever is under way when the guard's
\* entry expires is a client's send that was not relayed, if copies are back
\* at broadcast within the guard's window.
THEOREM NoPacketFansOutTwice ==
  ASSUME CopiesReturnInTime
  PROVE  Spec => []NoSecondFanOut
  <1>1. Init => GuardInv
    BY BarrierInit DEF Init, GuardInv, NoSecondFanOut, GuardCovers
  <1>2. GuardInv /\ [Next]_vars => GuardInv'
    BY GuardStep
  <1>3. GuardInv => NoSecondFanOut
    BY DEF GuardInv
  <1>4. QED
    BY <1>1, <1>2, <1>3, PTL DEF Spec

----------------------------------------------------------------------------
(* Every send is relayed.                                                  *)

\* A queue that is not empty holds a packet under way.
LEMMA NotEmpty ==
  ASSUME TypeOK
  PROVE  /\ \A p \in Paths : inbox[p] # <<>> \/ sendq[p] # <<>> => UnderWay # {}
         /\ bcast # <<>> => UnderWay # {}
  <1> DEFINE T == 0..MaxDelay
           B == [src : Paths, age : 0..MaxDelay]
  <1>1. bcast \in Seq(B) /\ \A p \in Paths : inbox[p] \in Seq(T) /\ sendq[p] \in Seq(T)
    BY DEF TypeOK
  <1> HIDE DEF T, B
  <1>2. \A p \in Paths : /\ inbox[p] # <<>> => Head(inbox[p]) \in Ages(inbox[p])
                         /\ sendq[p] # <<>> => Head(sendq[p]) \in Ages(sendq[p])
    BY <1>1, TailAges
  <1>3. bcast # <<>> => 1 \in DOMAIN bcast
    BY <1>1
  <1>4. \A p \in Paths : Ages(inbox[p]) \subseteq UnderWay /\ Ages(sendq[p]) \subseteq UnderWay
    BY DEF UnderWay
  <1>5. \A i \in DOMAIN bcast : bcast[i].age \in UnderWay
    BY DEF UnderWay
  <1>6. bcast # <<>> => UnderWay # {}
    BY <1>3, <1>5
  <1>7. \A p \in Paths : inbox[p] # <<>> \/ sendq[p] # <<>> => UnderWay # {}
    BY <1>2, <1>4
  <1>8. QED
    BY <1>6, <1>7

\* A send comes when everything about the last one is over.
LEMMA ClientRelayed ==
  ASSUME SendsAreApart, ClientsAreReached, RelayedInv,
         NEW s \in ClientSegments, ClientSends(s)
  PROVE  NotYetRelayed'
  <1> USE Bounds
  <1>1. /\ TypeOK /\ UnderWay \subseteq 0..MaxDelay /\ since = Gap /\ Gap > 2 * MaxDelay
        /\ guard \in 0..Window /\ sends \in Nat /\ passes \in Nat
    BY UnderWayTypes DEF RelayedInv, TypeOK, ClientSends, SendsAreApart
  <1>2. ~NotYetRelayed
    <2> SUFFICES ASSUME NotYetRelayed PROVE FALSE
      OBVIOUS
    <2>1. PICK age \in UnderWay : since <= age
      BY <1>1, NotEmpty DEF NotYetRelayed
    <2>2. QED
      BY <1>1, <2>1
  <1>3. Relayed
    BY <1>2 DEF RelayedInv
  <1>4. UnderWay = {}
    BY <1>1, <1>3 DEF Relayed
  <1>5. guard = 0
    BY <1>1, <1>3 DEF Relayed, SendsAreApart
  <1>6. ASSUME NEW p \in Paths PROVE mark[p] = 0 /\ sendq[p] = <<>>
    <2>1. mark[p] \in 0..selfEchoWindow
      BY DEF RelayedInv, TypeOK
    <2>2. mark[p] > 0 => Gap + mark[p] <= selfEchoWindow + 2 * MaxDelay
      BY <1>1, <1>3 DEF Relayed
    <2>3. mark[p] = 0
      BY <2>1, <2>2 DEF SendsAreApart
    <2>4. sendq[p] = <<>>
      BY <1>1, <1>4, NotEmpty
    <2>5. QED
      BY <2>3, <2>4
  <1>7. UnderWay' \subseteq {0} /\ \E p \in Paths : inbox'[p] # <<>>
    BY <1>1, <1>4, ClientEffect DEF ClientsAreReached
  <1>8. UNCHANGED <<sendq, mark, guard, passes>> /\ since' = 0 /\ sends' = sends + 1
    BY DEF ClientSends
  <1>9. passes' = sends' - 1
    BY <1>1, <1>3, <1>8 DEF Relayed
  <1>10. \A p \in Paths : mark'[p] = 0 /\ sendq'[p] = <<>>
    BY <1>6, <1>8
  <1>11. \A age \in UnderWay' : since' <= age
    BY <1>7, <1>8
  <1>12. QED
    BY <1>5, <1>7, <1>8, <1>9, <1>10, <1>11 DEF NotYetRelayed

\* A send that was not relayed stays under way until broadcast relays it.
LEMMA NotYetRelayedStep ==
  ASSUME CopiesReturnInTime, TypeOK, NotYetRelayed,
         Broadcast \/ Tick \/ \E p \in Paths : Receive(p) \/ Write(p)
  PROVE  NotYetRelayed' \/ Relayed'
  <1> USE Bounds
  <1>1. /\ UnderWay \subseteq 0..MaxDelay /\ since \in 0..Gap
        /\ guard = 0 /\ sends \in Nat /\ passes \in Nat /\ passes = sends - 1
        /\ \A p \in Paths : mark[p] = 0 /\ sendq[p] = <<>>
        /\ \A age \in UnderWay : since <= age
    BY UnderWayTypes DEF NotYetRelayed, TypeOK
  <1>2. ASSUME NEW p \in Paths, Receive(p) PROVE NotYetRelayed'
    <2>1. UNCHANGED <<sendq, mark, guard, since, sends, passes>>
      BY <1>2 DEF Receive
    <2>2. ~isSelfEcho(p)
      BY <1>1 DEF isSelfEcho
    <2>3. UnderWay' \subseteq UnderWay /\ bcast' # <<>>
      BY <1>2, <2>2, ReceiveEffect
    <2>4. QED
      BY <1>1, <2>1, <2>3 DEF NotYetRelayed
  <1>3. ASSUME NEW p \in Paths, Write(p) PROVE FALSE
    BY <1>1, <1>3 DEF Write
  <1>4. ASSUME Broadcast PROVE Relayed'
    <2>1. guard' = Window /\ passes' = passes + 1 /\ UNCHANGED <<mark, since, sends>>
      BY <1>1, <1>4 DEF Broadcast, GuardEntry
    <2>2. UnderWay' \subseteq UnderWay \cup {0}
      BY <1>4, BroadcastEffect
    <2>3. PICK x \in UnderWay : x \in 0..MaxDelay
      BY <1>4, BroadcastTypes
    <2>4. since <= MaxDelay
      BY <1>1, <2>3
    <2>5. \A age \in UnderWay' : since' <= age + MaxDelay /\ guard' + age > MaxDelay
      BY <1>1, <2>1, <2>2, <2>4 DEF CopiesReturnInTime
    <2>6. passes' = sends' /\ since' + guard' <= Window + MaxDelay
      BY <1>1, <2>1, <2>4
    <2>7. \A p \in Paths : ~(mark'[p] > 0)
      BY <1>1, <2>1
    <2>8. QED
      BY <2>5, <2>6, <2>7 DEF Relayed
  <1>5. ASSUME Tick PROVE NotYetRelayed'
    <2>1. /\ guard' = 0 /\ UNCHANGED <<sends, passes>>
          /\ since' <= since + 1 /\ since' \in Int
      BY <1>1, <1>5 DEF Tick, Less
    <2>2. /\ UnderWay' \subseteq {age + 1 : age \in UnderWay}
          /\ \A p \in Paths : mark'[p] = 0
      BY <1>1, <1>5, TickEffect DEF Less
    <2>3. \A p \in Paths : /\ sendq'[p] = Older(<<>>)
                           /\ inbox'[p] = Older(inbox[p]) /\ inbox[p] \in Seq(0..MaxDelay)
      BY <1>1, <1>5 DEF Tick, TypeOK
    <2>4. Older(<<>>) = <<>>
      BY DEF Older
    <2>5. ASSUME NEW q \in Seq(0..MaxDelay), q # <<>> PROVE Older(q) # <<>>
      <3>1. 1 \in DOMAIN q
        BY <2>5
      <3>2. DOMAIN Older(q) = DOMAIN q /\ DOMAIN <<>> = {}
        BY DEF Older
      <3>3. QED
        BY <3>1, <3>2
    <2>6. bcast # <<>> => bcast' # <<>>
      <3>1. DOMAIN bcast' = DOMAIN bcast /\ DOMAIN <<>> = {}
        BY <1>5 DEF Tick
      <3>2. bcast # <<>> => 1 \in DOMAIN bcast
        BY DEF TypeOK
      <3>3. QED
        BY <3>1, <3>2
    <2>7. bcast' # <<>> \/ \E p \in Paths : inbox'[p] # <<>>
      BY <2>3, <2>5, <2>6 DEF NotYetRelayed
    <2>8. \A age \in UnderWay' : since' <= age
      BY <1>1, <2>1, <2>2
    <2>9. \A p \in Paths : sendq'[p] = <<>>
      BY <2>3, <2>4
    <2>10. QED
      BY <1>1, <2>1, <2>2, <2>7, <2>8, <2>9 DEF NotYetRelayed
  <1>6. QED
    BY <1>2, <1>3, <1>4, <1>5

\* One tick makes since at most one larger and an entry's time left one less.
LEMMA LaterAndLess ==
  ASSUME NEW m \in Int, NEW a \in Int, NEW b \in Int, a + b <= m,
         NEW c \in Int, c <= a + 1, NEW d \in Int, d = b - 1
  PROVE  c + d <= m
  OBVIOUS

\* What was relayed leaves the network, and the barriers, in time.
LEMMA RelayedStep ==
  ASSUME TypeOK, Relayed, Broadcast \/ Tick \/ \E p \in Paths : Receive(p) \/ Write(p)
  PROVE  Relayed'
  <1> USE Bounds
  <1>1. /\ UnderWay \subseteq 0..MaxDelay /\ since \in 0..Gap /\ guard \in 0..Window
        /\ passes = sends
        /\ guard > 0 => since + guard <= Window + MaxDelay
        /\ \A p \in Paths : /\ mark[p] \in 0..selfEchoWindow
                            /\ mark[p] > 0 => since + mark[p] <= selfEchoWindow + 2 * MaxDelay
        /\ \A age \in UnderWay : since <= age + MaxDelay /\ guard + age > MaxDelay
    BY UnderWayTypes DEF Relayed, TypeOK
  <1>2. ASSUME NEW p \in Paths, Receive(p) PROVE Relayed'
    <2>1. UNCHANGED <<mark, guard, since, sends, passes>>
      BY <1>2 DEF Receive
    <2>2. UnderWay' \subseteq UnderWay
      BY <1>2, ReceiveEffect
    <2>3. QED
      BY <1>1, <2>1, <2>2 DEF Relayed
  <1>3. ASSUME NEW p \in Paths, Write(p) PROVE Relayed'
    <2>1. UNCHANGED <<guard, since, sends, passes>>
      BY <1>3 DEF Write
    <2>2. /\ UnderWay' \subseteq UnderWay
          /\ \A q \in Paths : mark'[q] = IF q = p THEN selfEchoWindow ELSE mark[q]
      BY <1>3, WriteEffect
    <2>3. PICK x \in UnderWay : x \in 0..MaxDelay
      BY <1>3, WriteEffect
    <2>4. since <= 2 * MaxDelay
      BY <1>1, <2>3
    <2>5. ASSUME NEW q \in Paths
          PROVE  mark'[q] > 0 => since + mark'[q] <= selfEchoWindow + 2 * MaxDelay
      BY <1>1, <2>2, <2>4
    <2>6. QED
      BY <1>1, <2>1, <2>2, <2>5 DEF Relayed
  <1>4. ASSUME Broadcast PROVE Relayed'
    <2>1. PICK x \in UnderWay : x \in 0..MaxDelay
      BY <1>4, BroadcastTypes
    <2>2. guard > 0
      BY <1>1, <2>1
    <2>3. UNCHANGED <<mark, guard, since, sends, passes>>
      BY <1>4, <2>2 DEF Broadcast
    <2>4. UnderWay' \subseteq UnderWay
      BY <1>4, <2>2, BroadcastEffect
    <2>5. QED
      BY <1>1, <2>3, <2>4 DEF Relayed
  <1>5. ASSUME Tick PROVE Relayed'
    <2>1. /\ guard' = Less(guard) /\ UNCHANGED <<sends, passes>>
          /\ since' <= since + 1 /\ since' \in Int
      BY <1>1, <1>5 DEF Tick
    <2>2. /\ UnderWay' \subseteq {age + 1 : age \in UnderWay}
          /\ \A p \in Paths : mark'[p] = Less(mark[p])
      BY <1>5, TickEffect
    <2>3. guard' > 0 => since' + guard' <= Window + MaxDelay
      <3>1. /\ since \in 0..Gap /\ guard \in 0..Window
            /\ guard > 0 => since + guard <= Window + MaxDelay
        BY <1>1
      <3>2. since \in Int /\ guard \in Int /\ Window + MaxDelay \in Int
        BY <3>1
      <3>3. CASE guard > 0
        <4>1. guard' = guard - 1
          BY <2>1, <3>3 DEF Less
        <4>2. guard' \in Int
          BY <3>2, <4>1
        <4>3. QED
          BY <2>1, <3>1, <3>2, <3>3, <4>1, <4>2, LaterAndLess
      <3>4. CASE ~(guard > 0)
        BY <2>1, <3>4 DEF Less
      <3>5. QED
        BY <3>3, <3>4
    <2>4. ASSUME NEW p \in Paths
          PROVE  mark'[p] > 0 => since' + mark'[p] <= selfEchoWindow + 2 * MaxDelay
      <3>1. mark'[p] = Less(mark[p]) /\ mark[p] \in 0..selfEchoWindow
            /\ (mark[p] > 0 => since + mark[p] <= selfEchoWindow + 2 * MaxDelay)
        BY <1>1, <2>2
      <3>2. QED
        BY <1>1, <2>1, <3>1 DEF Less
    <2>5. ASSUME NEW age \in UnderWay
          PROVE  since' <= (age + 1) + MaxDelay /\ guard' + (age + 1) > MaxDelay
      <3>1. age \in 0..MaxDelay /\ since <= age + MaxDelay /\ guard + age > MaxDelay
        BY <1>1
      <3>2. QED
        BY <1>1, <2>1, <3>1 DEF Less
    <2>6. \A age \in UnderWay' : since' <= age + MaxDelay /\ guard' + age > MaxDelay
      BY <2>2, <2>5
    <2>7. QED
      BY <1>1, <2>1, <2>3, <2>4, <2>6 DEF Relayed
  <1>6. QED
    BY <1>2, <1>3, <1>4, <1>5

\* Every step leaves the last send either under way and unknown to the barriers,
\* or relayed and on its way out.
LEMMA RelayedInvStep ==
  ASSUME CopiesReturnInTime, SendsAreApart, ClientsAreReached, RelayedInv, [Next]_vars
  PROVE  RelayedInv'
  <1>1. CASE UNCHANGED vars
    BY <1>1 DEF vars, RelayedInv, TypeOK, NotYetRelayed, Relayed, UnderWay
  <1>2. TypeOK /\ (NotYetRelayed \/ Relayed)
    BY DEF RelayedInv
  <1>3. ASSUME NEW s \in ClientSegments, ClientSends(s) PROVE RelayedInv'
    <2>1. TypeOK'
      BY <1>2, <1>3, ClientEffect
    <2>2. NotYetRelayed'
      BY <1>3, ClientRelayed
    <2>3. QED
      BY <2>1, <2>2 DEF RelayedInv
  <1>4. ASSUME Broadcast \/ Tick \/ \E p \in Paths : Receive(p) \/ Write(p) PROVE RelayedInv'
    <2>1. TypeOK'
      BY <1>2, <1>4, ReceiveEffect, BroadcastEffect, WriteEffect, TickEffect
    <2>2. NotYetRelayed' \/ Relayed'
      BY <1>2, <1>4, NotYetRelayedStep, RelayedStep
    <2>3. QED
      BY <2>1, <2>2 DEF RelayedInv
  <1>5. QED
    BY <1>1, <1>3, <1>4 DEF Next

\* EverySendRelayed, for any networks: a send that comes when both barriers
\* have forgotten the last one is not taken for an echo or a copy of it, and
\* when the network is quiet it has been relayed.
THEOREM SendsAreRelayed ==
  ASSUME CopiesReturnInTime, SendsAreApart, ClientsAreReached
  PROVE  Spec => []EverySendRelayed
  <1>1. Init => RelayedInv
    <2> SUFFICES ASSUME Init PROVE RelayedInv
      OBVIOUS
    <2>1. TypeOK /\ UnderWay = {}
      BY BarrierInit
    <2>2. Relayed
      BY <2>1 DEF Init, Relayed
    <2>3. QED
      BY <2>1, <2>2 DEF RelayedInv
  <1>2. RelayedInv /\ [Next]_vars => RelayedInv'
    BY RelayedInvStep
  <1>3. RelayedInv => EverySendRelayed
    <2> SUFFICES ASSUME RelayedInv, Quiet PROVE passes >= sends
      BY DEF EverySendRelayed
    <2>1. ~NotYetRelayed
      BY DEF Quiet, NotYetRelayed
    <2>2. passes = sends /\ passes \in Nat
      BY <2>1 DEF RelayedInv, Relayed, TypeOK
    <2>3. QED
      BY <2>2
  <1>4. QED
    BY <1>1, <1>2, <1>3, PTL DEF Spec
============================================================================
