-------------------------- MODULE LoopGuardProofs --------------------------
(* Proofs about LoopGuard, for every window, payload and length of run. *)
EXTENDS LoopGuard, TLAPS

\* NewLoopGuard never yields a guard without a window.
LEMMA WindowPositive == Window \in Nat /\ Window >= 1
  BY LoopGuardAssumption DEF Window

\* The key of a packet is a key.
LEMMA KeyOfPacket == \A pkt \in Packets : loopKeyForPacket(pkt) \in Keys
  BY DEF Packets, Keys, loopKeyForPacket

\* NewLoopGuard's empty map is in order.
LEMMA InitIInv == Init => IInv
  BY WindowPositive DEF Init, IInv, TypeOK, SeenMatchesPasses, CleanupInTime,
     OncePerWindow, DropOnlyRecent, SeenBounded

\* Time passing between calls keeps the map in order.
LEMMA TickIInv == IInv /\ Tick => IInv'
  <1> SUFFICES ASSUME IInv, Tick PROVE IInv'
    OBVIOUS
  <1> USE WindowPositive
  <1>1. TypeOK'
    BY DEF IInv, TypeOK, Tick
  <1>2. SeenMatchesPasses'
    BY DEF IInv, TypeOK, SeenMatchesPasses, Tick
  <1>3. CleanupInTime'
    BY DEF IInv, TypeOK, CleanupInTime, Tick
  <1>4. OncePerWindow' /\ DropOnlyRecent' /\ SeenBounded'
    BY DEF IInv, OncePerWindow, DropOnlyRecent, SeenBounded, Tick
  <1>5. QED
    BY <1>1, <1>2, <1>3, <1>4 DEF IInv

\* A dropped packet leaves the map as it is.
LEMMA DropIInv == \A pkt \in Packets : IInv /\ ProcessDrops(pkt) => IInv'
  <1> SUFFICES ASSUME NEW pkt \in Packets, IInv, ProcessDrops(pkt) PROVE IInv'
    OBVIOUS
  <1> DEFINE key == loopKeyForPacket(pkt)
  <1> USE WindowPositive
  <1>0. key \in Keys
    BY KeyOfPacket
  <1>a. /\ key \in seen
        /\ now < expires[key]
        /\ lastDrop' = [lastDrop EXCEPT ![key] = now]
        /\ UNCHANGED <<now, seen, expires, nextCleanup, lastPass, prevPass, latest>>
    BY DEF ProcessDrops, IsCopy, guardVars
  <1> HIDE DEF key
  <1>1. TypeOK'
    BY <1>0, <1>a DEF IInv, TypeOK
  <1>2. SeenMatchesPasses'
    BY <1>0, <1>a DEF IInv, TypeOK, SeenMatchesPasses
  <1>3. CleanupInTime' /\ OncePerWindow' /\ SeenBounded'
    BY <1>a DEF IInv, CleanupInTime, OncePerWindow, SeenBounded
  <1>4. DropOnlyRecent'
    BY <1>0, <1>a DEF IInv, TypeOK, SeenMatchesPasses, DropOnlyRecent
  <1>5. QED
    BY <1>1, <1>2, <1>3, <1>4 DEF IInv

\* A packet that passes is recorded, after the cleanup if one is due.
LEMMA PassIInv == \A pkt \in Packets : IInv /\ ProcessPasses(pkt) => IInv'
  <1> SUFFICES ASSUME NEW pkt \in Packets, IInv, ProcessPasses(pkt) PROVE IInv'
    OBVIOUS
  <1> DEFINE key == loopKeyForPacket(pkt)
             live == AfterCleanup
  <1> USE WindowPositive
  <1>0. key \in Keys
    BY KeyOfPacket
  <1>a. /\ key \notin seen \/ ~(now < expires[key])
        /\ nextCleanup' = IF CleanupDue THEN now + Window ELSE nextCleanup
        /\ seen' = live \cup {key}
        /\ expires' = [expires EXCEPT ![key] = now + Window]
        /\ lastPass' = [lastPass EXCEPT ![key] = now]
        /\ prevPass' = [prevPass EXCEPT ![key] = lastPass[key]]
        /\ lastDrop' = [lastDrop EXCEPT ![key] = 0]
        /\ latest' = now
        /\ now' = now
    BY DEF ProcessPasses, IsCopy
  \* What is left out of live has expired; what stays is fresh enough.
  <1>b. /\ live \subseteq seen
        /\ \A k \in seen \ live : expires[k] <= now
        /\ \A k \in live : CleanupDue => now < expires[k]
    BY DEF IInv, TypeOK, AfterCleanup
  <1>c. CleanupDue <=> (nextCleanup = 0 \/ now >= nextCleanup)
    BY DEF CleanupDue
  <1> HIDE DEF key, live
  <1>1. TypeOK'
    BY <1>0, <1>a, <1>b DEF IInv, TypeOK
  <1>2. SeenMatchesPasses'
    BY <1>0, <1>a, <1>b DEF IInv, TypeOK, SeenMatchesPasses
  <1>3. CleanupInTime'
    BY <1>0, <1>a, <1>b, <1>c DEF IInv, TypeOK, CleanupInTime
  <1>4. OncePerWindow'
    BY <1>0, <1>a DEF IInv, TypeOK, SeenMatchesPasses, OncePerWindow
  <1>5. DropOnlyRecent'
    BY <1>0, <1>a DEF IInv, TypeOK, DropOnlyRecent
  <1>6. SeenBounded'
    BY <1>0, <1>a, <1>b, <1>c DEF IInv, TypeOK, SeenMatchesPasses, CleanupInTime, SeenBounded
  <1>7. QED
    BY <1>1, <1>2, <1>3, <1>4, <1>5, <1>6 DEF IInv

\* Steps that change nothing keep the invariant.
LEMMA StutterIInv == IInv /\ UNCHANGED vars => IInv'
  BY DEF IInv, TypeOK, SeenMatchesPasses, CleanupInTime, OncePerWindow,
     DropOnlyRecent, SeenBounded, vars

\* The invariant of the guard's map: what it holds is what got through less
\* than two windows before the last pass, with the expiry Process gave it.
THEOREM GuardInvariant == Spec => []IInv
  <1>1. IInv /\ [Next]_vars => IInv'
    BY TickIInv, DropIInv, PassIInv, StutterIInv DEF Next, Process
  <1>2. QED
    BY InitIInv, <1>1, PTL DEF Spec

\* The guard's state keeps its types.
THEOREM GuardTypeOK == Spec => []TypeOK
  <1>1. IInv => TypeOK
    BY DEF IInv
  <1>2. QED
    BY GuardInvariant, <1>1, PTL

\* A copy that returns within the window never fans out again.
THEOREM CopiesAreDropped == Spec => []OncePerWindow
  <1>1. IInv => OncePerWindow
    BY DEF IInv
  <1>2. QED
    BY GuardInvariant, <1>1, PTL

\* Nothing is dropped but a packet whose payload passed within the window.
THEOREM OnlyCopiesAreDropped == Spec => []DropOnlyRecent
  <1>1. IInv => DropOnlyRecent
    BY DEF IInv
  <1>2. QED
    BY GuardInvariant, <1>1, PTL

\* Entries older than two windows do not survive a pass.
THEOREM GuardIsBounded == Spec => []SeenBounded
  <1>1. IInv => SeenBounded
    BY DEF IInv
  <1>2. QED
    BY GuardInvariant, <1>1, PTL
============================================================================
