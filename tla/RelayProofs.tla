---------------------------- MODULE RelayProofs ----------------------------
(***************************************************************************)
(* Proofs about Relay: it implements the coordinator's specification, so   *)
(* what ControlPlaneProofs shows holds with the data plane running; and no *)
(* packet returns to the namespace it came from.                           *)
(***************************************************************************)
EXTENDS Relay, ControlPlaneProofs

\* Every step of the relay is a step of the coordinator or leaves it alone.
LEMMA StepImplementsCoord == [Next]_vars => [CoordNext]_coordVars
  <1> SUFFICES ASSUME [Next]_vars PROVE [CoordNext]_coordVars
    OBVIOUS
  <1>1. CASE ControlStep /\ UNCHANGED dataVars
    BY <1>1 DEF CoordNext
  <1>2. ASSUME NEW i \in Insts, NEW g \in Groups, Receiver(i, g)
        PROVE  [CoordNext]_coordVars
    BY <1>2 DEF CoordNext, Roles, Receiver, RecvCheck, RecvRead, RecvTimeout,
       RecvPush, RecvReturn
  <1>3. CASE Broadcast
    BY <1>3 DEF Broadcast, BroadcastTake, BroadcastDrop, BroadcastSkip,
       BroadcastVisit, BroadcastEnqueue, BroadcastOverflow, BroadcastReturn
  <1>4. ASSUME NEW i \in Insts, Worker(i)
        PROVE  [CoordNext]_coordVars
    BY <1>4 DEF CoordNext, Roles, Worker, WorkerTake, WorkerWrite,
       WorkerWriteFails, WorkerReturn
  <1>5. CASE UNCHANGED vars
    BY <1>5 DEF vars
  <1>6. QED
    BY <1>1, <1>2, <1>3, <1>4, <1>5 DEF Next

\* The relay implements the coordinator: the goroutines of an instance stop
\* only when its context is done, and touch nothing else of it.
THEOREM RelayImplementsCoordinator == Spec => CoordSpec
  <1>1. Init => CoordInit
    BY DEF Init
  <1>2. QED
    BY <1>1, StepImplementsCoord, PTL DEF Spec, CoordSpec

\* The coordinator's invariant holds of the relay.
LEMMA RelayCoordInv == Spec => []CoordInv
  BY RelayImplementsCoordinator, CoordInvariant, PTL

\* The types survive every step.  A packet's source is the path of a running
\* receive loop's instance, which CoordInv gives.
LEMMA RelayTypeStep == CoordInv /\ CoordInv' /\ EchoInv /\ [Next]_vars => TypeOK'
  <1> SUFFICES ASSUME CoordInv, CoordInv', EchoInv, [Next]_vars PROVE TypeOK'
    OBVIOUS
  <1> USE ConstAssumption, RelayAssumption
      DEF EchoInv, TypeOK, LoopsHoldPackets, bcastVars
  <1>0. CoordTypeOK'
    BY DEF CoordInv
  <1>1. CASE ControlStep /\ UNCHANGED dataVars
    BY <1>0, <1>1 DEF dataVars
  <1>2. ASSUME NEW i \in Insts, NEW g \in Groups, Receiver(i, g) PROVE TypeOK'
    <2>1. CASE RecvCheck(i, g)
      BY <1>0, <2>1 DEF RecvCheck
    <2>2. CASE RecvRead(i, g)
      <3>1. path[i] \in Paths
        BY <2>2 DEF RecvRead, Roles, CoordInv, InstInv, HoldersAreKnown
      <3>2. [id |-> arrivals + 1, group |-> g, source |-> path[i]] \in Packet
        BY <3>1 DEF Packet
      <3>3. QED
        BY <1>0, <2>2, <3>2 DEF RecvRead
    <2>3. CASE RecvTimeout(i, g)
      BY <1>0, <2>3 DEF RecvTimeout
    <2>4. CASE RecvPush(i, g)
      BY <1>0, <2>4 DEF RecvPush
    <2>5. CASE RecvReturn(i, g)
      BY <1>0, <2>5 DEF RecvReturn
    <2>6. QED
      BY <1>2, <2>1, <2>2, <2>3, <2>4, <2>5 DEF Receiver
  <1>3. CASE Broadcast
    <2>1. CASE BroadcastTake
      <3>1. Head(broadcastCh) \in Packet /\ Tail(broadcastCh) \in Seq(Packet)
        BY <2>1 DEF BroadcastTake
      <3>2. {snap[p] : p \in Paths} \ {None} \subseteq Insts
        BY DEF CoordTypeOK
      <3>3. QED
        BY <1>0, <2>1, <3>1, <3>2 DEF BroadcastTake, FanOut
    <2>2. CASE BroadcastDrop
      BY <1>0, <2>2 DEF BroadcastDrop
    <2>3. ASSUME NEW i \in Insts, BroadcastSkip(i) PROVE TypeOK'
      BY <1>0, <2>3 DEF BroadcastSkip, FanOut
    <2>4. ASSUME NEW i \in Insts, BroadcastVisit(i) PROVE TypeOK'
      BY <1>0, <2>4 DEF BroadcastVisit
    <2>5. CASE BroadcastEnqueue
      BY <1>0, <2>5 DEF BroadcastEnqueue, FanOut, DestinationChecked
    <2>6. CASE BroadcastOverflow
      BY <1>0, <2>6 DEF BroadcastOverflow, FanOut
    <2>7. CASE BroadcastReturn
      BY <1>0, <2>7 DEF BroadcastReturn, FanOut
    <2>8. QED
      BY <1>3, <2>1, <2>2, <2>3, <2>4, <2>5, <2>6, <2>7 DEF Broadcast
  <1>4. ASSUME NEW i \in Insts, Worker(i) PROVE TypeOK'
    <2>1. CASE WorkerTake(i)
      BY <1>0, <2>1 DEF WorkerTake
    <2>2. CASE WorkerWrite(i)
      <3>1. path[i] \in Paths
        BY <2>2 DEF WorkerWrite, Roles, CoordInv, InstInv, HoldersAreKnown
      <3>2. QED
        BY <1>0, <2>2, <3>1 DEF WorkerWrite
    <2>3. CASE WorkerWriteFails(i)
      BY <1>0, <2>3 DEF WorkerWriteFails
    <2>4. CASE WorkerReturn(i)
      BY <1>0, <2>4 DEF WorkerReturn, dataVars
    <2>5. QED
      BY <1>4, <2>1, <2>2, <2>3, <2>4 DEF Worker
  <1>5. CASE UNCHANGED vars
    BY <1>0, <1>5 DEF vars, dataVars
  <1>6. QED
    BY <1>1, <1>2, <1>3, <1>4, <1>5 DEF Next

\* An instance keeps its path for good once it has one.
LEMMA PathsAreForGood ==
  CoordInv /\ [CoordNext]_coordVars =>
    \A i \in Insts : path[i] # None => path'[i] = path[i]
  <1> SUFFICES ASSUME CoordInv, [CoordNext]_coordVars
               PROVE  \A i \in Insts : path[i] # None => path'[i] = path[i]
    OBVIOUS
  <1>1. ASSUME NEW p \in Paths, NEW i \in Insts, BuildInstance(p, i)
        PROVE  \A j \in Insts : path[j] # None => path'[j] = path[j]
    BY <1>1 DEF BuildInstance, CoordInv, CoordTypeOK
  <1>2. (\A p \in Paths, i \in Insts : ~BuildInstance(p, i)) => path' = path
    BY DEF CoordNext, ControlStep, CallerStep, CoordStep, coordVars, instVars,
       Call, CallReturns, CallCancelled, TimerFires, AcceptCmd, StartReconcile,
       TeardownCloseSocket, TeardownFinish, ReconcileRemove,
       ReconcileAddActive, BuildFails, StoreSnapshot, StartDrain, DrainOne,
       DrainDone, Cancel, GoroutineExit
  <1>3. QED
    BY <1>1, <1>2

\* No step puts a packet on its way back to its namespace.
LEMMA EchoStep == CoordInv /\ CoordInv' /\ EchoInv /\ [Next]_vars => EchoInv'
  <1> SUFFICES ASSUME CoordInv, CoordInv', EchoInv, [Next]_vars PROVE EchoInv'
    OBVIOUS
  <1>0. TypeOK'
    BY RelayTypeStep
  <1>p. \A i \in Insts : path[i] # None => path'[i] = path[i]
    BY StepImplementsCoord, PathsAreForGood
  <1> DEFINE Echo == /\ LoopsHoldPackets
                     /\ DestinationChecked
                     /\ QueuesAvoidSource
                     /\ NeverEchoed
  <1> SUFFICES Echo'
    BY <1>0 DEF EchoInv
  <1> USE ConstAssumption, RelayAssumption
      DEF EchoInv, TypeOK, bcastVars, LoopsHoldPackets, DestinationChecked,
          QueuesAvoidSource, NeverEchoed
  <1>1. CASE UNCHANGED dataVars
    <2>1. LoopsHoldPackets' /\ DestinationChecked' /\ NeverEchoed'
      BY <1>1, <1>p DEF dataVars
    <2>2. ASSUME NEW i \in Insts, path[i] = None
          PROVE  sendCh'[i] = <<>> /\ wpkt'[i] = None /\ DOMAIN sendCh'[i] = {}
      BY <1>1, <2>2 DEF dataVars
    <2>3. ASSUME NEW i \in Insts, path[i] # None
          PROVE  /\ path'[i] = path[i]
                 /\ \A n \in DOMAIN sendCh'[i] : sendCh'[i][n].source # path'[i]
                 /\ wpkt'[i] # None => wpkt'[i].source # path'[i]
      BY <1>1, <1>p, <2>3 DEF dataVars
    <2>4. QueuesAvoidSource'
      <3> TAKE i \in Insts
      <3>1. CASE path[i] = None
        BY <2>2, <3>1
      <3>2. CASE path[i] # None
        BY <2>3, <3>2
      <3>3. QED
        BY <3>1, <3>2
    <2>5. QED
      BY <2>1, <2>4
  <1>2. ASSUME NEW i \in Insts, NEW g \in Groups, Receiver(i, g) PROVE Echo'
    <2>1. path' = path
      BY <1>2 DEF Receiver, RecvCheck, RecvRead, RecvTimeout, RecvPush,
         RecvReturn, GoroutineExit, coordVars
    <2>2. UNCHANGED <<bpc, bpkt, todo, dest, sendCh, wpkt, written>>
      BY <1>2 DEF Receiver, RecvCheck, RecvRead, RecvTimeout, RecvPush,
         RecvReturn
    <2>3. \A x \in Insts \X Groups : rpc'[x] = "push" => rpkt'[x] # None
      <3>1. CASE RecvRead(i, g)
        <4>1. path[i] \in Paths
          BY <3>1 DEF RecvRead, Roles, CoordInv, InstInv, HoldersAreKnown
        <4>2. [id |-> arrivals + 1, group |-> g, source |-> path[i]] \in Packet
          BY <4>1 DEF Packet
        <4>3. QED
          BY <3>1, <4>2 DEF RecvRead
      <3>2. CASE ~RecvRead(i, g)
        BY <1>2, <3>2 DEF Receiver, RecvCheck, RecvTimeout, RecvPush, RecvReturn
      <3>3. QED
        BY <3>1, <3>2
    <2>4. QED
      BY <2>1, <2>2, <2>3
  <1>3. CASE Broadcast
    <2>1. CASE BroadcastTake
      <3>1. Head(broadcastCh) # None
        BY <2>1 DEF BroadcastTake
      <3>2. \A i \in todo' : path[i] # None
        BY <2>1 DEF BroadcastTake, FanOut, CoordInv, InstInv, PhaseOfNext
      <3>3. QED
        BY <2>1, <3>1, <3>2 DEF BroadcastTake, FanOut, coordVars
    <2>2. CASE BroadcastDrop
      BY <2>2 DEF BroadcastDrop, coordVars
    <2>3. ASSUME NEW i \in Insts, BroadcastSkip(i) PROVE Echo'
      BY <2>3 DEF BroadcastSkip, FanOut, coordVars
    <2>4. ASSUME NEW i \in Insts, BroadcastVisit(i) PROVE Echo'
      BY <2>4 DEF BroadcastVisit, coordVars
    <2>5. CASE BroadcastEnqueue
      BY <2>5 DEF BroadcastEnqueue, FanOut, coordVars
    <2>6. CASE BroadcastOverflow
      BY <2>6 DEF BroadcastOverflow, FanOut, coordVars
    <2>7. CASE BroadcastReturn
      BY <2>7 DEF BroadcastReturn, FanOut, coordVars
    <2>8. QED
      BY <1>3, <2>1, <2>2, <2>3, <2>4, <2>5, <2>6, <2>7 DEF Broadcast
  <1>4. ASSUME NEW i \in Insts, Worker(i) PROVE Echo'
    <2>1. CASE WorkerTake(i)
      BY <2>1 DEF WorkerTake, coordVars
    <2>2. CASE WorkerWrite(i)
      BY <2>2 DEF WorkerWrite, coordVars
    <2>3. CASE WorkerWriteFails(i)
      BY <2>3 DEF WorkerWriteFails, coordVars
    <2>4. CASE WorkerReturn(i)
      BY <2>4 DEF WorkerReturn, GoroutineExit, dataVars
    <2>5. QED
      BY <1>4, <2>1, <2>2, <2>3, <2>4 DEF Worker
  <1>5. QED
    BY <1>1, <1>2, <1>3, <1>4 DEF Next, vars

\* Before the first packet there is nothing to echo.
LEMMA EchoInit == Init => EchoInv
  BY InitInv
     DEF Init, DataInit, CoordInv, EchoInv, TypeOK, LoopsHoldPackets,
         DestinationChecked, QueuesAvoidSource, NeverEchoed

\* The check of the source path survives in every queue and every worker.
LEMMA EchoInvariant == Spec => []EchoInv
  <1>1. QED
    BY EchoInit, EchoStep, RelayCoordInv, PTL DEF Spec

\* The relay's state keeps its types.
THEOREM RelayTypeCorrect == Spec => []TypeOK
  <1>1. EchoInv => TypeOK
    BY DEF EchoInv
  <1>2. QED
    BY EchoInvariant, <1>1, PTL

\* No packet is written into the namespace it was read from, however often
\* that namespace was torn down and rebuilt while the packet was in flight.
THEOREM NoEcho == Spec => []NeverEchoed
  <1>1. EchoInv => NeverEchoed
    BY DEF EchoInv
  <1>2. QED
    BY EchoInvariant, <1>1, PTL

\* A namespace whose removal is published is not written to: a write needs a
\* running worker, and in the select only instances of the snapshot have one.
THEOREM RemovedStaysSilent == Spec => RemovedIsSilent
  <1> DEFINE Silent == \A p \in Paths :
               coord = "select" /\ snap[p] = None => written'[p] = written[p]
  <1>1. CoordInv /\ TypeOK /\ [Next]_vars => [Silent]_vars
    <2> SUFFICES ASSUME CoordInv, TypeOK, Next, NEW p \in Paths,
                        coord = "select", snap[p] = None
                 PROVE  written'[p] = written[p]
      BY DEF vars
    <2>1. ASSUME NEW i \in Insts, WorkerWrite(i) PROVE path[i] # p
      <3>1. <<i, Sender>> \in running
        BY <2>1 DEF WorkerWrite
      <3>2. i \in handles
        BY <3>1 DEF CoordInv, InstInv, HoldersAreKnown, Roles
      <3>3. next[path[i]] = i
        BY <3>2, ConstAssumption
           DEF CoordInv, InstInv, HoldersAreKnown, VictimIsLeaving
      <3>4. QED
        BY <3>3, ConstAssumption DEF CoordInv, InstInv, PhaseOfNext
    <2>2. ASSUME NEW i \in Insts, WorkerWrite(i)
          PROVE  written'[p] = written[p]
      BY <2>1, <2>2 DEF TypeOK, WorkerWrite
    <2>3. (\A i \in Insts : ~WorkerWrite(i)) => written' = written
      BY DEF Next, dataVars, Receiver, RecvCheck, RecvRead, RecvTimeout,
         RecvPush, RecvReturn, Broadcast, BroadcastTake, BroadcastDrop,
         BroadcastSkip, BroadcastVisit, BroadcastEnqueue, BroadcastOverflow,
         BroadcastReturn, Worker, WorkerTake, WorkerWriteFails, WorkerReturn
    <2>4. QED
      BY <2>2, <2>3
  <1>2. QED
    BY <1>1, RelayCoordInv, RelayTypeCorrect, PTL DEF Spec, RemovedIsSilent

----------------------------------------------------------------------------
(* InOrderAtMostOnce.  OrderInv relates every two places of the pipeline;  *)
(* an action moves one packet one place on.                                *)

\* What a send to a channel and a receive from one do to its contents and to
\* their order.
LEMMA AppendRange ==
  ASSUME NEW S, NEW s \in Seq(S), NEW e \in S
  PROVE  Range(Append(s, e)) = Range(s) \cup {e}
  <1>1. \A n \in DOMAIN s : n \in DOMAIN Append(s, e) /\ Append(s, e)[n] = s[n]
    OBVIOUS
  <1>2. /\ Len(s) + 1 \in DOMAIN Append(s, e)
        /\ Append(s, e)[Len(s) + 1] = e
    OBVIOUS
  <1>3. \A n \in DOMAIN Append(s, e) : n \in DOMAIN s \/ n = Len(s) + 1
    OBVIOUS
  <1>4. QED
    BY <1>1, <1>2, <1>3, Zenon DEF Range

\* A receive from a channel adds nothing to its content.
LEMMA TailRange ==
  ASSUME NEW S, NEW s \in Seq(S), s # <<>>
  PROVE  Head(s) \in Range(s) /\ Range(Tail(s)) \subseteq Range(s)
  <1>1. 1 \in DOMAIN s /\ Head(s) = s[1]
    OBVIOUS
  <1>2. \A n \in DOMAIN Tail(s) : n + 1 \in DOMAIN s /\ Tail(s)[n] = s[n + 1]
    OBVIOUS
  <1>3. QED
    BY <1>1, <1>2 DEF Range

\* A queue stays ascending when what is appended is later than its content.
LEMMA AppendAscending ==
  ASSUME NEW S, NEW s \in Seq(S), NEW e \in S, Ascending(s),
         \A k \in Range(s) : Before(k, e)
  PROVE  Ascending(Append(s, e))
  <1> SUFFICES ASSUME NEW m \in DOMAIN Append(s, e), NEW n \in DOMAIN Append(s, e),
                      m < n
               PROVE  Before(Append(s, e)[m], Append(s, e)[n])
    BY DEF Ascending
  <1>1. m \in DOMAIN s /\ Append(s, e)[m] = s[m]
    OBVIOUS
  <1>2. CASE n \in DOMAIN s
    <2>1. Append(s, e)[n] = s[n]
      BY <1>2
    <2>2. QED
      BY <1>1, <1>2, <2>1 DEF Ascending
  <1>3. CASE n \notin DOMAIN s
    <2>1. Append(s, e)[n] = e
      BY <1>3
    <2>2. s[m] \in Range(s)
      BY <1>1 DEF Range
    <2>3. QED
      BY <1>1, <2>1, <2>2
  <1>4. QED
    BY <1>2, <1>3

\* A queue stays ascending when its head is taken.
LEMMA TailAscending ==
  ASSUME NEW S, NEW s \in Seq(S), s # <<>>, Ascending(s)
  PROVE  /\ Ascending(Tail(s))
         /\ \A l \in Range(Tail(s)) : Before(Head(s), l)
  <1>1. \A n \in DOMAIN Tail(s) : n \in Nat /\ n + 1 \in DOMAIN s /\ Tail(s)[n] = s[n + 1]
    OBVIOUS
  <1>2. 1 \in DOMAIN s /\ Head(s) = s[1]
    OBVIOUS
  <1>3. Ascending(Tail(s))
    <2> SUFFICES ASSUME NEW m \in DOMAIN Tail(s), NEW n \in DOMAIN Tail(s), m < n
                 PROVE  Before(Tail(s)[m], Tail(s)[n])
      BY DEF Ascending
    <2>1. m + 1 < n + 1
      BY <1>1
    <2>2. QED
      BY <1>1, <2>1 DEF Ascending
  <1>4. ASSUME NEW n \in DOMAIN Tail(s) PROVE Before(Head(s), Tail(s)[n])
    <2>1. 1 < n + 1
      BY <1>4
    <2>2. QED
      BY <1>1, <1>2, <2>1 DEF Ascending
  <1>5. QED
    BY <1>3, <1>4 DEF Range

\* The members of Taken, in this state and in the next.
LEMMA TakenMembers ==
  /\ \A k : k \in Taken <=>
       \/ k = bpkt /\ bpkt # None
       \/ \E p \in Paths : k \in Range(written[p])
       \/ \E i \in Insts : k \in Held(i)
  /\ \A k : k \in Taken' <=>
       \/ k = bpkt' /\ bpkt' # None
       \/ \E p \in Paths : k \in Range(written'[p])
       \/ \E i \in Insts : k \in Held(i)'
  BY DEF Taken

\* Whatever is past broadcast, or waits for it, is a packet.
LEMMA TakenArePackets ==
  TypeOK => Taken \cup Range(broadcastCh) \subseteq Packet
  <1> SUFFICES ASSUME TypeOK PROVE Taken \cup Range(broadcastCh) \subseteq Packet
    OBVIOUS
  <1>1. ASSUME NEW s \in Seq(Packet) PROVE Range(s) \subseteq Packet
    BY DEF Range
  <1>2. \A p \in Paths : Range(written[p]) \subseteq Packet
    BY <1>1 DEF TypeOK
  <1>3. \A i \in Insts : Held(i) \subseteq Packet
    <2> TAKE i \in Insts
    <2>1. Range(sendCh[i]) \subseteq Packet
      BY <1>1 DEF TypeOK
    <2>2. QED
      BY <2>1 DEF TypeOK, Held
  <1>4. Range(broadcastCh) \subseteq Packet
    BY <1>1 DEF TypeOK
  <1>5. {bpkt} \ {None} \subseteq Packet
    BY DEF TypeOK
  <1>6. QED
    BY <1>2, <1>3, <1>4, <1>5, TakenMembers

\* Goroutines of one path that run belong to one instance.
LEMMA OneRunningPerPath ==
  ASSUME CoordInv, NEW i \in Insts, NEW j \in Insts, NEW r \in Roles, NEW s \in Roles,
         <<i, r>> \in running, <<j, s>> \in running, path[i] = path[j]
  PROVE  i = j
  <1>1. i \in handles /\ j \in handles
    BY DEF CoordInv, InstInv, HoldersAreKnown
  <1>2. /\ next[path[i]] = i \/ victim = i
        /\ next[path[i]] = j \/ victim = j
    BY <1>1 DEF CoordInv, InstInv, HoldersAreKnown
  <1>3. QED
    BY <1>2, ConstAssumption DEF CoordInv, InstInv, VictimIsLeaving

\* Control steps stop no goroutine, and start those of a new instance only.
LEMMA ControlStartsNew ==
  ControlStep => /\ running \subseteq running'
                 /\ \A i \in Insts, r \in Roles :
                      <<i, r>> \in running' => <<i, r>> \in running \/ path[i] = None
  <1> SUFFICES ASSUME ControlStep
               PROVE  /\ running \subseteq running'
                      /\ \A i \in Insts, r \in Roles :
                          <<i, r>> \in running' => <<i, r>> \in running \/ path[i] = None
    OBVIOUS
  <1>1. ASSUME NEW p \in Paths, NEW i \in Insts, BuildInstance(p, i)
        PROVE  /\ running' = running \cup ({i} \X Roles)
               /\ path[i] = None
    BY <1>1 DEF BuildInstance
  <1>2. (\A p \in Paths, i \in Insts : ~BuildInstance(p, i)) => running' = running
    BY DEF ControlStep, CallerStep, CoordStep, instVars, Call, CallReturns,
       CallCancelled, TimerFires, AcceptCmd, StartReconcile, TeardownCloseSocket,
       TeardownFinish, ReconcileRemove, ReconcileAddActive, BuildFails,
       StoreSnapshot, StartDrain, DrainOne, DrainDone, Cancel
  <1>3. QED
    BY <1>1, <1>2

\* While coordinate works the packets stay where they are.  An instance that it
\* builds meanwhile holds none.
LEMMA ControlOrderStep ==
  CoordInv /\ EchoInv /\ OrderInv /\ ControlStep /\ UNCHANGED dataVars => OrderInv'
  <1> SUFFICES ASSUME CoordInv, EchoInv, OrderInv, ControlStep, UNCHANGED dataVars
               PROVE  OrderInv'
    OBVIOUS
  <1> USE ConstAssumption DEF OrderInv
  <1>1. \A i \in Insts : path[i] # None => path'[i] = path[i]
    BY PathsAreForGood DEF CoordNext
  <1>2. UNCHANGED <<rpkt, broadcastCh, bpkt, todo, sendCh, wpkt, arrivals, written>>
    BY DEF dataVars
  <1>3. /\ \A i \in Insts : Held(i)' = Held(i)
        /\ Taken' = Taken
    BY <1>2 DEF Held, Taken
  <1>4. ASSUME NEW i \in Insts, path[i] = None
        PROVE  sendCh[i] = <<>> /\ wpkt[i] = None /\ Range(sendCh[i]) = {} /\ Held(i) = {}
    <2>1. sendCh[i] = <<>> /\ wpkt[i] = None
      BY <1>4 DEF EchoInv, QueuesAvoidSource
    <2>2. Range(<<>>) = {}
      BY DEF Range
    <2>3. QED
      BY <2>1, <2>2 DEF Held
  <1>5. ASSUME NEW p \in Paths PROVE Reached(p)' = Reached(p)
    <2>1. \A i \in Insts : path'[i] = p /\ path[i] # p => Held(i) = {}
      BY <1>1, <1>4
    <2>2. \A i \in Insts : path[i] = p => path'[i] = p
      BY <1>1
    <2>3. QED
      BY <1>2, <1>3, <2>1, <2>2 DEF Reached
  <1>6. ReadersHoldTheirOwn'
    <2> SUFFICES ASSUME NEW i \in Insts, NEW g \in Groups, rpkt[<<i, g>>] # None
                 PROVE  /\ <<i, g>> \in running'
                        /\ rpkt[<<i, g>>].source = path'[i]
                        /\ rpkt[<<i, g>>].group = g
      BY <1>2 DEF ReadersHoldTheirOwn
    <2>1. <<i, g>> \in running /\ path[i] # None
      BY DEF ReadersHoldTheirOwn, CoordInv, InstInv, HoldersAreKnown, Roles
    <2>2. QED
      BY <1>1, <2>1, ControlStartsNew DEF ReadersHoldTheirOwn
  <1>7. UpstreamIsLater'
    BY <1>2, <1>3 DEF UpstreamIsLater
  <1>8. FanOutIsNew'
    <2>1. \A i \in todo : path'[i] = path[i] /\ path[i] \in Paths
      BY <1>1 DEF EchoInv, DestinationChecked, TypeOK, CoordTypeOK
    <2>2. QED
      BY <1>2, <1>5, <2>1 DEF FanOutIsNew
  <1>9. WorkersAreInOrder'
    <2> SUFFICES ASSUME NEW i \in Insts, <<i, Sender>> \in running'
                 PROVE  /\ Ascending(sendCh[i])
                        /\ wpkt[i] # None => \A l \in Range(sendCh[i]) : Before(wpkt[i], l)
                        /\ \A k \in Range(written[path'[i]]), l \in Held(i) : Before(k, l)
      BY <1>2, <1>3 DEF WorkersAreInOrder
    <2>1. CASE path[i] = None
      BY <1>4, <2>1 DEF Ascending
    <2>2. CASE path[i] # None
      <3>1. <<i, Sender>> \in running /\ path'[i] = path[i]
        BY <1>1, <2>2, ControlStartsNew DEF Roles
      <3>2. QED
        BY <3>1 DEF WorkersAreInOrder
    <2>3. QED
      BY <2>1, <2>2
  <1>10. InOrderAtMostOnce'
    BY <1>2 DEF InOrderAtMostOnce
  <1>11. QED
    BY <1>6, <1>7, <1>8, <1>9, <1>10

\* A packet that is read is the latest of all, and it is pushed after those of
\* its source and group: one receive loop runs for them.
LEMMA ReceiverOrderStep ==
  ASSUME NEW i \in Insts, NEW g \in Groups
  PROVE  CoordInv /\ EchoInv /\ OrderInv /\ Receiver(i, g) => OrderInv'
  <1> SUFFICES ASSUME CoordInv, EchoInv, OrderInv, Receiver(i, g) PROVE OrderInv'
    OBVIOUS
  <1> USE ConstAssumption, RelayAssumption DEF OrderInv
  <1>0. TypeOK
    BY DEF EchoInv
  <1>1. UNCHANGED <<path, bpkt, todo, sendCh, wpkt, written>>
    BY DEF Receiver, RecvCheck, RecvRead, RecvTimeout, RecvPush, RecvReturn,
       GoroutineExit, coordVars, bcastVars
  <1>2. /\ \A j \in Insts : Held(j)' = Held(j)
        /\ \A p : Reached(p)' = Reached(p)
        /\ Taken' = Taken
    BY <1>1 DEF Held, Reached, Taken
  <1>3. \A j \in Insts : <<j, Sender>> \in running' => <<j, Sender>> \in running
    BY DEF Receiver, RecvCheck, RecvRead, RecvTimeout, RecvPush, RecvReturn,
       GoroutineExit, coordVars
  <1>4. FanOutIsNew' /\ WorkersAreInOrder' /\ InOrderAtMostOnce'
    BY <1>1, <1>2, <1>3 DEF FanOutIsNew, WorkersAreInOrder, InOrderAtMostOnce
  <1>5. ReadersHoldTheirOwn' /\ UpstreamIsLater'
    <2>1. CASE RecvCheck(i, g) \/ RecvTimeout(i, g)
      <3>1. UNCHANGED <<running, rpkt, broadcastCh, arrivals>>
        BY <2>1 DEF RecvCheck, RecvTimeout, coordVars
      <3>2. QED
        BY <1>1, <1>2, <3>1 DEF ReadersHoldTheirOwn, UpstreamIsLater
    <2>2. CASE RecvRead(i, g)
      <3> DEFINE k == [id |-> arrivals + 1, group |-> g, source |-> path[i]]
      <3>1. /\ rpkt' = [rpkt EXCEPT ![<<i, g>>] = k]
            /\ arrivals' = arrivals + 1
            /\ arrivals \in Nat
            /\ <<i, g>> \in running
            /\ UNCHANGED <<running, broadcastCh>>
        BY <1>0, <2>2 DEF RecvRead, coordVars, TypeOK
      <3>2. /\ rpkt'[<<i, g>>] = k
            /\ \A j \in Insts, h \in Groups : <<j, h>> # <<i, g>> =>
                 rpkt'[<<j, h>>] = rpkt[<<j, h>>]
        BY <1>0, <3>1 DEF TypeOK
      <3>3. ReadersHoldTheirOwn'
        BY <1>1, <3>1, <3>2 DEF ReadersHoldTheirOwn
      <3>4. \A l \in Taken \cup Range(broadcastCh) :
              l.id \in Nat /\ l.id <= arrivals' /\ Before(l, k)
        <4>1. \A l \in Taken \cup Range(broadcastCh) : l \in Packet
          BY <1>0, TakenArePackets
        <4>2. \A l \in Taken \cup Range(broadcastCh) : l.id \in Nat
          BY <4>1 DEF Packet
        <4>3. \A l \in Taken \cup Range(broadcastCh) : l.id <= arrivals
          BY DEF UpstreamIsLater
        <4>4. QED
          BY <3>1, <4>2, <4>3 DEF Before
      <3>5. \A j \in Insts, h \in Groups : rpkt'[<<j, h>>] # None =>
              rpkt'[<<j, h>>].id <= arrivals'
        <4> SUFFICES ASSUME NEW j \in Insts, NEW h \in Groups, <<j, h>> # <<i, g>>,
                            rpkt[<<j, h>>] # None
                     PROVE  rpkt[<<j, h>>].id <= arrivals'
          BY <3>1, <3>2
        <4>1. rpkt[<<j, h>>].id \in Nat
          BY <1>0 DEF TypeOK, Packet
        <4>2. QED
          BY <3>1, <4>1 DEF UpstreamIsLater
      <3>6. \A j \in Insts, h \in Groups : rpkt'[<<j, h>>] # None =>
              \A l \in Taken \cup Range(broadcastCh) : Before(l, rpkt'[<<j, h>>])
        BY <3>2, <3>4 DEF UpstreamIsLater
      <3>7. UpstreamIsLater'
        BY <1>2, <3>1, <3>4, <3>5, <3>6 DEF UpstreamIsLater
      <3>8. QED
        BY <3>3, <3>7
    <2>3. CASE RecvPush(i, g)
      <3> DEFINE k == rpkt[<<i, g>>]
      <3>1. /\ rpkt' = [rpkt EXCEPT ![<<i, g>>] = None]
            /\ broadcastCh' = Append(broadcastCh, k)
            /\ <<i, g>> \in running
            /\ UNCHANGED <<running, arrivals>>
        BY <2>3 DEF RecvPush, coordVars
      <3>2. k # None /\ k \in Packet /\ broadcastCh \in Seq(Packet)
        BY <1>0, <2>3 DEF RecvPush, EchoInv, LoopsHoldPackets, TypeOK
      <3>3. Range(broadcastCh') = Range(broadcastCh) \cup {k}
        BY <3>1, <3>2, AppendRange
      <3>4. \A j \in Insts, h \in Groups : rpkt'[<<j, h>>] # None =>
              <<j, h>> # <<i, g>> /\ rpkt'[<<j, h>>] = rpkt[<<j, h>>]
        BY <1>0, <3>1 DEF TypeOK
      <3>5. ReadersHoldTheirOwn'
        BY <1>1, <3>1, <3>4 DEF ReadersHoldTheirOwn
      <3>6. ASSUME NEW j \in Insts, NEW h \in Groups, rpkt'[<<j, h>>] # None
            PROVE  Before(k, rpkt[<<j, h>>])
        <4> SUFFICES ASSUME k.source = rpkt[<<j, h>>].source,
                            k.group = rpkt[<<j, h>>].group
                     PROVE  FALSE
          BY DEF Before
        <4>1. <<j, h>> \in running /\ path[i] = path[j] /\ h = g
          BY <3>2, <3>4, <3>6 DEF ReadersHoldTheirOwn
        <4>2. i = j
          BY <3>1, <4>1, OneRunningPerPath DEF Roles
        <4>3. QED
          BY <3>4, <3>6, <4>1, <4>2
      <3>7. /\ k.id <= arrivals
            /\ \A l \in Taken \cup Range(broadcastCh) : Before(l, k)
        BY <3>2 DEF UpstreamIsLater
      <3>8. Ascending(broadcastCh')
        BY <3>1, <3>2, <3>7, AppendAscending DEF UpstreamIsLater
      <3>9. UpstreamIsLater'
        BY <1>2, <3>1, <3>3, <3>4, <3>6, <3>7, <3>8 DEF UpstreamIsLater
      <3>10. QED
        BY <3>5, <3>9
    <2>4. CASE RecvReturn(i, g)
      <3>1. /\ rpkt' = [rpkt EXCEPT ![<<i, g>>] = None]
            /\ running' = running \ {<<i, g>>}
            /\ UNCHANGED <<broadcastCh, arrivals>>
        BY <2>4 DEF RecvReturn, GoroutineExit
      <3>2. \A j \in Insts, h \in Groups : rpkt'[<<j, h>>] # None =>
              <<j, h>> # <<i, g>> /\ rpkt'[<<j, h>>] = rpkt[<<j, h>>]
        BY <1>0, <3>1 DEF TypeOK
      <3>3. ReadersHoldTheirOwn'
        BY <1>1, <3>1, <3>2 DEF ReadersHoldTheirOwn
      <3>4. UpstreamIsLater'
        BY <1>2, <3>1, <3>2 DEF UpstreamIsLater
      <3>5. QED
        BY <3>3, <3>4
    <2>5. QED
      BY <2>1, <2>2, <2>3, <2>4 DEF Receiver
  <1>6. QED
    BY <1>4, <1>5

\* The packet that broadcast takes is later than all that went before, and each
\* path of the loaded snapshot gets it once.
LEMMA BroadcastOrderStep ==
  CoordInv /\ EchoInv /\ OrderInv /\ Broadcast => OrderInv'
  <1> SUFFICES ASSUME CoordInv, EchoInv, OrderInv, Broadcast PROVE OrderInv'
    OBVIOUS
  <1> USE ConstAssumption, RelayAssumption DEF OrderInv
  <1>0. TypeOK
    BY DEF EchoInv
  <1>1. UNCHANGED <<path, running, rpkt, wpkt, arrivals, written>>
    BY DEF Broadcast, BroadcastTake, BroadcastDrop, BroadcastSkip, BroadcastVisit,
       BroadcastEnqueue, BroadcastOverflow, BroadcastReturn, coordVars
  <1>2. ReadersHoldTheirOwn' /\ InOrderAtMostOnce'
    BY <1>1 DEF ReadersHoldTheirOwn, InOrderAtMostOnce
  <1>3. ASSUME NEW p \in Paths PROVE Reached(p) \subseteq Taken
    <2>1. Range(written[p]) \subseteq Taken
      BY TakenMembers
    <2>2. \A i \in Insts : Held(i) \subseteq Taken
      BY TakenMembers
    <2>3. QED
      BY <2>1, <2>2 DEF Reached
  \* A step that sends nothing.
  <1>4. ASSUME sendCh' = sendCh
        PROVE  /\ \A j \in Insts : Held(j)' = Held(j)
               /\ \A p : Reached(p)' = Reached(p)
               /\ WorkersAreInOrder'
               /\ Taken' = (Taken \ {bpkt}) \cup (Taken \cap Taken') \cup ({bpkt'} \ {None})
    <2>1. \A j \in Insts : Held(j)' = Held(j)
      BY <1>1, <1>4 DEF Held
    <2>2. QED
      BY <1>1, <1>4, <2>1 DEF Reached, Taken, WorkersAreInOrder
  \* A step that takes nothing off broadcastCh, or throws it away.
  <1>5. ASSUME Taken' \subseteq Taken, Range(broadcastCh') \subseteq Range(broadcastCh),
               Ascending(broadcastCh')
        PROVE  UpstreamIsLater'
    BY <1>1, <1>5 DEF UpstreamIsLater
  \* A step that goes on with the packet of the fan-out, or with none.
  <1>6. ASSUME sendCh' = sendCh, todo' \subseteq todo, bpkt' = bpkt \/ (bpkt' = None /\ todo' = {})
        PROVE  FanOutIsNew' /\ Taken' \subseteq Taken
    BY <1>1, <1>4, <1>6 DEF FanOutIsNew, Taken
  <1>7. CASE BroadcastTake
    <2> DEFINE k == Head(broadcastCh)
    <2>1. /\ broadcastCh # <<>> /\ broadcastCh \in Seq(Packet)
          /\ broadcastCh' = Tail(broadcastCh)
          /\ sendCh' = sendCh
          /\ todo' = {snap[p] : p \in Paths} \ {None}
          /\ bpkt' = k \/ (bpkt' = None /\ todo' = {})
      BY <1>0, <1>7 DEF BroadcastTake, FanOut, TypeOK
    <2>2. k \in Range(broadcastCh) /\ Range(broadcastCh') \subseteq Range(broadcastCh)
      BY <2>1, TailRange
    <2>3. /\ Ascending(broadcastCh')
          /\ \A l \in Range(broadcastCh') : Before(k, l)
      BY <2>1, TailAscending DEF UpstreamIsLater
    <2>4. Taken' \subseteq Taken \cup {k}
      BY <1>4, <2>1
    <2>5. UpstreamIsLater'
      BY <1>1, <2>2, <2>3, <2>4 DEF UpstreamIsLater
    <2>6. FanOutIsNew'
      <3>1. \A i \in todo' : path[i] \in Paths /\ snap[path[i]] = i
        BY <2>1 DEF CoordInv, InstInv, PhaseOfNext
      <3>2. \A i \in todo' : \A l \in Reached(path[i]) : Before(l, k)
        BY <1>3, <2>2, <3>1 DEF UpstreamIsLater
      <3>3. \A i, j \in todo' : path[i] = path[j] => i = j
        BY <3>1
      <3>4. \A i \in todo' : bpkt' = k
        BY <2>1
      <3>5. \A p : Reached(p)' = Reached(p)
        BY <1>4, <2>1
      <3>6. QED
        BY <1>1, <3>2, <3>3, <3>4, <3>5 DEF FanOutIsNew
    <2>7. QED
      BY <1>2, <1>4, <2>1, <2>5, <2>6
  <1>8. CASE BroadcastDrop
    <2>1. /\ broadcastCh # <<>> /\ broadcastCh \in Seq(Packet)
          /\ broadcastCh' = Tail(broadcastCh)
          /\ UNCHANGED <<sendCh, bpkt, todo>>
      BY <1>0, <1>8 DEF BroadcastDrop, TypeOK, bcastVars
    <2>2. Range(broadcastCh') \subseteq Range(broadcastCh) /\ Ascending(broadcastCh')
      BY <2>1, TailRange, TailAscending DEF UpstreamIsLater
    <2>3. QED
      BY <1>2, <1>4, <1>5, <1>6, <2>1, <2>2
  <1>9. CASE BroadcastOverflow \/ BroadcastReturn \/ \E i \in Insts : BroadcastSkip(i) \/ BroadcastVisit(i)
    <2>1. /\ UNCHANGED <<sendCh, broadcastCh>>
          /\ todo' \subseteq todo
          /\ bpkt' = bpkt \/ (bpkt' = None /\ todo' = {})
      BY <1>9 DEF BroadcastSkip, BroadcastVisit, BroadcastOverflow,
         BroadcastReturn, FanOut
    <2>2. Ascending(broadcastCh')
      BY <2>1 DEF UpstreamIsLater
    <2>3. QED
      BY <1>2, <1>4, <1>5, <1>6, <2>1, <2>2
  <1>10. CASE BroadcastEnqueue
    <2>1. PICK d \in todo :
            /\ d \in Insts
            /\ sendCh[d] \in Seq(Packet)
            /\ sendCh' = [sendCh EXCEPT ![d] = Append(sendCh[d], bpkt)]
            /\ todo' = todo \ {d}
      BY <1>0, <1>10 DEF BroadcastEnqueue, FanOut, EchoInv, DestinationChecked, TypeOK
    <2>2. /\ bpkt # None /\ bpkt \in Packet
          /\ bpkt' = bpkt \/ (bpkt' = None /\ todo' = {})
          /\ broadcastCh' = broadcastCh
      BY <1>0, <1>10 DEF BroadcastEnqueue, FanOut, EchoInv, DestinationChecked,
         LoopsHoldPackets, TypeOK
    <2>3. /\ sendCh'[d] = Append(sendCh[d], bpkt)
          /\ Range(sendCh'[d]) = Range(sendCh[d]) \cup {bpkt}
          /\ \A j \in Insts \ {d} : sendCh'[j] = sendCh[j]
      BY <1>0, <2>1, <2>2, AppendRange DEF TypeOK
    <2>4. /\ Held(d)' = Held(d) \cup {bpkt}
          /\ \A j \in Insts \ {d} : Held(j)' = Held(j)
      BY <1>1, <2>1, <2>2, <2>3 DEF Held
    <2>5. Taken' \subseteq Taken
      <3>1. bpkt \in Taken /\ \A j \in Insts : Held(j) \subseteq Taken
        BY <2>2, TakenMembers
      <3>2. \A j \in Insts : Held(j)' \subseteq Taken
        BY <2>4, <3>1
      <3>3. QED
        BY <1>1, <2>2, <3>1, <3>2, TakenMembers
    <2>6. /\ \A k \in Reached(path[d]) : Before(k, bpkt)
          /\ Range(sendCh[d]) \subseteq Reached(path[d])
          /\ wpkt[d] # None => wpkt[d] \in Reached(path[d])
          /\ Range(written[path[d]]) \subseteq Reached(path[d])
      BY <2>1 DEF FanOutIsNew, Reached, Held
    <2>7. FanOutIsNew'
      <3>1. ASSUME NEW p, p # path[d] PROVE Reached(p)' = Reached(p)
        BY <1>1, <2>4, <3>1 DEF Reached
      <3>2. \A i \in todo' : path[i] # path[d]
        BY <2>1 DEF FanOutIsNew
      <3>3. QED
        BY <1>1, <2>1, <2>2, <3>1, <3>2 DEF FanOutIsNew
    <2>8. WorkersAreInOrder'
      <3> SUFFICES ASSUME NEW i \in Insts, <<i, Sender>> \in running
                   PROVE  /\ Ascending(sendCh'[i])
                          /\ wpkt[i] # None => \A l \in Range(sendCh'[i]) : Before(wpkt[i], l)
                          /\ \A k \in Range(written[path[i]]), l \in Held(i)' : Before(k, l)
        BY <1>1 DEF WorkersAreInOrder
      <3>1. CASE i = d
        <4>1. Ascending(sendCh'[d])
          BY <2>1, <2>2, <2>3, <2>6, <3>1, AppendAscending DEF WorkersAreInOrder
        <4>2. wpkt[d] # None => \A l \in Range(sendCh'[d]) : Before(wpkt[d], l)
          BY <2>3, <2>6, <3>1 DEF WorkersAreInOrder
        <4>3. \A k \in Range(written[path[d]]), l \in Held(d)' : Before(k, l)
          BY <2>4, <2>6, <3>1 DEF WorkersAreInOrder
        <4>4. QED
          BY <3>1, <4>1, <4>2, <4>3
      <3>2. CASE i # d
        BY <2>3, <2>4, <3>2 DEF WorkersAreInOrder
      <3>3. QED
        BY <3>1, <3>2
    <2>9. UpstreamIsLater'
      BY <1>5, <2>2, <2>5 DEF UpstreamIsLater
    <2>10. QED
      BY <1>2, <2>7, <2>8, <2>9
  <1>11. QED
    BY <1>7, <1>8, <1>9, <1>10 DEF Broadcast

\* A worker writes what is later than all that was written to its path; no other
\* worker of that path runs.
LEMMA WorkerOrderStep ==
  ASSUME NEW i \in Insts
  PROVE  CoordInv /\ EchoInv /\ OrderInv /\ Worker(i) => OrderInv'
  <1> SUFFICES ASSUME CoordInv, EchoInv, OrderInv, Worker(i) PROVE OrderInv'
    OBVIOUS
  <1> USE ConstAssumption, RelayAssumption DEF OrderInv
  <1>0. TypeOK
    BY DEF EchoInv
  <1>1. UNCHANGED <<path, rpkt, broadcastCh, bpkt, todo, arrivals>>
    BY DEF Worker, WorkerTake, WorkerWrite, WorkerWriteFails, WorkerReturn,
       GoroutineExit, coordVars, dataVars, bcastVars
  <1>2. /\ \A j \in Insts, g \in Groups : <<j, g>> \in running => <<j, g>> \in running'
        /\ running' \subseteq running
    BY DEF Worker, WorkerTake, WorkerWrite, WorkerWriteFails, WorkerReturn,
       GoroutineExit, coordVars
  <1>3. ReadersHoldTheirOwn'
    BY <1>1, <1>2 DEF ReadersHoldTheirOwn
  \* A step after which no more has got through, and nothing elsewhere.
  <1>4. ASSUME \A j \in Insts : Held(j)' \subseteq Held(j),
               \A p \in Paths : Range(written'[p]) \subseteq Range(written[p]) \cup
                                  (IF p = path[i] THEN Held(i) ELSE {})
        PROVE  UpstreamIsLater' /\ FanOutIsNew'
    <2>1. Taken' \subseteq Taken
      BY <1>1, <1>4, TakenMembers
    <2>2. UpstreamIsLater'
      BY <1>1, <2>1 DEF UpstreamIsLater
    <2>3. ASSUME NEW p \in Paths PROVE Reached(p)' \subseteq Reached(p)
      BY <1>1, <1>4, <2>3 DEF Reached
    <2>4. \A j \in todo : path[j] \in Paths
      BY <1>0 DEF EchoInv, DestinationChecked, TypeOK, CoordTypeOK
    <2>5. FanOutIsNew'
      BY <1>1, <2>3, <2>4 DEF FanOutIsNew
    <2>6. QED
      BY <2>2, <2>5
  <1>5. CASE WorkerTake(i)
    <2> DEFINE k == Head(sendCh[i])
    <2>1. /\ <<i, Sender>> \in running
          /\ sendCh[i] \in Seq(Packet) /\ sendCh[i] # <<>>
          /\ wpkt[i] = None
          /\ wpkt'[i] = k
          /\ sendCh'[i] = Tail(sendCh[i])
          /\ \A j \in Insts \ {i} : wpkt'[j] = wpkt[j] /\ sendCh'[j] = sendCh[j]
          /\ written' = written
      BY <1>0, <1>5 DEF WorkerTake, TypeOK
    <2>2. k \in Range(sendCh[i]) /\ Range(sendCh'[i]) \subseteq Range(sendCh[i])
      BY <2>1, TailRange
    <2>3. /\ Held(i)' \subseteq Held(i)
          /\ \A j \in Insts \ {i} : Held(j)' = Held(j)
      BY <2>1, <2>2 DEF Held
    <2>4. /\ Ascending(sendCh'[i])
          /\ \A l \in Range(sendCh'[i]) : Before(k, l)
      BY <2>1, TailAscending DEF WorkersAreInOrder
    <2>5. WorkersAreInOrder'
      BY <1>1, <1>2, <2>1, <2>3, <2>4 DEF WorkersAreInOrder
    <2>6. InOrderAtMostOnce'
      BY <2>1 DEF InOrderAtMostOnce
    <2>7. QED
      BY <1>3, <1>4, <2>1, <2>3, <2>5, <2>6
  <1>6. CASE WorkerWrite(i)
    <2> DEFINE k == wpkt[i]
    <2>1. <<i, Sender>> \in running /\ k # None /\ path[i] \in Paths
      BY <1>6 DEF WorkerWrite, Roles, CoordInv, InstInv, HoldersAreKnown
    <2>2. /\ written[path[i]] \in Seq(Packet) /\ k \in Packet
          /\ wpkt'[i] = None
          /\ \A j \in Insts \ {i} : wpkt'[j] = wpkt[j]
          /\ sendCh' = sendCh
          /\ written'[path[i]] = Append(written[path[i]], k)
          /\ \A p \in Paths \ {path[i]} : written'[p] = written[p]
      BY <1>0, <1>6, <2>1 DEF WorkerWrite, TypeOK
    <2>3. Range(written'[path[i]]) = Range(written[path[i]]) \cup {k}
      BY <2>2, AppendRange
    <2>4. /\ k \in Held(i) /\ Held(i)' = Range(sendCh[i])
          /\ \A j \in Insts : Held(j)' \subseteq Held(j)
      BY <2>1, <2>2 DEF Held
    <2>5. UpstreamIsLater' /\ FanOutIsNew'
      BY <1>4, <2>2, <2>3, <2>4
    <2>6. ASSUME NEW j \in Insts, <<j, Sender>> \in running, j # i
          PROVE  path[j] \in Paths \ {path[i]}
      BY <2>1, <2>6, OneRunningPerPath
         DEF Roles, CoordInv, InstInv, HoldersAreKnown
    <2>7. WorkersAreInOrder'
      <3> SUFFICES ASSUME NEW j \in Insts, <<j, Sender>> \in running
                   PROVE  /\ Ascending(sendCh[j])
                          /\ wpkt'[j] # None => \A l \in Range(sendCh[j]) : Before(wpkt'[j], l)
                          /\ \A m \in Range(written'[path[j]]), l \in Held(j)' : Before(m, l)
        BY <1>1, <1>2, <2>2 DEF WorkersAreInOrder
      <3>1. CASE j = i
        <4>1. \A l \in Held(i)' : Before(k, l)
          BY <2>1, <2>4 DEF WorkersAreInOrder
        <4>2. \A m \in Range(written[path[i]]), l \in Held(i)' : Before(m, l)
          BY <2>1, <2>4 DEF WorkersAreInOrder
        <4>3. QED
          BY <2>2, <2>3, <3>1, <4>1, <4>2 DEF WorkersAreInOrder
      <3>2. CASE j # i
        BY <2>2, <2>4, <2>6, <3>2 DEF WorkersAreInOrder
      <3>3. QED
        BY <3>1, <3>2
    <2>8. InOrderAtMostOnce'
      <3>1. \A p \in Paths : Ascending(written[p])
        BY DEF InOrderAtMostOnce, Ascending, Before
      <3>2. \A m \in Range(written[path[i]]) : Before(m, k)
        BY <2>1, <2>4 DEF WorkersAreInOrder
      <3>3. Ascending(written'[path[i]])
        BY <2>1, <2>2, <3>1, <3>2, AppendAscending
      <3>4. \A p \in Paths : Ascending(written'[p])
        BY <2>2, <3>1, <3>3
      <3>5. QED
        BY <3>4 DEF InOrderAtMostOnce, Ascending, Before
    <2>9. QED
      BY <1>3, <2>5, <2>7, <2>8
  <1>7. CASE WorkerWriteFails(i)
    <2>1. /\ wpkt'[i] = None
          /\ \A j \in Insts \ {i} : wpkt'[j] = wpkt[j]
          /\ UNCHANGED <<sendCh, written>>
      BY <1>0, <1>7 DEF WorkerWriteFails, TypeOK
    <2>2. \A j \in Insts : Held(j)' \subseteq Held(j)
      BY <2>1 DEF Held
    <2>3. WorkersAreInOrder' /\ InOrderAtMostOnce'
      BY <1>1, <1>2, <2>1, <2>2 DEF WorkersAreInOrder, InOrderAtMostOnce
    <2>4. QED
      BY <1>3, <1>4, <2>1, <2>2, <2>3
  <1>8. CASE WorkerReturn(i)
    <2>1. UNCHANGED <<sendCh, wpkt, written>>
      BY <1>8 DEF WorkerReturn, dataVars
    <2>2. \A j \in Insts : Held(j)' = Held(j)
      BY <2>1 DEF Held
    <2>3. WorkersAreInOrder' /\ InOrderAtMostOnce'
      BY <1>1, <1>2, <2>1, <2>2 DEF WorkersAreInOrder, InOrderAtMostOnce
    <2>4. QED
      BY <1>3, <1>4, <2>1, <2>2, <2>3
  <1>9. QED
    BY <1>5, <1>6, <1>7, <1>8 DEF Worker

\* Before the first packet everything is in order.
LEMMA OrderInit == Init => OrderInv
  <1> SUFFICES ASSUME Init PROVE OrderInv
    OBVIOUS
  <1>1. Range(<<>>) = {}
    BY DEF Range
  <1>2. \A i \in Insts : Held(i) = {}
    BY <1>1 DEF Init, DataInit, Held
  <1>3. Taken = {} /\ Range(broadcastCh) = {}
    BY <1>1, <1>2, TakenMembers DEF Init, DataInit
  <1>4. QED
    BY <1>3 DEF Init, DataInit, CoordInit, OrderInv, ReadersHoldTheirOwn,
       UpstreamIsLater, FanOutIsNew, WorkersAreInOrder, InOrderAtMostOnce, Ascending

\* A namespace gets the packets of a source and group in the order in which they
\* were read, none of them twice, whatever is torn down and rebuilt meanwhile.
THEOREM InOrder == Spec => []InOrderAtMostOnce
  <1>1. CoordInv /\ EchoInv /\ OrderInv /\ [Next]_vars => OrderInv'
    <2> SUFFICES ASSUME CoordInv, EchoInv, OrderInv, [Next]_vars PROVE OrderInv'
      OBVIOUS
    <2>1. CASE UNCHANGED vars
      BY <2>1 DEF vars, coordVars, dataVars, OrderInv, ReadersHoldTheirOwn,
         UpstreamIsLater, FanOutIsNew, WorkersAreInOrder, InOrderAtMostOnce,
         Taken, Reached, Held
    <2>2. QED
      BY <2>1, ControlOrderStep, ReceiverOrderStep, BroadcastOrderStep,
         WorkerOrderStep DEF Next
  <1>2. OrderInv => InOrderAtMostOnce
    BY DEF OrderInv
  <1>3. QED
    BY OrderInit, <1>1, <1>2, EchoInvariant, RelayCoordInv, PTL DEF Spec
============================================================================
