------------------------- MODULE SocketSetupProofs -------------------------
(***************************************************************************)
(* Proofs about SocketSetup, for any number of groups, threads, namespaces *)
(* and builds: sockets live in the namespace they were made for, and a     *)
(* build that failed at any of its calls leaves no more than               *)
(* RollbackIsBounded says.                                                 *)
(***************************************************************************)
EXTENDS SocketSetup, FiniteSetTheorems, TLAPS

\* The types survive every call.
LEMMA SetupTypeStep == SetupInv /\ [Next]_vars => TypeOK'
  <1> SUFFICES ASSUME SetupInv, [Next]_vars PROVE TypeOK'
    OBVIOUS
  <1>0. TypeOK
    BY DEF SetupInv
  <1>a. pc # "idle" => builds \in Builds
    BY DEF SetupInv, BuildIsInOrder
  <1> DEFINE Descriptor == [kind : Kinds, build : Builds, group : 1..(NGroups + 1), ns : AllNs]
  <1>b. ASSUME NEW kind \in Kinds, NEW ns \in AllNs, pc # "idle"
        PROVE  Fd(kind, ns) \in Descriptor
    BY <1>0, <1>a, <1>b DEF TypeOK, Fd
  <1>c. fds \subseteq Descriptor
    BY <1>0 DEF TypeOK
  <1> USE SetupAssumption DEF TypeOK, Fails, Continues
  <1>1. ASSUME NEW ns \in Namespaces, Open(ns) PROVE TypeOK'
    <2>1. builds' \in Builds /\ builds' \in 0..MaxBuilds
      BY <1>0, <1>1 DEF Open, Builds
    <2>2. [kind |-> "handle", build |-> builds', group |-> 1, ns |-> ns] \in Descriptor
      BY <2>1 DEF Kinds, AllNs
    <2>3. QED
      BY <1>0, <1>1, <2>1, <2>2 DEF Open, AllNs
  <1>2. ASSUME NEW t \in Threads, DoGet(t) PROVE TypeOK'
    <2>1. threadNs[t] \in AllNs /\ Fd("saved", threadNs[t]) \in Descriptor
      BY <1>0, <1>2, <1>b DEF DoGet, Kinds
    <2>2. QED
      BY <1>0, <1>2, <2>1 DEF DoGet
  <1>3. CASE DoSet
    BY <1>0, <1>3, <1>a DEF DoSet, SetFails
  <1>4. CASE Listen
    <2>1. Fd("conn", threadNs[thread]) \in Descriptor
      BY <1>0, <1>4, <1>b DEF Listen, Kinds
    <2>2. QED
      BY <1>0, <1>4, <2>1 DEF Listen
  <1>5. CASE Configure
    BY <1>0, <1>5 DEF Configure
  <1>6. CASE OpenRaw
    <2>1. Fd("raw", threadNs[thread]) \in Descriptor
      BY <1>0, <1>6, <1>b DEF OpenRaw, Kinds
    <2>2. QED
      BY <1>0, <1>6, <2>1 DEF OpenRaw
  <1>7. CASE SetBuffers
    BY <1>0, <1>7 DEF SetBuffers
  <1>8. CASE DoRestore
    BY <1>0, <1>8 DEF DoRestore, LeaveFails
  <1>9. CASE DoClose
    <2>1. group + 1 \in 1..(NGroups + 1)
      BY <1>0, <1>9 DEF DoClose, SetupInv, BuildIsInOrder, MoreGroups
    <2>2. QED
      BY <1>0, <1>9, <2>1 DEF DoClose, LeaveFails
  <1>10. CASE Rollback
    BY <1>0, <1>10 DEF Rollback
  <1>11. CASE Built
    BY <1>0, <1>11, <1>a DEF Built
  <1>12. ASSUME NEW b \in Builds, Teardown(b) PROVE TypeOK'
    BY <1>0, <1>12 DEF Teardown
  <1>13. CASE UNCHANGED vars
    BY <1>0, <1>13 DEF vars
  <1>14. QED
    BY <1>1, <1>2, <1>3, <1>4, <1>5, <1>6, <1>7, <1>8, <1>9, <1>10, <1>11,
       <1>12, <1>13 DEF Next

\* Causes are recorded, and nothing is opened, for the build in progress only.
LEMMA CauseStep ==
  SetupInv /\ [Next]_vars => CauseOfFailure' /\ NothingIsAhead'
  <1> SUFFICES ASSUME SetupInv, [Next]_vars PROVE CauseOfFailure' /\ NothingIsAhead'
    OBVIOUS
  <1> USE SetupAssumption
      DEF SetupInv, TypeOK, CauseOfFailure, NothingIsAhead, BuildIsInOrder, InFn,
          Fails, Continues, Fd, Mine
  <1>1. ASSUME NEW ns \in Namespaces, Open(ns)
        PROVE  CauseOfFailure' /\ NothingIsAhead'
    BY <1>1 DEF Open, Builds
  <1>2. ASSUME NEW t \in Threads, DoGet(t)
        PROVE  CauseOfFailure' /\ NothingIsAhead'
    BY <1>2 DEF DoGet
  <1>3. CASE DoSet
    BY <1>3 DEF DoSet, SetFails
  <1>4. CASE Listen
    BY <1>4 DEF Listen
  <1>5. CASE Configure
    BY <1>5 DEF Configure
  <1>6. CASE OpenRaw
    BY <1>6 DEF OpenRaw
  <1>7. CASE SetBuffers
    BY <1>7 DEF SetBuffers
  <1>8. CASE DoRestore
    BY <1>8 DEF DoRestore, LeaveFails
  <1>9. CASE DoClose
    BY <1>9 DEF DoClose, LeaveFails
  <1>10. CASE Rollback
    BY <1>10 DEF Rollback
  <1>11. CASE Built
    BY <1>11 DEF Built
  <1>12. ASSUME NEW b \in Builds, Teardown(b)
         PROVE  CauseOfFailure' /\ NothingIsAhead'
    BY <1>12 DEF Teardown
  <1>13. CASE UNCHANGED vars
    BY <1>13 DEF vars
  <1>14. QED
    BY <1>1, <1>2, <1>3, <1>4, <1>5, <1>6, <1>7, <1>8, <1>9, <1>10, <1>11,
       <1>12, <1>13 DEF Next

\* A socket is made by a thread that has entered the target: fn does not run
\* unless netns.Set succeeded, whatever namespace the thread came from.
LEMMA TargetStep ==
  SetupInv /\ [Next]_vars => ThreadIsInTarget' /\ SocketsInTarget'
  <1> SUFFICES ASSUME SetupInv, [Next]_vars
               PROVE  ThreadIsInTarget' /\ SocketsInTarget'
    OBVIOUS
  <1> USE SetupAssumption
      DEF SetupInv, TypeOK, ThreadIsInTarget, SocketsInTarget, Sockets,
          BuildIsInOrder, NothingIsAhead, InFn, Fails, Continues, Fd, Mine
  <1>1. ASSUME NEW ns \in Namespaces, Open(ns) PROVE ThreadIsInTarget' /\ SocketsInTarget'
    BY <1>1 DEF Open, Builds
  <1>2. ASSUME NEW t \in Threads, DoGet(t) PROVE ThreadIsInTarget' /\ SocketsInTarget'
    BY <1>2 DEF DoGet
  <1>3. CASE DoSet
    BY <1>3 DEF DoSet, SetFails
  <1>4. CASE Listen
    BY <1>4 DEF Listen
  <1>5. CASE Configure
    BY <1>5 DEF Configure
  <1>6. CASE OpenRaw
    BY <1>6 DEF OpenRaw
  <1>7. CASE SetBuffers
    BY <1>7 DEF SetBuffers
  <1>8. CASE DoRestore
    BY <1>8 DEF DoRestore, LeaveFails
  <1>9. CASE DoClose
    BY <1>9 DEF DoClose, LeaveFails
  <1>10. CASE Rollback
    BY <1>10 DEF Rollback
  <1>11. CASE Built
    BY <1>11 DEF Built
  <1>12. ASSUME NEW b \in Builds, Teardown(b) PROVE ThreadIsInTarget' /\ SocketsInTarget'
    BY <1>12 DEF Teardown
  <1>13. CASE UNCHANGED vars
    BY <1>13 DEF vars
  <1>14. QED
    BY <1>1, <1>2, <1>3, <1>4, <1>5, <1>6, <1>7, <1>8, <1>9, <1>10, <1>11,
       <1>12, <1>13 DEF Next

\* Each call opens and closes of the current group what OpenNow says.
LEMMA BuildStep == SetupInv /\ [Next]_vars => BuildIsInOrder'
  <1> SUFFICES ASSUME SetupInv, [Next]_vars PROVE BuildIsInOrder'
    OBVIOUS
  <1> USE SetupAssumption
      DEF SetupInv, TypeOK, BuildIsInOrder, CauseOfFailure, NothingIsAhead,
          OpenNow, LeftNow, LeftBy, HasConn, MoreGroups, InFn, Fails, Continues,
          Fd, Mine
  <1>1. ASSUME NEW ns \in Namespaces, Open(ns) PROVE BuildIsInOrder'
    <2>1. builds' \in Builds /\ builds' \notin built /\ built' = built
      BY <1>1 DEF Open, Builds
    <2>2. \A f \in fds : f.build # builds'
      BY <1>1 DEF Open
    <2>3. CASE pc' = "group"
      <3> DEFINE h == [kind |-> "handle", build |-> builds', group |-> 1, ns |-> ns]
      <3>1. fds' = fds \cup {h}
        BY <1>1, <2>3 DEF Open
      <3>2. group' = 1 /\ ~HasConn'
        BY <1>1, <2>3 DEF Open
      <3>3. /\ h \in fds' /\ h.kind = "handle" /\ h.build = builds' /\ h.group = 1
            /\ \A f \in fds' : f.build = builds' => f = h
        BY <2>2, <3>1
      <3> HIDE DEF h
      <3>4. \A g \in 1..NGroups : ~(g < group') /\ ~(g = group' /\ HasConn')
        BY <3>2
      <3>5. QED
        BY <2>1, <2>3, <3>2, <3>3, <3>4
    <2>4. CASE pc' = "idle"
      BY <2>4
    <2>5. QED
      BY <1>1, <2>3, <2>4 DEF Open
  <1>2. ASSUME NEW t \in Threads, DoGet(t) PROVE BuildIsInOrder'
    BY <1>2 DEF DoGet
  <1>3. CASE DoSet
    BY <1>3 DEF DoSet, SetFails
  <1>4. CASE Listen
    <2>1. CASE Continues("configure") /\ fds' = fds \cup {Fd("conn", threadNs[thread])}
      <3>1. /\ Fd("conn", threadNs[thread]) \in fds'
            /\ \A f \in fds : f \in fds'
            /\ \A f \in fds' : f \in fds \/ f = Fd("conn", threadNs[thread])
        BY <2>1
      <3>2. UNCHANGED <<builds, group, built>> /\ pc = "listen" /\ pc' = "configure"
        BY <1>4, <2>1 DEF Listen
      <3>3. QED
        BY <3>1, <3>2
    <2>2. CASE Fails("early", "restore") /\ fds' = fds
      BY <1>4, <2>2 DEF Listen
    <2>3. QED
      BY <1>4, <2>1, <2>2 DEF Listen
  <1>5. CASE Configure
    BY <1>5 DEF Configure
  <1>6. CASE OpenRaw
    BY <1>6 DEF OpenRaw
  <1>7. CASE SetBuffers
    BY <1>7 DEF SetBuffers
  <1>8. CASE DoRestore
    BY <1>8 DEF DoRestore, LeaveFails
  <1>9. CASE DoClose
    BY <1>9 DEF DoClose, LeaveFails
  <1>10. CASE Rollback
    BY <1>10 DEF Rollback
  <1>11. CASE Built
    BY <1>11 DEF Built
  <1>12. ASSUME NEW b \in Builds, Teardown(b) PROVE BuildIsInOrder'
    BY <1>12 DEF Teardown
  <1>13. CASE UNCHANGED vars
    BY <1>13 DEF vars
  <1>14. QED
    BY <1>1, <1>2, <1>3, <1>4, <1>5, <1>6, <1>7, <1>8, <1>9, <1>10, <1>11,
       <1>12, <1>13 DEF Next

\* A build that is over leaves what its cause allows, or a whole instance, which
\* no later build touches.
LEMMA PastStep == SetupInv /\ [Next]_vars => PastIsBounded'
  <1> SUFFICES ASSUME SetupInv, [Next]_vars PROVE PastIsBounded'
    OBVIOUS
  <1> USE SetupAssumption
      DEF SetupInv, TypeOK, PastIsBounded, BuildIsInOrder, CauseOfFailure,
          NothingIsAhead, Fails, Continues, Fd, Mine, Builds
  <1>1. ASSUME NEW ns \in Namespaces, Open(ns) PROVE PastIsBounded'
    BY <1>1 DEF Open
  <1>2. ASSUME NEW t \in Threads, DoGet(t) PROVE PastIsBounded'
    BY <1>2 DEF DoGet
  <1>3. CASE DoSet
    BY <1>3 DEF DoSet, SetFails
  <1>4. CASE Listen
    BY <1>4 DEF Listen
  <1>5. CASE Configure
    BY <1>5 DEF Configure
  <1>6. CASE OpenRaw
    BY <1>6 DEF OpenRaw
  <1>7. CASE SetBuffers
    BY <1>7 DEF SetBuffers
  <1>8. CASE DoRestore
    BY <1>8 DEF DoRestore, LeaveFails
  <1>9. CASE DoClose
    BY <1>9 DEF DoClose, LeaveFails
  <1>10. CASE Rollback
    <2>1. /\ pc = "rollback" /\ builds \in Builds \ built /\ retErr
          /\ \A f \in fds' : f \in fds
          /\ \A f \in fds : f.build # builds => f \in fds'
          /\ UNCHANGED <<builds, built, cause>>
      BY <1>10 DEF Rollback, ClosedByRollback
    <2>2. \A f \in fds' : f.build = builds => f.kind \in LeftBy(cause[builds]) /\ f.group = group
      BY <1>10, <2>1 DEF Rollback, ClosedByRollback, OpenNow, LeftNow
    <2>3. QED
      BY <2>1, <2>2
  <1>11. CASE Built
    <2>1. /\ pc = "group" /\ group > NGroups /\ builds \in Builds \ built
          /\ built' = built \cup {builds}
          /\ UNCHANGED <<builds, fds, cause>>
      BY <1>11 DEF Built, MoreGroups
    <2>2. \A f \in fds : f.build = builds => f.kind \in {"handle", "conn", "raw"}
      BY <2>1 DEF OpenNow
    <2>3. QED
      BY <2>1, <2>2
  <1>12. ASSUME NEW b \in Builds, Teardown(b) PROVE PastIsBounded'
    BY <1>12 DEF Teardown
  <1>13. CASE UNCHANGED vars
    BY <1>13 DEF vars
  <1>14. QED
    BY <1>1, <1>2, <1>3, <1>4, <1>5, <1>6, <1>7, <1>8, <1>9, <1>10, <1>11,
       <1>12, <1>13 DEF Next

\* Before the first build nothing is open and every thread is at home.
LEMMA SetupInit == Init => SetupInv
  <1> SUFFICES ASSUME Init PROVE SetupInv
    OBVIOUS
  <1> USE SetupAssumption DEF Init
  <1>1. TypeOK
    <2>1. builds \in 0..MaxBuilds /\ group \in 1..(NGroups + 1)
      OBVIOUS
    <2>2. /\ target \in [Builds -> AllNs]
          /\ threadNs \in [Threads -> AllNs]
          /\ savedNs \in AllNs
      BY DEF AllNs
    <2>3. QED
      BY <2>1, <2>2 DEF TypeOK
  <1>2. ThreadIsInTarget /\ BuildIsInOrder /\ CauseOfFailure
    BY DEF ThreadIsInTarget, BuildIsInOrder, CauseOfFailure, InFn
  <1>3. NothingIsAhead /\ SocketsInTarget
    BY DEF NothingIsAhead, SocketsInTarget, Sockets
  <1>4. PastIsBounded
    BY DEF PastIsBounded, Builds
  <1>5. QED
    BY <1>1, <1>2, <1>3, <1>4 DEF SetupInv

\* The state in which every build, and what is left of it, is accounted for.
THEOREM SetupInvariant == Spec => []SetupInv
  <1>1. SetupInv /\ [Next]_vars => SetupInv'
    BY SetupTypeStep, CauseStep, TargetStep, BuildStep, PastStep DEF SetupInv
  <1>2. QED
    BY SetupInit, <1>1, PTL DEF Spec

\* Whatever thread Do runs on and wherever an earlier Do left it, every socket
\* is in the namespace of the instance it was made for.
THEOREM SocketsAreInTarget == Spec => []SocketsInTarget
  <1>1. SetupInv => SocketsInTarget
    BY DEF SetupInv
  <1>2. QED
    BY SetupInvariant, <1>1, PTL

\* A build that fails leaves at most the sockets of one group, and those only
\* after the two failures that the code does not clean up after.
THEOREM RollbackBound == Spec => []RollbackIsBounded
  <1>1. SetupInv => RollbackIsBounded
    <2> SUFFICES ASSUME SetupInv, pc = "idle", NEW b \in Builds
                 PROVE  LET mine == {f \in fds : f.build = b} IN
                        IF b \in built
                          THEN /\ {f.kind : f \in mine} \subseteq {"handle", "conn", "raw"}
                               /\ \E f \in mine : f.kind = "handle"
                               /\ \A g \in 1..NGroups :
                                    \E f \in mine : f.kind = "conn" /\ f.group = g
                          ELSE /\ {f.kind : f \in mine} \subseteq LeftBy(cause[b])
                               /\ Cardinality({f.group : f \in mine}) <= 1
      BY DEF RollbackIsBounded
    <2> DEFINE mine == {f \in fds : f.build = b}
               groups == {f.group : f \in mine}
    <2>0. b \in Int /\ builds \in Int
      BY SetupAssumption DEF SetupInv, TypeOK, Builds
    <2>1. CASE b > builds
      <3>1. mine = {}
        BY <2>0, <2>1 DEF SetupInv, TypeOK, NothingIsAhead, Builds
      <3>2. b \notin built /\ groups = {}
        BY <2>0, <2>1, <3>1 DEF SetupInv, NothingIsAhead
      <3>3. Cardinality(groups) = 0
        BY <3>2, FS_EmptySet
      <3>4. QED
        BY <3>1, <3>2, <3>3
    <2>2. CASE b <= builds /\ b \in built
      BY <2>0, <2>2 DEF SetupInv, PastIsBounded
    <2>3. CASE b <= builds /\ b \notin built
      <3>1. /\ {f.kind : f \in mine} \subseteq LeftBy(cause[b])
            /\ \A f, h \in mine : f.group = h.group
        BY <2>0, <2>3 DEF SetupInv, PastIsBounded
      <3>2. Cardinality(groups) <= 1
        <4>1. CASE mine = {}
          BY <4>1, FS_EmptySet
        <4>2. CASE mine # {}
          <5>1. PICK f : f \in mine
            BY <4>2
          <5>2. groups = {f.group}
            BY <3>1, <5>1
          <5>3. Cardinality({f.group}) = 1
            BY FS_Singleton
          <5>4. QED
            BY <5>2, <5>3
        <4>3. QED
          BY <4>1, <4>2
      <3>3. QED
        BY <2>3, <3>1, <3>2
    <2>4. QED
      BY <2>0, <2>1, <2>2, <2>3
  <1>2. QED
    BY SetupInvariant, <1>1, PTL
============================================================================
