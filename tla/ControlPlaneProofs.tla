------------------------ MODULE ControlPlaneProofs -------------------------
(***************************************************************************)
(* Proofs about Coordinator and, on top of it, ControlServer, for any      *)
(* number of paths, groups, containers, instances and concurrent requests  *)
(* and any number of calls.  CoordInv is proved inductive in four lemmas,  *)
(* one for each of its parts: types, instances, intents, and what is       *)
(* published; the last one also carries the refinement.  Then the handlers *)
(* are shown to use the coordinator as CoordSpec says a client may, and    *)
(* containerNamespaces to agree with what the coordinator has accepted:    *)
(* ServerInv is proved inductive in one lemma for each of its conjuncts.   *)
(***************************************************************************)
EXTENDS ControlServer, TLAPS

----------------------------------------------------------------------------
(* The coordinator.                                                        *)

\* relay.New leaves nothing open and nothing pending.
LEMMA InitInv == CoordInit => CoordInv
  <1> SUFFICES ASSUME CoordInit PROVE CoordInv
    OBVIOUS
  <1>1. CoordTypeOK /\ CallsCarryCommands
    BY DEF CoordInit, CoordTypeOK, CallsCarryCommands, Ops
  <1>2. InstInv
    BY DEF CoordInit, InstInv, HoldersAreKnown, ActiveIsWhole,
       VictimIsLeaving, PhaseOfNext
  <1>3. IntentInv
    BY DEF CoordInit, IntentInv, IntentHasTimer
  <1>4. WantedIsKept
    BY DEF CoordInit, WantedIsKept
  <1>5. QED
    BY <1>1, <1>2, <1>3, <1>4 DEF CoordInv

\* Every step keeps the types, and the command of a call in progress.
LEMMA TypeStep ==
  CoordInv /\ [CoordNext]_coordVars => (CoordTypeOK /\ CallsCarryCommands)'
  <1> SUFFICES ASSUME CoordInv, [CoordNext]_coordVars
               PROVE  (CoordTypeOK /\ CallsCarryCommands)'
    OBVIOUS
  <1> USE ConstAssumption DEF CoordInv, CoordTypeOK, CallsCarryCommands
  <1>1. ASSUME NEW c \in Callers, NEW op \in Ops, NEW p \in Paths, Call(c, op, p)
        PROVE  (CoordTypeOK /\ CallsCarryCommands)'
    BY <1>1 DEF Ops, Call, loopVars, instVars, histVars
  <1>2. ASSUME NEW c \in Callers, CallReturns(c)
        PROVE  (CoordTypeOK /\ CallsCarryCommands)'
    BY <1>2 DEF Ops, CallReturns, Outcome, loopVars, instVars, histVars
  <1>3. ASSUME NEW c \in Callers, CallCancelled(c)
        PROVE  (CoordTypeOK /\ CallsCarryCommands)'
    BY <1>3 DEF Ops, CallCancelled, Outcome, loopVars, instVars, histVars
  <1>4. CASE TimerFires
    BY <1>4 DEF TimerFires, callVars, instVars, histVars
  <1>5. ASSUME NEW c \in Callers, AcceptCmd(c)
        PROVE  (CoordTypeOK /\ CallsCarryCommands)'
    BY <1>5 DEF Ops, AcceptCmd, ArmTimer, instVars
  <1>6. CASE StartReconcile
    BY <1>6 DEF StartReconcile, callVars, instVars, histVars
  <1>7. ASSUME NEW g \in Groups, TeardownCloseSocket(g)
        PROVE  (CoordTypeOK /\ CallsCarryCommands)'
    BY <1>7 DEF TeardownCloseSocket, callVars, loopVars, histVars
  <1>8. CASE TeardownFinish
    BY <1>8 DEF TeardownFinish, callVars, histVars
  <1>9. ASSUME NEW p \in Paths, ReconcileRemove(p)
        PROVE  (CoordTypeOK /\ CallsCarryCommands)'
    BY <1>9 DEF ReconcileRemove, BeginTeardown, callVars, histVars
  <1>10. ASSUME NEW p \in Paths, ReconcileAddActive(p)
        PROVE  (CoordTypeOK /\ CallsCarryCommands)'
    BY <1>10 DEF ReconcileAddActive, AddLoopTakes, callVars
  <1>11. ASSUME NEW p \in Paths, NEW i \in Insts, BuildInstance(p, i)
        PROVE  (CoordTypeOK /\ CallsCarryCommands)'
    BY <1>11 DEF Roles, BuildInstance, AddLoopTakes, callVars
  <1>12. ASSUME NEW p \in Paths, BuildFails(p)
        PROVE  (CoordTypeOK /\ CallsCarryCommands)'
    BY <1>12 DEF BuildFails, AddLoopTakes, callVars
  <1>13. CASE StoreSnapshot
    BY <1>13 DEF StoreSnapshot, callVars, instVars, histVars
  <1>14. CASE StartDrain
    BY <1>14 DEF StartDrain, callVars, instVars, histVars
  <1>15. ASSUME NEW p \in Paths, DrainOne(p)
        PROVE  (CoordTypeOK /\ CallsCarryCommands)'
    BY <1>15 DEF DrainOne, BeginTeardown, callVars, histVars
  <1>16. CASE DrainDone
    BY <1>16 DEF DrainDone, callVars, instVars, histVars
  <1>17. CASE Cancel
    BY <1>17 DEF Cancel, callVars, loopVars, instVars, histVars
  <1>18. ASSUME NEW i \in Insts, NEW r \in Roles, GoroutineExit(i, r)
        PROVE  (CoordTypeOK /\ CallsCarryCommands)'
    BY <1>18 DEF GoroutineExit, CtxDone, callVars, loopVars, histVars
  <1>19. CASE UNCHANGED coordVars
    BY <1>19 DEF coordVars
  <1>20. QED
    BY <1>1, <1>2, <1>3, <1>4, <1>5, <1>6, <1>7, <1>8, <1>9, <1>10, <1>11,
       <1>12, <1>13, <1>14, <1>15, <1>16, <1>17, <1>18, <1>19
       DEF CoordNext, ControlStep, CallerStep, CoordStep

\* Every step keeps the invariant of the instances and what they hold.
LEMMA InstStep ==
  CoordInv /\ [CoordNext]_coordVars => InstInv'
  <1> SUFFICES ASSUME CoordInv, [CoordNext]_coordVars
               PROVE  InstInv'
    OBVIOUS
  <1> USE ConstAssumption DEF CoordInv, CoordTypeOK, InstInv, HoldersAreKnown,
        ActiveIsWhole, VictimIsLeaving, PhaseOfNext
  <1>1. ASSUME NEW c \in Callers, NEW op \in Ops, NEW p \in Paths, Call(c, op, p)
        PROVE  InstInv'
    BY <1>1 DEF Call, loopVars, instVars
  <1>2. ASSUME NEW c \in Callers, CallReturns(c) PROVE InstInv'
    BY <1>2 DEF CallReturns, loopVars, instVars
  <1>3. ASSUME NEW c \in Callers, CallCancelled(c) PROVE InstInv'
    BY <1>3 DEF CallCancelled, loopVars, instVars
  <1>4. CASE TimerFires
    BY <1>4 DEF TimerFires, instVars
  <1>5. ASSUME NEW c \in Callers, AcceptCmd(c) PROVE InstInv'
    BY <1>5 DEF AcceptCmd, instVars
  <1>6. CASE StartReconcile
    BY <1>6 DEF StartReconcile, instVars
  <1>7. ASSUME NEW g \in Groups, TeardownCloseSocket(g) PROVE InstInv'
    BY <1>7 DEF TeardownCloseSocket, loopVars
  <1>8. CASE TeardownFinish
    <2>1. HoldersAreKnown'
      BY <1>8 DEF TeardownFinish
    <2>2. ActiveIsWhole'
      BY <1>8 DEF TeardownFinish
    <2>3. VictimIsLeaving'
      BY <1>8 DEF TeardownFinish
    <2>4. PhaseOfNext'
      BY <1>8 DEF TeardownFinish
    <2>5. QED
      BY <2>1, <2>2, <2>3, <2>4
  <1>9. ASSUME NEW p \in Paths, ReconcileRemove(p) PROVE InstInv'
    <2>1. HoldersAreKnown'
      BY <1>9 DEF ReconcileRemove, BeginTeardown
    <2>2. ActiveIsWhole'
      BY <1>9 DEF ReconcileRemove, BeginTeardown
    <2>3. VictimIsLeaving'
      BY <1>9 DEF ReconcileRemove, BeginTeardown
    <2>4. PhaseOfNext'
      BY <1>9 DEF ReconcileRemove, BeginTeardown
    <2>5. QED
      BY <2>1, <2>2, <2>3, <2>4
  <1>10. ASSUME NEW p \in Paths, ReconcileAddActive(p) PROVE InstInv'
    BY <1>10 DEF ReconcileAddActive, AddLoopTakes
  <1>11. ASSUME NEW p \in Paths, NEW i \in Insts, BuildInstance(p, i)
        PROVE  InstInv'
    <2>1. HoldersAreKnown'
      BY <1>11 DEF Roles, BuildInstance, AddLoopTakes
    <2>2. ActiveIsWhole'
      BY <1>11 DEF Roles, BuildInstance, AddLoopTakes
    <2>3. VictimIsLeaving'
      BY <1>11 DEF Roles, BuildInstance, AddLoopTakes
    <2>4. PhaseOfNext'
      BY <1>11 DEF Roles, BuildInstance, AddLoopTakes
    <2>5. QED
      BY <2>1, <2>2, <2>3, <2>4
  <1>12. ASSUME NEW p \in Paths, BuildFails(p) PROVE InstInv'
    BY <1>12 DEF BuildFails, AddLoopTakes
  <1>13. CASE StoreSnapshot
    BY <1>13 DEF StoreSnapshot, instVars
  <1>14. CASE StartDrain
    BY <1>14 DEF StartDrain, instVars
  <1>15. ASSUME NEW p \in Paths, DrainOne(p) PROVE InstInv'
    <2>1. HoldersAreKnown'
      BY <1>15 DEF DrainOne, BeginTeardown
    <2>2. ActiveIsWhole'
      BY <1>15 DEF DrainOne, BeginTeardown
    <2>3. VictimIsLeaving'
      BY <1>15 DEF DrainOne, BeginTeardown
    <2>4. PhaseOfNext'
      BY <1>15 DEF DrainOne, BeginTeardown
    <2>5. QED
      BY <2>1, <2>2, <2>3, <2>4
  <1>16. CASE DrainDone
    BY <1>16 DEF DrainDone, instVars
  <1>17. CASE Cancel
    BY <1>17 DEF Cancel, loopVars, instVars
  <1>18. ASSUME NEW i \in Insts, NEW r \in Roles, GoroutineExit(i, r)
        PROVE  InstInv'
    BY <1>18 DEF GoroutineExit, CtxDone, loopVars
  <1>19. CASE UNCHANGED coordVars
    BY <1>19 DEF coordVars
  <1>20. QED
    BY <1>1, <1>2, <1>3, <1>4, <1>5, <1>6, <1>7, <1>8, <1>9, <1>10, <1>11,
       <1>12, <1>13, <1>14, <1>15, <1>16, <1>17, <1>18, <1>19
       DEF CoordNext, ControlStep, CallerStep, CoordStep

\* Every step keeps the invariant of the pending intents.
LEMMA IntentStep ==
  CoordInv /\ [CoordNext]_coordVars => IntentInv'
  <1> SUFFICES ASSUME CoordInv, [CoordNext]_coordVars
               PROVE  IntentInv'
    OBVIOUS
  <1> USE ConstAssumption DEF CoordInv, InstInv, CoordTypeOK, IntentInv,
        IntentHasTimer
  <1>1. ASSUME NEW c \in Callers, NEW op \in Ops, NEW p \in Paths, Call(c, op, p)
        PROVE  IntentInv'
    BY <1>1 DEF Call, loopVars, histVars
  <1>2. ASSUME NEW c \in Callers, CallReturns(c) PROVE IntentInv'
    BY <1>2 DEF CallReturns, loopVars, histVars
  <1>3. ASSUME NEW c \in Callers, CallCancelled(c) PROVE IntentInv'
    BY <1>3 DEF CallCancelled, loopVars, histVars
  <1>4. CASE TimerFires
    BY <1>4 DEF TimerFires, histVars
  <1>5. ASSUME NEW c \in Callers, AcceptCmd(c) PROVE IntentInv'
    BY <1>5 DEF CallsCarryCommands, PhaseOfNext, Ops, AcceptCmd, ArmTimer
  <1>6. CASE StartReconcile
    BY <1>6 DEF PhaseOfNext, StartReconcile, histVars
  <1>7. ASSUME NEW g \in Groups, TeardownCloseSocket(g) PROVE IntentInv'
    BY <1>7 DEF TeardownCloseSocket, loopVars, histVars
  <1>8. CASE TeardownFinish
    BY <1>8 DEF TeardownFinish, histVars
  <1>9. ASSUME NEW p \in Paths, ReconcileRemove(p) PROVE IntentInv'
    BY <1>9 DEF VictimIsLeaving, ReconcileRemove, BeginTeardown, histVars
  <1>10. ASSUME NEW p \in Paths, ReconcileAddActive(p) PROVE IntentInv'
    BY <1>10 DEF ReconcileAddActive, AddLoopTakes
  <1>11. ASSUME NEW p \in Paths, NEW i \in Insts, BuildInstance(p, i)
        PROVE  IntentInv'
    BY <1>11 DEF BuildInstance, AddLoopTakes
  <1>12. ASSUME NEW p \in Paths, BuildFails(p) PROVE IntentInv'
    BY <1>12 DEF BuildFails, AddLoopTakes
  <1>13. CASE StoreSnapshot
    BY <1>13 DEF StoreSnapshot, histVars
  <1>14. CASE StartDrain
    BY <1>14 DEF StartDrain, histVars
  <1>15. ASSUME NEW p \in Paths, DrainOne(p) PROVE IntentInv'
    BY <1>15 DEF DrainOne, BeginTeardown, histVars
  <1>16. CASE DrainDone
    BY <1>16 DEF DrainDone, histVars
  <1>17. CASE Cancel
    BY <1>17 DEF Cancel, loopVars, histVars
  <1>18. ASSUME NEW i \in Insts, NEW r \in Roles, GoroutineExit(i, r)
        PROVE  IntentInv'
    BY <1>18 DEF GoroutineExit, loopVars, histVars
  <1>19. CASE UNCHANGED coordVars
    BY <1>19 DEF coordVars
  <1>20. QED
    BY <1>1, <1>2, <1>3, <1>4, <1>5, <1>6, <1>7, <1>8, <1>9, <1>10, <1>11,
       <1>12, <1>13, <1>14, <1>15, <1>16, <1>17, <1>18, <1>19
       DEF CoordNext, ControlStep, CallerStep, CoordStep

\* Every step keeps what is published and still wanted, and is to the clients
\* an acceptance, a publication, the end, or nothing.
LEMMA PublicStep ==
  CoordInv /\ [CoordNext]_coordVars =>
    WantedIsKept' /\ [Promised!NSNext]_(Promised!nsVars)
  <1> SUFFICES ASSUME CoordInv, [CoordNext]_coordVars
               PROVE  WantedIsKept' /\ [Promised!NSNext]_(Promised!nsVars)
    OBVIOUS
  <1> USE ConstAssumption DEF CoordInv, CoordTypeOK, InstInv, PhaseOfNext,
        WantedIsKept, Promised!nsVars
  <1>1. ASSUME NEW c \in Callers, NEW op \in Ops, NEW p \in Paths, Call(c, op, p)
        PROVE  WantedIsKept' /\ [Promised!NSNext]_(Promised!nsVars)
    BY <1>1 DEF Call, loopVars, histVars
  <1>2. ASSUME NEW c \in Callers, CallReturns(c)
        PROVE  WantedIsKept' /\ [Promised!NSNext]_(Promised!nsVars)
    BY <1>2 DEF CallReturns, loopVars, histVars
  <1>3. ASSUME NEW c \in Callers, CallCancelled(c)
        PROVE  WantedIsKept' /\ [Promised!NSNext]_(Promised!nsVars)
    BY <1>3 DEF CallCancelled, loopVars, histVars
  <1>4. CASE TimerFires
    BY <1>4 DEF TimerFires, histVars
  <1>5. ASSUME NEW c \in Callers, AcceptCmd(c)
        PROVE  WantedIsKept' /\ [Promised!NSNext]_(Promised!nsVars)
    <2>1. caller[c].op \in {"add", "remove"} /\ caller[c].path \in Paths
      BY <1>5 DEF AcceptCmd, CallsCarryCommands, Ops
    <2>2. WantedIsKept'
      BY <1>5 DEF AcceptCmd
    <2>3. Promised!Accept(caller[c].path, caller[c].op)
      BY <1>5 DEF AcceptCmd, Promised!Accept
    <2>4. QED
      BY <2>1, <2>2, <2>3 DEF Promised!NSNext
  <1>6. CASE StartReconcile
    BY <1>6 DEF StartReconcile, histVars
  <1>7. ASSUME NEW g \in Groups, TeardownCloseSocket(g)
        PROVE  WantedIsKept' /\ [Promised!NSNext]_(Promised!nsVars)
    BY <1>7 DEF TeardownCloseSocket, loopVars, histVars
  <1>8. CASE TeardownFinish
    BY <1>8 DEF TeardownFinish, histVars
  <1>9. ASSUME NEW p \in Paths, ReconcileRemove(p)
        PROVE  WantedIsKept' /\ [Promised!NSNext]_(Promised!nsVars)
    BY <1>9 DEF IntentInv, ReconcileRemove, histVars
  <1>10. ASSUME NEW p \in Paths, ReconcileAddActive(p)
        PROVE  WantedIsKept' /\ [Promised!NSNext]_(Promised!nsVars)
    BY <1>10 DEF ReconcileAddActive, AddLoopTakes
  <1>11. ASSUME NEW p \in Paths, NEW i \in Insts, BuildInstance(p, i)
        PROVE  WantedIsKept' /\ [Promised!NSNext]_(Promised!nsVars)
    BY <1>11 DEF BuildInstance, AddLoopTakes
  <1>12. ASSUME NEW p \in Paths, BuildFails(p)
        PROVE  WantedIsKept' /\ [Promised!NSNext]_(Promised!nsVars)
    BY <1>12 DEF BuildFails, AddLoopTakes
  <1>13. CASE StoreSnapshot
    <2>1. WantedIsKept'
      BY <1>13 DEF StoreSnapshot, histVars
    <2>2. \A p \in Paths : next[p] # None => intent[p] = "add"
      BY <1>13 DEF StoreSnapshot, IntentInv
    <2>3. Promised!Apply
      BY <1>13, <2>2 DEF StoreSnapshot, histVars, Promised!Apply, Promised!Adds
    <2>4. QED
      BY <2>1, <2>3 DEF Promised!NSNext
  <1>14. CASE StartDrain
    <2>1. Promised!Close
      BY <1>14 DEF StartDrain, histVars, Promised!Close
    <2>2. QED
      BY <1>14, <2>1 DEF StartDrain, Promised!NSNext
  <1>15. ASSUME NEW p \in Paths, DrainOne(p)
        PROVE  WantedIsKept' /\ [Promised!NSNext]_(Promised!nsVars)
    BY <1>15 DEF DrainOne, histVars
  <1>16. CASE DrainDone
    BY <1>16 DEF DrainDone, histVars
  <1>17. CASE Cancel
    BY <1>17 DEF Cancel, loopVars, histVars
  <1>18. ASSUME NEW i \in Insts, NEW r \in Roles, GoroutineExit(i, r)
        PROVE  WantedIsKept' /\ [Promised!NSNext]_(Promised!nsVars)
    BY <1>18 DEF GoroutineExit, loopVars, histVars
  <1>19. CASE UNCHANGED coordVars
    BY <1>19 DEF coordVars
  <1>20. QED
    BY <1>1, <1>2, <1>3, <1>4, <1>5, <1>6, <1>7, <1>8, <1>9, <1>10, <1>11,
       <1>12, <1>13, <1>14, <1>15, <1>16, <1>17, <1>18, <1>19
       DEF CoordNext, ControlStep, CallerStep, CoordStep

\* The invariant that links the namespace map, the instances and what they
\* hold, and the pending intents, in every reachable state.
THEOREM CoordInvariant == CoordSpec => []CoordInv
  <1>1. CoordInv /\ [CoordNext]_coordVars => CoordInv'
    BY TypeStep, InstStep, IntentStep, PublicStep DEF CoordInv
  <1>2. QED
    BY InitInv, <1>1, PTL DEF CoordSpec

\* The coordinator's state keeps its types.
THEOREM CoordTypeCorrect == CoordSpec => []CoordTypeOK
  <1>1. CoordInv => CoordTypeOK
    BY DEF CoordInv
  <1>2. QED
    BY CoordInvariant, <1>1, PTL

\* An old and a new instance of a path never overlap: of two holders one would
\* be in next and the other in teardown, whose path has left next.
THEOREM NoOverlap == CoordSpec => []OneHolderPerPath
  <1>1. CoordInv => OneHolderPerPath
    <2> SUFFICES ASSUME CoordInv, NEW i \in Insts, NEW j \in Insts,
                        i # j, path[i] # None, path[i] = path[j],
                        Holds(i), Holds(j)
                 PROVE  FALSE
      BY DEF OneHolderPerPath
    <2>1. i \in handles /\ j \in handles
      BY DEF CoordInv, InstInv, HoldersAreKnown, Holds
    <2>2. /\ path[i] \in Paths
          /\ next[path[i]] = i \/ victim = i
          /\ next[path[i]] = j \/ victim = j
      BY <2>1 DEF CoordInv, InstInv, HoldersAreKnown
    <2>3. QED
      BY <2>2, ConstAssumption DEF CoordInv, InstInv, VictimIsLeaving
  <1>2. QED
    BY CoordInvariant, <1>1, PTL

\* coordinate returns only when nothing it ever built is still held.
THEOREM NoLeak == CoordSpec => []NothingLeaked
  <1>1. CoordInv => NothingLeaked
    <2> SUFFICES ASSUME CoordInv, coord = "return"
                 PROVE  handles = {} /\ sockets = {} /\ running = {}
      BY DEF NothingLeaked
    <2>1. handles = {}
      BY ConstAssumption
         DEF CoordInv, CoordTypeOK, InstInv, HoldersAreKnown, PhaseOfNext
    <2>2. QED
      BY <2>1 DEF CoordInv, CoordTypeOK, InstInv, HoldersAreKnown
  <1>2. QED
    BY CoordInvariant, <1>1, PTL

\* What ActiveNamespaces reports between reconciles is what is alive.
THEOREM SnapshotLive == CoordSpec => []SnapshotIsLive
  <1>1. CoordInv => SnapshotIsLive
    <2> SUFFICES ASSUME CoordInv, coord = "select" PROVE SnapshotIsLive
      BY DEF SnapshotIsLive
    <2>1. next = snap /\ victim = None
      BY ConstAssumption DEF CoordInv, InstInv, PhaseOfNext, VictimIsLeaving
    <2>2. \A i \in Insts : Holds(i) => \E p \in Paths : snap[p] = i
      BY <2>1, ConstAssumption DEF CoordInv, InstInv, HoldersAreKnown, Holds
    <2>3. QED
      BY <2>1, <2>2
         DEF CoordInv, CoordTypeOK, InstInv, ActiveIsWhole, SnapshotIsLive
  <1>2. QED
    BY CoordInvariant, <1>1, PTL

\* No accepted intent is left without the timer that applies it.
THEOREM NoStrandedIntent == CoordSpec => []IntentHasTimer
  <1>1. CoordInv => IntentHasTimer
    BY DEF CoordInv, IntentInv
  <1>2. QED
    BY CoordInvariant, <1>1, PTL

\* However intents are coalesced, the last accepted one decides.
THEOREM LastIntent == CoordSpec => []LastIntentWins
  <1>1. CoordInv => LastIntentWins
    BY DEF CoordInv, InstInv, PhaseOfNext, IntentInv, LastIntentWins
  <1>2. QED
    BY CoordInvariant, <1>1, PTL

\* The coordinator, with its debounce, its teardowns and its builds that may
\* fail, implements what NamespaceSet promises to the clients of the API.
THEOREM CoordinatorRefinesNamespaceSet == CoordSpec => ImplementsNamespaceSet
  <1>1. CoordInit => Promised!NSInit
    BY DEF CoordInit, Promised!NSInit
  <1>2. QED
    BY CoordInvariant, PublicStep, <1>1, PTL
       DEF CoordSpec, ImplementsNamespaceSet, Promised!NSSpec

----------------------------------------------------------------------------
(* The handlers of the control API.                                        *)

\* Of the relay's own steps, only these three touch a call or an intent.
LEMMA RelayStepOnCalls ==
  RelayStep =>
    /\ UNCHANGED handlerVars
    /\ \/ \E c \in Callers : AcceptCmd(c)
       \/ \E c \in Callers : CallReturns(c)
       \/ \E c \in Callers : CallCancelled(c)
       \/ UNCHANGED <<caller, intent>>
  <1> SUFFICES ASSUME RelayStep
               PROVE  \/ \E c \in Callers : AcceptCmd(c)
                      \/ \E c \in Callers : CallReturns(c)
                      \/ \E c \in Callers : CallCancelled(c)
                      \/ UNCHANGED <<caller, intent>>
    BY DEF RelayStep
  <1>1. CASE \E c \in Callers : CallerStep(c)
    BY <1>1 DEF CallerStep
  <1>2. CASE TimerFires
    BY <1>2 DEF TimerFires, callVars, histVars
  <1>3. CASE CoordStep
    BY <1>3 DEF CoordStep, StartReconcile, TeardownCloseSocket, TeardownFinish,
       ReconcileRemove, ReconcileAddActive, BuildInstance, BuildFails,
       AddLoopTakes, StoreSnapshot, StartDrain, DrainOne, DrainDone, callVars,
       histVars
  <1>4. CASE Cancel
    BY <1>4 DEF Cancel, callVars, histVars
  <1>5. CASE \E i \in Insts, r \in Roles : GoroutineExit(i, r)
    BY <1>5 DEF GoroutineExit, callVars, histVars
  <1>6. QED
    BY <1>1, <1>2, <1>3, <1>4, <1>5 DEF RelayStep

\* Every step of the server is a step of the coordinator, with the handlers as
\* its callers, or leaves it alone: a handler calls with a path it knows, and
\* only when its previous call is over.
LEMMA ServerStepImplementsCoord ==
  ServerInv /\ [ServerNext]_serverVars => [CoordNext]_coordVars
  <1> SUFFICES ASSUME ServerInv, [ServerNext]_serverVars PROVE [CoordNext]_coordVars
    OBVIOUS
  <1> USE DEF CoordNext, ControlStep
  <1>1. ASSUME NEW r \in Callers, Arrive(r) PROVE [CoordNext]_coordVars
    BY <1>1 DEF Arrive, BadRequest, Post, Put, Delete
  <1>2. ASSUME NEW r \in Callers, Handle(r) PROVE [CoordNext]_coordVars
    <2> USE ServerAssumption
        DEF ServerInv, ServerTypeOK, RequestsAreInOrder, RegistersOwn, Registered, Ops
    <2>1. CASE PutLocksAndRemovesOld(r)
      BY <2>1 DEF PutLocksAndRemovesOld
    <2>2. CASE PutLocksAndAdds(r)
      BY <2>2 DEF PutLocksAndAdds
    <2>3. CASE PutRemovedOld(r)
      BY <2>3 DEF PutRemovedOld
    <2>4. CASE DeleteLocksAndRemoves(r)
      BY <2>4 DEF DeleteLocksAndRemoves
    <2>5. QED
      BY <1>2, <2>1, <2>2, <2>3, <2>4 DEF Handle, PostReturns, PutAdded,
         DeleteUnknown, DeleteRemoved, CallFailed
  <1>3. CASE RelayStep
    BY <1>3 DEF RelayStep
  <1>4. CASE UNCHANGED serverVars
    BY <1>4 DEF serverVars
  <1>5. QED
    BY <1>1, <1>2, <1>3, <1>4 DEF ServerNext

\* A server without requests and with an empty registry is in order.
LEMMA ServerInitInv == ServerInit => CoordInv /\ ServerInv
  <1> SUFFICES ASSUME ServerInit PROVE CoordInv /\ ServerInv
    OBVIOUS
  <1> USE ConstAssumption, ServerAssumption DEF ServerInit, Idle
  <1>1. CoordInv
    BY InitInv
  <1>2. ServerTypeOK
    BY <1>1 DEF ServerTypeOK, CoordInv
  <1>3. RequestsAreInOrder
    BY DEF RequestsAreInOrder, CoordInit
  <1>4. MutexHeldByLocked
    BY DEF MutexHeldByLocked, Locked
  <1>5. RegistersOwn
    BY DEF RegistersOwn
  <1>6. IntentFollowsHandlers
    BY DEF IntentFollowsHandlers, InSection, Matches, CoordInit
  <1>7. QED
    BY <1>1, <1>2, <1>3, <1>4, <1>5, <1>6 DEF ServerInv

\* The types survive every step.
LEMMA ServerTypeStep ==
  CoordTypeOK' /\ ServerInv /\ [ServerNext]_serverVars => ServerTypeOK'
  <1> SUFFICES ASSUME CoordTypeOK', ServerInv, [ServerNext]_serverVars PROVE ServerTypeOK'
    OBVIOUS
  <1> USE ServerAssumption
      DEF ServerInv, ServerTypeOK, RequestsAreInOrder, Receive, Respond, Lock, Idle
  <1>1. ASSUME NEW r \in Callers, Arrive(r) PROVE ServerTypeOK'
    <2>1. CASE BadRequest(r)
      BY <2>1 DEF BadRequest
    <2>2. ASSUME NEW op \in Ops, NEW p \in Paths, Post(r, op, p) PROVE ServerTypeOK'
      BY <2>2 DEF Post
    <2>3. ASSUME NEW c \in Containers, NEW p \in Own[c], Put(r, c, p) PROVE ServerTypeOK'
      BY <2>3 DEF Put
    <2>4. ASSUME NEW c \in Containers, Delete(r, c) PROVE ServerTypeOK'
      BY <2>4 DEF Delete
    <2>5. QED
      BY <1>1, <2>1, <2>2, <2>3, <2>4 DEF Arrive
  <1>2. ASSUME NEW r \in Callers, Handle(r) PROVE ServerTypeOK'
    <2>1. CASE PostReturns(r)
      BY <2>1 DEF PostReturns
    <2>2. CASE PutLocksAndRemovesOld(r)
      BY <2>2 DEF PutLocksAndRemovesOld
    <2>3. CASE PutLocksAndAdds(r)
      BY <2>3 DEF PutLocksAndAdds
    <2>4. CASE PutRemovedOld(r)
      BY <2>4 DEF PutRemovedOld
    <2>5. CASE PutAdded(r)
      BY <2>5 DEF PutAdded
    <2>6. CASE DeleteUnknown(r)
      BY <2>6 DEF DeleteUnknown
    <2>7. CASE DeleteLocksAndRemoves(r)
      BY <2>7 DEF DeleteLocksAndRemoves
    <2>8. CASE DeleteRemoved(r)
      BY <2>8 DEF DeleteRemoved
    <2>9. CASE CallFailed(r)
      BY <2>9 DEF CallFailed
    <2>10. QED
      BY <1>2, <2>1, <2>2, <2>3, <2>4, <2>5, <2>6, <2>7, <2>8, <2>9 DEF Handle
  <1>3. CASE RelayStep
    BY <1>3 DEF RelayStep, handlerVars
  <1>4. CASE UNCHANGED serverVars
    BY <1>4 DEF serverVars, handlerVars
  <1>5. QED
    BY <1>1, <1>2, <1>3, <1>4 DEF ServerNext

\* A request makes its calls where its handler waits for them.
LEMMA RequestOrderStep ==
  CoordInv /\ ServerInv /\ [ServerNext]_serverVars => RequestsAreInOrder'
  <1> SUFFICES ASSUME CoordInv, ServerInv, [ServerNext]_serverVars PROVE RequestsAreInOrder'
    OBVIOUS
  <1> USE ConstAssumption, ServerAssumption
      DEF ServerInv, ServerTypeOK, CoordTypeOK, RequestsAreInOrder, Receive, Respond,
      Lock, Idle, Registered, Call
  <1>1. ASSUME NEW r \in Callers, Arrive(r) PROVE RequestsAreInOrder'
    <2>1. CASE BadRequest(r)
      BY <2>1 DEF BadRequest, coordVars
    <2>2. ASSUME NEW op \in Ops, NEW p \in Paths \ OwnPaths, Post(r, op, p)
          PROVE  RequestsAreInOrder'
      BY <2>2 DEF Post
    <2>3. ASSUME NEW c \in Containers, NEW p \in Own[c], Put(r, c, p)
          PROVE  RequestsAreInOrder'
      BY <2>3 DEF Put, coordVars
    <2>4. ASSUME NEW c \in Containers, Delete(r, c) PROVE RequestsAreInOrder'
      BY <2>4 DEF Delete, coordVars
    <2>5. QED
      BY <1>1, <2>1, <2>2, <2>3, <2>4 DEF Arrive
  <1>2. ASSUME NEW r \in Callers, Handle(r) PROVE RequestsAreInOrder'
    <2>0. ASSUME NEW s \in Callers, handler[s].pc \in Locked, handler[r].pc \in Locked
          PROVE  s = r
      BY <2>0 DEF MutexHeldByLocked
    <2>1. CASE PostReturns(r)
      BY <2>1 DEF PostReturns, Returned, coordVars
    <2>2. CASE PutLocksAndRemovesOld(r)
      BY <2>2 DEF PutLocksAndRemovesOld
    <2>3. CASE PutLocksAndAdds(r)
      BY <2>3 DEF PutLocksAndAdds
    <2>4. CASE PutRemovedOld(r)
      BY <2>4 DEF PutRemovedOld
    <2>5. CASE PutAdded(r)
      BY <2>0, <2>5 DEF PutAdded, Locked, coordVars
    <2>6. CASE DeleteUnknown(r)
      BY <2>6 DEF DeleteUnknown, coordVars
    <2>7. CASE DeleteLocksAndRemoves(r)
      BY <2>7 DEF DeleteLocksAndRemoves
    <2>8. CASE DeleteRemoved(r)
      BY <2>0, <2>8 DEF DeleteRemoved, Locked, coordVars
    <2>9. CASE CallFailed(r)
      BY <2>9 DEF CallFailed, coordVars
    <2>10. QED
      BY <1>2, <2>1, <2>2, <2>3, <2>4, <2>5, <2>6, <2>7, <2>8, <2>9 DEF Handle
  <1>3. CASE RelayStep
    <2>1. UNCHANGED handlerVars
      BY <1>3, RelayStepOnCalls
    <2>2. ASSUME NEW c \in Callers, AcceptCmd(c) PROVE RequestsAreInOrder'
      BY <2>1, <2>2 DEF AcceptCmd, handlerVars
    <2>3. ASSUME NEW c \in Callers, CallReturns(c) PROVE RequestsAreInOrder'
      BY <2>1, <2>3 DEF CallReturns, Outcome, handlerVars
    <2>4. ASSUME NEW c \in Callers, CallCancelled(c) PROVE RequestsAreInOrder'
      BY <2>1, <2>4 DEF CallCancelled, Outcome, handlerVars
    <2>5. CASE UNCHANGED <<caller, intent>>
      BY <2>1, <2>5 DEF handlerVars
    <2>6. QED
      BY <1>3, <2>2, <2>3, <2>4, <2>5, RelayStepOnCalls
  <1>4. CASE UNCHANGED serverVars
    BY <1>4 DEF serverVars, handlerVars, coordVars
  <1>5. QED
    BY <1>1, <1>2, <1>3, <1>4 DEF ServerNext

\* The mutex is taken and released with the critical section, and what is
\* registered for a container is one of its own paths.
LEMMA MutexStep ==
  ServerInv /\ [ServerNext]_serverVars => (MutexHeldByLocked /\ RegistersOwn)'
  <1> SUFFICES ASSUME ServerInv, [ServerNext]_serverVars
               PROVE  (MutexHeldByLocked /\ RegistersOwn)'
    OBVIOUS
  <1> USE ConstAssumption, ServerAssumption
      DEF ServerInv, ServerTypeOK, MutexHeldByLocked, RegistersOwn, Locked, Receive,
      Respond, Lock, Idle
  <1>1. ASSUME NEW r \in Callers, Arrive(r) PROVE (MutexHeldByLocked /\ RegistersOwn)'
    BY <1>1 DEF Arrive, BadRequest, Post, Put, Delete
  <1>2. ASSUME NEW r \in Callers, Handle(r) PROVE (MutexHeldByLocked /\ RegistersOwn)'
    <2>1. CASE PostReturns(r)
      BY <2>1 DEF PostReturns
    <2>2. CASE PutLocksAndRemovesOld(r)
      BY <2>2 DEF PutLocksAndRemovesOld
    <2>3. CASE PutLocksAndAdds(r)
      BY <2>3 DEF PutLocksAndAdds
    <2>4. CASE PutRemovedOld(r)
      BY <2>4 DEF PutRemovedOld
    <2>5. CASE PutAdded(r)
      BY <2>5 DEF PutAdded, RequestsAreInOrder
    <2>6. CASE DeleteUnknown(r)
      BY <2>6 DEF DeleteUnknown
    <2>7. CASE DeleteLocksAndRemoves(r)
      BY <2>7 DEF DeleteLocksAndRemoves
    <2>8. CASE DeleteRemoved(r)
      BY <2>8 DEF DeleteRemoved
    <2>9. CASE CallFailed(r)
      BY <2>9 DEF CallFailed
    <2>10. QED
      BY <1>2, <2>1, <2>2, <2>3, <2>4, <2>5, <2>6, <2>7, <2>8, <2>9 DEF Handle
  <1>3. CASE RelayStep
    BY <1>3 DEF RelayStep, handlerVars
  <1>4. CASE UNCHANGED serverVars
    BY <1>4 DEF serverVars, handlerVars
  <1>5. QED
    BY <1>1, <1>2, <1>3, <1>4 DEF ServerNext

\* What was accepted follows the registry and the handler in its critical
\* section.  An accepted command of that handler is the case that counts: its
\* path belongs to its own container, so no other container is disturbed, and
\* a command of a POST is about no container's path.
LEMMA FollowStep ==
  CoordInv /\ ServerInv /\ [ServerNext]_serverVars => IntentFollowsHandlers'
  <1> SUFFICES ASSUME CoordInv, ServerInv, [ServerNext]_serverVars PROVE IntentFollowsHandlers'
    OBVIOUS
  <1> USE ConstAssumption, ServerAssumption
      DEF ServerInv, ServerTypeOK, CoordTypeOK, IntentFollowsHandlers, InSection,
      Matches, Receive, Respond, Lock, Idle, Registered
  <1>0. ASSUME NEW r \in Callers, handler[r].pc \in Locked
        PROVE  containerMu = r /\ handler[r].id \in Containers
    BY <1>0 DEF MutexHeldByLocked, RequestsAreInOrder, Locked
  <1>a. ASSUME NEW r \in Callers, handler[r].pc \notin Locked
        PROVE  containerMu # r
    BY <1>a DEF MutexHeldByLocked
  <1>1. ASSUME NEW r \in Callers, Arrive(r) PROVE IntentFollowsHandlers'
    <2>0. containerMu # r
      BY <1>1, <1>a DEF Arrive, BadRequest, Post, Put, Delete, Locked
    <2>1. /\ UNCHANGED <<containerMu, containerNamespaces, doubt, intent>>
          /\ \A s \in Callers \ {r} : handler'[s] = handler[s] /\ caller'[s] = caller[s]
      BY <1>1 DEF Arrive, BadRequest, Post, Put, Delete, Call, coordVars, histVars
    <2>2. QED
      BY <2>0, <2>1
  <1>2. ASSUME NEW r \in Callers, Handle(r) PROVE IntentFollowsHandlers'
    <2>1. CASE PostReturns(r) \/ DeleteUnknown(r)
      <3>0. containerMu # r
        BY <2>1, <1>a DEF PostReturns, DeleteUnknown, Locked
      <3>1. /\ UNCHANGED <<containerMu, containerNamespaces, doubt, intent, caller>>
            /\ \A s \in Callers \ {r} : handler'[s] = handler[s]
        BY <2>1 DEF PostReturns, DeleteUnknown, coordVars
      <3>2. QED
        BY <3>0, <3>1
    <2>2. CASE PutLocksAndRemovesOld(r)
      BY <2>2 DEF PutLocksAndRemovesOld, Call, histVars
    <2>3. CASE PutLocksAndAdds(r)
      BY <2>3 DEF PutLocksAndAdds, Call, histVars
    <2>4. CASE PutRemovedOld(r)
      BY <1>0, <2>4 DEF PutRemovedOld, Call, histVars, Locked
    <2>5. CASE PutAdded(r)
      BY <1>0, <2>5 DEF PutAdded, RequestsAreInOrder, coordVars, Locked
    <2>6. CASE DeleteLocksAndRemoves(r)
      BY <2>6 DEF DeleteLocksAndRemoves, Call, histVars
    <2>7. CASE DeleteRemoved(r)
      BY <1>0, <2>7 DEF DeleteRemoved, coordVars, Locked
    <2>8. CASE CallFailed(r)
      BY <1>0, <2>8 DEF CallFailed, coordVars, Locked
    <2>9. QED
      BY <1>2, <2>1, <2>2, <2>3, <2>4, <2>5, <2>6, <2>7, <2>8 DEF Handle
  <1>3. CASE RelayStep
    <2>1. UNCHANGED handlerVars
      BY <1>3, RelayStepOnCalls
    <2>2. ASSUME NEW r \in Callers, AcceptCmd(r) PROVE IntentFollowsHandlers'
      <3> DEFINE q == caller[r].path
      <3>1. /\ caller[r].pc = "send" /\ q \in Paths
            /\ caller' = [caller EXCEPT ![r].pc = "wait"]
            /\ intent' = [intent EXCEPT ![q] = caller[r].op]
        BY <2>2 DEF AcceptCmd, CoordInv, CallsCarryCommands
      <3>2. CASE handler[r].pc = "post"
        <4>1. q \notin OwnPaths
          BY <3>1, <3>2 DEF RequestsAreInOrder
        <4>2. \A c \in Containers : \A p \in Own[c] : intent'[p] = intent[p]
          BY <3>1, <4>1 DEF OwnPaths
        <4>3. containerMu # r
          BY <3>2, <1>a DEF Locked
        <4>4. QED
          BY <2>1, <3>1, <4>2, <4>3 DEF RequestsAreInOrder, handlerVars
      <3>3. CASE handler[r].pc \in {"putRemove", "deleteRemove"}
        <4>1. /\ caller[r].op = "remove" /\ q = Registered(r)
              /\ handler[r].id \in Containers /\ q \in Own[handler[r].id]
              /\ containerMu = r
          BY <1>0, <3>1, <3>3 DEF RequestsAreInOrder, RegistersOwn, Locked
        <4>2. \A c \in Containers \ {handler[r].id} : \A p \in Own[c] :
                intent'[p] = intent[p]
          BY <3>1, <4>1
        <4>3. handler[r].id \notin doubt =>
                \A p \in Own[handler[r].id] : intent'[p] # "add"
          BY <3>1, <3>3, <4>1
        <4>4. QED
          BY <2>1, <3>1, <3>3, <4>1, <4>2, <4>3 DEF handlerVars
      <3>4. CASE handler[r].pc = "putAdd"
        <4>1. /\ caller[r].op = "add" /\ q = handler[r].path
              /\ handler[r].id \in Containers /\ q \in Own[handler[r].id]
              /\ containerMu = r
          BY <1>0, <3>1, <3>4 DEF RequestsAreInOrder, Locked
        <4>2. \A c \in Containers \ {handler[r].id} : \A p \in Own[c] :
                intent'[p] = intent[p]
          BY <3>1, <4>1
        <4>3. handler[r].id \notin doubt =>
                \A p \in Own[handler[r].id] \ {q} : intent'[p] # "add"
          BY <3>1, <3>4, <4>1
        <4>4. intent'[q] = "add"
          BY <3>1, <4>1
        <4>5. QED
          BY <2>1, <3>1, <3>4, <4>1, <4>2, <4>3, <4>4 DEF handlerVars
      <3>5. QED
        BY <3>1, <3>2, <3>3, <3>4 DEF RequestsAreInOrder
    <2>3. ASSUME NEW r \in Callers, CallReturns(r) PROVE IntentFollowsHandlers'
      BY <2>1, <2>3 DEF CallReturns, Outcome, handlerVars, histVars
    <2>4. ASSUME NEW r \in Callers, CallCancelled(r) PROVE IntentFollowsHandlers'
      BY <2>1, <2>4 DEF CallCancelled, Outcome, handlerVars, histVars
    <2>5. CASE UNCHANGED <<caller, intent>>
      BY <2>1, <2>5 DEF handlerVars
    <2>6. QED
      BY <1>3, <2>2, <2>3, <2>4, <2>5, RelayStepOnCalls
  <1>4. CASE UNCHANGED serverVars
    BY <1>4 DEF serverVars, handlerVars, coordVars
  <1>5. QED
    BY <1>1, <1>2, <1>3, <1>4 DEF ServerNext

\* The coordinator's invariant and the server's, in every reachable state.
THEOREM ServerInvariant == ServerSpec => [](CoordInv /\ ServerInv)
  <1>1. CoordInv /\ ServerInv /\ [ServerNext]_serverVars => (CoordInv /\ ServerInv)'
    <2> SUFFICES ASSUME CoordInv, ServerInv, [ServerNext]_serverVars
                 PROVE  (CoordInv /\ ServerInv)'
      OBVIOUS
    <2>1. [CoordNext]_coordVars
      BY ServerStepImplementsCoord
    <2>2. CoordInv'
      BY <2>1, TypeStep, InstStep, IntentStep, PublicStep DEF CoordInv
    <2>3. ServerTypeOK'
      BY <2>2, ServerTypeStep DEF CoordInv
    <2>4. QED
      BY <2>2, <2>3, RequestOrderStep, MutexStep, FollowStep DEF ServerInv
  <1>2. QED
    BY ServerInitInv, <1>1, PTL DEF ServerSpec

\* The handlers are clients the coordinator's specification allows, so all that
\* is shown above holds under the control API.
THEOREM ServerImplementsCoordinator == ServerSpec => CoordSpec
  <1>1. ServerInit => CoordInit
    BY DEF ServerInit
  <1>2. QED
    BY ServerInvariant, ServerStepImplementsCoord, <1>1, PTL DEF ServerSpec, CoordSpec

\* The server's state keeps its types.
THEOREM ServerTypeCorrect == ServerSpec => []ServerTypeOK
  <1>1. ServerInv => ServerTypeOK
    BY DEF ServerInv
  <1>2. QED
    BY ServerInvariant, <1>1, PTL

\* While no PUT or DELETE is in its critical section, the registry says what
\* the coordinator has accepted, for every container no request failed for.
THEOREM RegistryFollowsIntent == ServerSpec => []RegistryMatchesIntent
  <1>1. ServerInv => RegistryMatchesIntent
    <2> SUFFICES ASSUME ServerInv, containerMu = None,
                        NEW c \in Containers \ doubt
                 PROVE  Matches(c)
      BY DEF RegistryMatchesIntent, Matches
    <2>1. \A r \in Callers : ~InSection(r, c)
      BY ServerAssumption DEF InSection
    <2>2. QED
      BY <2>1 DEF ServerInv, IntentFollowsHandlers
  <1>2. QED
    BY ServerInvariant, <1>1, PTL

\* Once everything accepted is applied, GET lists what the registry says.
THEOREM ListFollowsRegistry == ServerSpec => []ListMatchesRegistry
  <1>1. CoordInv /\ RegistryMatchesIntent => ListMatchesRegistry
    <2> SUFFICES ASSUME CoordInv, RegistryMatchesIntent, containerMu = None,
                        coord = "select", pendingAdd \cup pendingDel = {},
                        NEW c \in Containers \ doubt, NEW p \in Own[c]
                 PROVE  snap[p] # None <=> containerNamespaces[c] = p /\ p \notin failed
      BY DEF ListMatchesRegistry
    <2>1. p \in Paths \ (pendingAdd \cup pendingDel)
      BY ServerAssumption
    <2>2. snap[p] # None <=> intent[p] = "add" /\ p \notin failed
      BY <2>1 DEF CoordInv, InstInv, PhaseOfNext, IntentInv
    <2>3. QED
      BY <2>2 DEF RegistryMatchesIntent
  <1>2. QED
    BY ServerInvariant, RegistryFollowsIntent, <1>1, PTL

\* What README.md promises of DELETE holds for every container no request has
\* failed for, whatever other requests of it are under way: when its DELETE is
\* accepted, none of its paths is left with an accepted add.  (DeleteRemoves,
\* which says it of every container, does not hold: a PUT that failed after its
\* command was accepted leaves a path that no DELETE removes.)
THEOREM DeleteOfCertainRemoves ==
  ServerSpec => [][\A r \in Callers, c \in Containers :
               (/\ DeleteUnknown(r) \/ DeleteRemoved(r)
                /\ handler[r].id = c
                /\ c \notin doubt)
                 => \A p \in Own[c] : intent'[p] # "add"]_serverVars
  <1>1. ASSUME ServerInv, NEW r \in Callers, NEW c \in Containers,
               DeleteUnknown(r) \/ DeleteRemoved(r), handler[r].id = c, c \notin doubt
        PROVE  \A p \in Own[c] : intent'[p] # "add"
    <2> USE <1>1, ConstAssumption, ServerAssumption
        DEF ServerInv, ServerTypeOK, CoordTypeOK, IntentFollowsHandlers, InSection
    <2>1. CASE DeleteUnknown(r)
      <3>1. Matches(c)
        BY <2>1 DEF DeleteUnknown
      <3>2. containerNamespaces[c] = None /\ intent' = intent
        BY <2>1 DEF DeleteUnknown, Registered, coordVars
      <3>3. QED
        BY <3>1, <3>2 DEF Matches
    <2>2. CASE DeleteRemoved(r)
      <3>1. containerMu = r
        BY <2>2 DEF DeleteRemoved, MutexHeldByLocked, Locked
      <3>2. intent' = intent /\ handler[r].pc = "deleteRemove" /\ caller[r].pc = "ok"
        BY <2>2 DEF DeleteRemoved, coordVars
      <3>3. QED
        BY <3>1, <3>2
    <2>3. QED
      BY <2>1, <2>2
  <1>2. ServerInv /\ [ServerNext]_serverVars =>
          [\A r \in Callers, c \in Containers :
               (/\ DeleteUnknown(r) \/ DeleteRemoved(r)
                /\ handler[r].id = c
                /\ c \notin doubt)
                 => \A p \in Own[c] : intent'[p] # "add"]_serverVars
    BY <1>1
  <1>3. QED
    BY ServerInvariant, <1>2, PTL DEF ServerSpec
============================================================================
