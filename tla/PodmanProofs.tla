---------------------------- MODULE PodmanProofs ----------------------------
(***************************************************************************)
(* Proofs about the two ways in which the relay is kept in step with       *)
(* Podman: the watcher script (Watcher) and the hook with its reconciler   *)
(* (PodmanHook), for any number of containers, PIDs, failures and crashes. *)
(***************************************************************************)
EXTENDS Watcher, PodmanHook, SequenceTheorems, TLAPS

----------------------------------------------------------------------------
(* The watcher script.                                                     *)

\* main starts with an empty desired set and nothing listed.
LEMMA WatcherInitInv == Init => WatcherInv
  <1> SUFFICES ASSUME Init PROVE WatcherInv
    OBVIOUS
  <1>1. 0 \in 0..MaxStarts /\ 0 \in 0..MaxFaults
    BY WatcherAssumption
  <1>2. TypeOK
    BY <1>1 DEF Init, NSInit, TypeOK
  <1>3. ChangesAreNoticed /\ SteadyIsDesired
    BY DEF Init, ChangesAreNoticed, SteadyIsDesired
  <1>4. QED
    BY <1>2, <1>3 DEF WatcherInv

\* A failure is counted, up to the bound.
LEMMA FaultCounts ==
  ASSUME NEW kind, faults \in 0..MaxFaults, Fault(kind)
  PROVE  faults' \in 0..MaxFaults
  BY WatcherAssumption DEF Fault

\* What a POST may do: one command is accepted or nothing, and it leaves the
\* script where it is or ends it.
LEMMA PostEffect ==
  ASSUME TypeOK, NEW p \in Paths, NEW op \in {"add", "remove"}, Post(p, op)
  PROVE  /\ intent' \in [Paths -> {"none", "add", "remove"}]
         /\ \A q \in Paths \ {p} : intent'[q] = intent[q]
         /\ active' = active /\ closed' = closed /\ pending' \subseteq Paths
         /\ pc' \in {pc, "exit"}
         /\ faults' \in 0..MaxFaults
  BY FaultCounts DEF TypeOK, Post, Command, Accept, relayVars, nsVars

\* Containers, Podman's events and the relay keep the invariant, whatever the
\* script is doing meanwhile.
LEMMA EnvironmentKeepsWatcherInv ==
  ASSUME WatcherInv,
         \/ \E p \in Paths : ContainerStarts(p) \/ ContainerStops(p)
         \/ RelayApplies \/ RelayRestarts
         \/ MonitorConnects \/ MonitorEnds \/ MonitorFlags
  PROVE  WatcherInv'
  <1> USE WatcherAssumption, FaultCounts
      DEF WatcherInv, TypeOK, ChangesAreNoticed, SteadyIsDesired, relayVars, nsVars,
          podmanVars, scriptVars
  <1>1. ASSUME NEW p \in Paths, ContainerStarts(p) PROVE WatcherInv'
    <2>1. starts' \in 0..MaxStarts
      BY <1>1 DEF ContainerStarts
    <2>2. QED
      BY <1>1, <2>1 DEF ContainerStarts, Changes, MonitorUp
  <1>2. ASSUME NEW p \in Paths, ContainerStops(p) PROVE WatcherInv'
    BY <1>2 DEF ContainerStops, Changes, MonitorUp
  <1>3. CASE RelayApplies
    BY <1>3 DEF RelayApplies, Apply, Adds
  <1>4. CASE RelayRestarts
    BY <1>4 DEF RelayRestarts
  <1>5. CASE MonitorConnects
    BY <1>5 DEF MonitorConnects
  <1>6. CASE MonitorEnds
    BY <1>6 DEF MonitorEnds, MonitorUp
  <1>7. CASE MonitorFlags
    BY <1>7 DEF MonitorFlags
  <1>8. QED
    BY <1>1, <1>2, <1>3, <1>4, <1>5, <1>6, <1>7

\* Every step of the main loop and of reconcile_once keeps the invariant.
LEMMA ScriptKeepsWatcherInv == WatcherInv /\ Script => WatcherInv'
  <1> SUFFICES ASSUME WatcherInv, Script PROVE WatcherInv'
    OBVIOUS
  <1> USE WatcherAssumption, FaultCounts
      DEF WatcherInv, TypeOK, ChangesAreNoticed, SteadyIsDesired, relayVars, nsVars,
          podmanVars, scriptVars
  <1>1. CASE OnEvent
    BY <1>1 DEF OnEvent, Reconcile
  <1>2. CASE OnResync
    BY <1>2 DEF OnResync, Reconcile
  <1>3. CASE List
    BY <1>3 DEF List
  <1>4. ASSUME NEW p \in Paths, Inspect(p) PROVE WatcherInv'
    BY <1>4 DEF Inspect
  <1>5. CASE Get
    BY <1>5 DEF Get
  <1>6. ASSUME NEW p \in Paths, AddOne(p) PROVE WatcherInv'
    BY <1>6, PostEffect DEF AddOne
  <1>7. ASSUME NEW p \in Paths, RemoveOne(p) PROVE WatcherInv'
    BY <1>7, PostEffect DEF RemoveOne
  <1>8. CASE AddsDone
    BY <1>8 DEF AddsDone
  <1>9. CASE ReconcileDone
    BY <1>9 DEF ReconcileDone, FlagAfterReconcile
  <1>10. QED
    BY <1>1, <1>2, <1>3, <1>4, <1>5, <1>6, <1>7, <1>8, <1>9 DEF Script

\* The watcher's invariant: changes since the listing are accounted for, and what
\* was listed and runs on is desired when the commands are sent.
THEOREM WatcherInvariant == Spec => []WatcherInv
  <1>1. WatcherInv /\ [Next]_vars => WatcherInv'
    <2> SUFFICES ASSUME WatcherInv, [Next]_vars PROVE WatcherInv'
      OBVIOUS
    <2>1. CASE Next
      BY <2>1, EnvironmentKeepsWatcherInv, ScriptKeepsWatcherInv DEF Next
    <2>2. CASE UNCHANGED vars
      BY <2>2 DEF vars, relayVars, nsVars, podmanVars, scriptVars, WatcherInv, TypeOK,
         ChangesAreNoticed, SteadyIsDesired
    <2>3. QED
      BY <2>1, <2>2
  <1>2. QED
    BY WatcherInitInv, <1>1, PTL DEF Spec

\* While podman events runs, the main loop never sleeps over a container that
\* came or went after the last listing.
THEOREM ChangesReachTheLoop == Spec => []NoEventLost
  <1>1. WatcherInv => NoEventLost
    BY DEF WatcherInv, ChangesAreNoticed, NoEventLost
  <1>2. QED
    BY WatcherInvariant, <1>1, PTL

\* reconcile_once removes no container that has run since it listed them and
\* that Podman did not fail to inspect.
THEOREM RunningStays == Spec => RunningIsNotRemoved
  <1>1. ASSUME WatcherInv, [Next]_vars, NEW p \in steady, intent'[p] = "remove"
        PROVE  intent[p] = "remove"
    <2> USE DEF WatcherInv, TypeOK, SteadyIsDesired, relayVars, nsVars
    <2>1. ASSUME NEW q \in Paths, RemoveOne(q) PROVE intent[p] = "remove"
      <3>1. p # q
        BY <1>1, <2>1 DEF RemoveOne, Surplus
      <3>2. QED
        BY <1>1, <2>1, <3>1, PostEffect DEF RemoveOne
    <2>2. ASSUME NEW q \in Paths, AddOne(q) PROVE intent[p] = "remove"
      <3>1. CASE p # q
        BY <1>1, <2>2, <3>1, PostEffect DEF AddOne
      <3>2. CASE p = q
        BY <1>1, <2>2, <3>2 DEF AddOne, Post, Command, Accept
      <3>3. QED
        BY <3>1, <3>2
    <2>3. CASE RelayRestarts
      BY <1>1, <2>3 DEF RelayRestarts
    <2>4. CASE UNCHANGED intent
      BY <1>1, <2>4
    <2>5. ASSUME NEW q \in Paths, ContainerStarts(q) \/ ContainerStops(q)
          PROVE  UNCHANGED intent
      BY <2>5 DEF ContainerStarts, ContainerStops, Changes
    <2>6. ASSUME RelayApplies \/ MonitorConnects \/ MonitorEnds \/ MonitorFlags
          PROVE  UNCHANGED intent
      BY <2>6 DEF RelayApplies, Apply, MonitorConnects, MonitorEnds, MonitorFlags
    <2>7. ASSUME \/ OnEvent \/ OnResync \/ List \/ Get \/ AddsDone \/ ReconcileDone
                 \/ \E q \in Paths : Inspect(q)
          PROVE  UNCHANGED intent
      BY <2>7 DEF OnEvent, OnResync, Reconcile, List, Get, AddsDone, ReconcileDone,
         Inspect
    <2>8. CASE UNCHANGED vars
      BY <2>4, <2>8 DEF vars
    <2>9. QED
      BY <1>1, <2>1, <2>2, <2>3, <2>4, <2>5, <2>6, <2>7, <2>8 DEF Next, Script
  <1>2. WatcherInv /\ [Next]_vars =>
          [\A p \in steady : intent'[p] = "remove" => intent[p] = "remove"]_vars
    BY <1>1
  <1>3. QED
    BY WatcherInvariant, <1>2, PTL DEF Spec, RunningIsNotRemoved

----------------------------------------------------------------------------
(* The hook, the unit and the reconciler.                                  *)

\* What a request registers.
LEMMA CallRegisters ==
  /\ \A n \in Pids : PutCall(n) \in HookCall /\ RegisteredByHook(PutCall(n)) = n
  /\ DeleteCall \in HookCall /\ RegisteredByHook(DeleteCall) = None
  BY DEF PutCall, DeleteCall, HookCall, RegisteredByHook

\* One request, and two, as a sequence.
LEMMA CallSequences ==
  ASSUME NEW x \in HookCall, NEW y \in HookCall
  PROVE  /\ <<x>> \in Seq(HookCall) /\ <<x>> # <<>>
         /\ <<x, y>> \in Seq(HookCall) /\ <<x, y>> # <<>>
         /\ Head(<<x>>) = x /\ Tail(<<x>>) = <<>>
         /\ Head(<<x, y>>) = x /\ Tail(<<x, y>>) = <<y>>
         /\ Append(<<>>, x) = <<x>> /\ Append(<<x>>, y) = <<x, y>>
  <1> HIDE DEF HookCall
  <1>1. /\ <<x>> \in Seq(HookCall) /\ <<x>> # <<>>
        /\ <<x, y>> \in Seq(HookCall) /\ <<x, y>> # <<>>
    OBVIOUS
  <1>2. Head(<<x>>) = x /\ Tail(<<x>>) = <<>>
    OBVIOUS
  <1>3. Head(<<x, y>>) = x
    OBVIOUS
  <1>4. <<x, y>> = Append(<<x>>, y) /\ <<y>> = Append(<<>>, y)
    OBVIOUS
  <1>5. <<x>> = Append(<<>>, x)
    OBVIOUS
  <1>6. Tail(Append(<<x>>, y)) = Append(<<>>, y)
    <2>1. <<x>> \in Seq(HookCall) /\ <<x>> # <<>> /\ Tail(<<x>>) = <<>>
      BY <1>1, <1>2
    <2>2. QED
      BY <2>1, HeadTailAppend
  <1>7. QED
    BY <1>1, <1>2, <1>3, <1>4, <1>5, <1>6

\* A hook's call takes the first of its calls, and the last one registers the
\* container as it now is.
LEMMA LastCallRegisters ==
  ASSUME HookTypeOK, HooksFollowLife, NEW c \in Containers, hooks[c] # <<>>
  PROVE  /\ RegisteredByHook(Head(hooks[c])) \in Pids \cup {None}
         /\ Tail(hooks[c]) \in Seq(HookCall)
         /\ \/ Tail(hooks[c]) = <<>> /\ RegisteredByHook(Head(hooks[c])) = pid[c]
            \/ Tail(hooks[c]) = <<DeleteCall>> /\ pid[c] = None
  <1>1. CASE pid[c] # None
    <2>1. pid[c] \in Pids /\ hooks[c] = <<PutCall(pid[c])>>
      BY <1>1 DEF HookTypeOK, HooksFollowLife
    <2>2. PutCall(pid[c]) \in HookCall /\ RegisteredByHook(PutCall(pid[c])) = pid[c]
      BY <2>1, CallRegisters
    <2>3. QED
      BY <2>1, <2>2, CallSequences
  <1>2. CASE hooks[c] = <<DeleteCall>> /\ pid[c] = None
    BY <1>2, CallRegisters, CallSequences
  <1>3. ASSUME NEW n \in Pids, hooks[c] = <<PutCall(n), DeleteCall>>, pid[c] = None
        PROVE  /\ RegisteredByHook(Head(hooks[c])) = n
               /\ Tail(hooks[c]) = <<DeleteCall>>
               /\ Tail(hooks[c]) \in Seq(HookCall)
    BY <1>3, CallRegisters, CallSequences
  <1>4. QED
    BY <1>1, <1>2, <1>3 DEF HooksFollowLife

\* The unit is down, nothing is registered and no container runs.
LEMMA HookInitInv == HookInit => HookInv
  <1> SUFFICES ASSUME HookInit PROVE HookInv
    OBVIOUS
  <1>1. HookTypeOK
    <2>1. <<>> \in Seq(HookCall)
      OBVIOUS
    <2>2. QED
      BY <2>1 DEF HookInit, HookTypeOK
  <1>2. HooksFollowLife /\ ReconcilerFollowsService /\ RegisteredOrOwed
    BY DEF HookInit, HooksFollowLife, ReconcilerFollowsService, RegisteredOrOwed
  <1>3. QED
    BY <1>1, <1>2 DEF HookInv

\* Nothing but containers and their hooks changes pid and hooks.
LEMMA HooksFollowLifeStays ==
  HookInv /\ UNCHANGED <<pid, hooks>> => HooksFollowLife'
  BY DEF HookInv, HooksFollowLife

\* A container that starts has its PUT to make.
LEMMA StartKeepsHookInv ==
  ASSUME HookInv, NEW c \in Containers, NEW n \in Pids, PodmanStarts(c, n)
  PROVE  HookInv'
  <1> USE HookAssumption DEF HookInv
  <1>a. /\ n # None
        /\ pid' = [pid EXCEPT ![c] = n]
        /\ hooks' = [hooks EXCEPT ![c] = <<PutCall(n)>>]
        /\ <<PutCall(n)>> \in Seq(HookCall) /\ <<PutCall(n)>> # <<>>
        /\ UNCHANGED <<relay, reg, rec, toInspect, put, failed, lost, crossed>>
    BY CallRegisters, CallSequences DEF PodmanStarts, recVars
  <1>b. /\ pid'[c] = n /\ hooks'[c] = <<PutCall(n)>>
        /\ \A d \in Containers \ {c} : pid'[d] = pid[d] /\ hooks'[d] = hooks[d]
    BY <1>a DEF HookTypeOK
  <1>1. HookTypeOK'
    BY <1>a DEF HookTypeOK
  <1>2. HooksFollowLife'
    BY <1>a, <1>b DEF HooksFollowLife
  <1>3. ReconcilerFollowsService'
    BY <1>a DEF ReconcilerFollowsService
  <1>4. RegisteredOrOwed'
    BY <1>a, <1>b DEF RegisteredOrOwed, ReconcilerOwes
  <1>5. QED
    BY <1>1, <1>2, <1>3, <1>4

\* One that ends has its DELETE to make, after the PUT if that is still to come.
LEMMA StopKeepsHookInv ==
  ASSUME HookInv, NEW c \in Containers, PodmanStops(c)
  PROVE  HookInv'
  <1> USE HookAssumption DEF HookInv
  <1>a. /\ pid[c] # None
        /\ pid' = [pid EXCEPT ![c] = None]
        /\ hooks' = [hooks EXCEPT ![c] = Append(hooks[c], DeleteCall)]
        /\ UNCHANGED <<relay, reg, rec, toInspect, put, failed, lost, crossed>>
    BY DEF PodmanStops, recVars
  <1>b. /\ pid'[c] = None /\ hooks'[c] = Append(hooks[c], DeleteCall)
        /\ \A d \in Containers \ {c} : pid'[d] = pid[d] /\ hooks'[d] = hooks[d]
    BY <1>a DEF HookTypeOK
  <1>c. /\ hooks'[c] \in Seq(HookCall) /\ hooks'[c] # <<>>
        /\ \/ hooks'[c] = <<DeleteCall>>
           \/ \E n \in Pids : hooks'[c] = <<PutCall(n), DeleteCall>>
    <2>1. CASE hooks[c] = <<>>
      BY <1>b, <2>1, CallRegisters, CallSequences
    <2>2. CASE hooks[c] = <<PutCall(pid[c])>>
      <3>1. pid[c] \in Pids
        BY <1>a DEF HookTypeOK
      <3>2. PutCall(pid[c]) \in HookCall /\ DeleteCall \in HookCall
        BY <3>1, CallRegisters
      <3>3. hooks'[c] = <<PutCall(pid[c]), DeleteCall>>
        BY <1>b, <2>2, <3>2, CallSequences
      <3>4. QED
        BY <3>1, <3>2, <3>3, CallSequences
    <2>3. QED
      BY <1>a, <2>1, <2>2 DEF HooksFollowLife
  <1>1. HookTypeOK'
    BY <1>a, <1>b, <1>c DEF HookTypeOK
  <1>2. HooksFollowLife'
    BY <1>b, <1>c DEF HooksFollowLife
  <1>3. ReconcilerFollowsService'
    BY <1>a DEF ReconcilerFollowsService
  <1>4. RegisteredOrOwed'
    BY <1>a, <1>b, <1>c DEF RegisteredOrOwed, ReconcilerOwes
  <1>5. QED
    BY <1>1, <1>2, <1>3, <1>4

\* An accepted request registers the container as it is, unless its DELETE is
\* still to come; one that crosses the reconciler's PUT is marked.
LEMMA AcceptedKeepsHookInv ==
  ASSUME HookInv, NEW c \in Containers, HookAccepted(c)
  PROVE  HookInv'
  <1> DEFINE now == RegisteredByHook(Head(hooks[c]))
             rest == Tail(hooks[c])
  <1> USE HookAssumption DEF HookInv
  <1>a. /\ relay = "up" /\ hooks[c] # <<>>
        /\ hooks' = [hooks EXCEPT ![c] = rest]
        /\ reg' = [reg EXCEPT ![c] = now]
        /\ lost' = lost \ {c}
        /\ crossed' = IF put # None /\ put.ctr = c THEN crossed \cup {c} ELSE crossed \ {c}
        /\ UNCHANGED <<pid, relay, rec, toInspect, put, failed>>
    BY DEF HookAccepted, recVars
  <1>b. /\ now \in Pids \cup {None} /\ rest \in Seq(HookCall)
        /\ \/ rest = <<>> /\ now = pid[c]
           \/ rest = <<DeleteCall>> /\ rest # <<>> /\ pid[c] = None
    BY <1>a, LastCallRegisters, CallRegisters, CallSequences
  <1> HIDE DEF now, rest
  <1>c. /\ hooks'[c] = rest /\ reg'[c] = now
        /\ \A d \in Containers \ {c} : hooks'[d] = hooks[d] /\ reg'[d] = reg[d]
    BY <1>a DEF HookTypeOK
  <1>1. HookTypeOK'
    BY <1>a, <1>b DEF HookTypeOK
  <1>2. HooksFollowLife'
    <2>1. ASSUME NEW d \in Containers \ {c} PROVE pid'[d] = pid[d] /\ hooks'[d] = hooks[d]
      BY <1>a, <1>c
    <2>2. pid'[c] = pid[c]
      BY <1>a
    <2>3. CASE rest = <<>>
      BY <1>c, <2>1, <2>2, <2>3 DEF HooksFollowLife
    <2>4. CASE rest = <<DeleteCall>> /\ pid[c] = None
      BY <1>c, <2>1, <2>2, <2>4 DEF HooksFollowLife
    <2>5. QED
      BY <1>b, <2>3, <2>4
  <1>3. ReconcilerFollowsService'
    BY <1>a DEF ReconcilerFollowsService
  <1>4. RegisteredOrOwed'
    <2> SUFFICES ASSUME NEW d \in Containers \ (lost' \cup crossed'), hooks'[d] = <<>>
                 PROVE  /\ reg'[d] = pid'[d] \/ (pid'[d] # None /\ ReconcilerOwes(d)')
                        /\ put' # None /\ put'.ctr = d => put'.pid = pid'[d]
      BY DEF RegisteredOrOwed
    <2>1. CASE d = c
      <3>1. reg'[c] = pid[c]
        BY <1>b, <1>c, <2>1
      <3>2. ~(put # None /\ put.ctr = c)
        BY <1>a, <2>1
      <3>3. QED
        BY <1>a, <2>1, <3>1, <3>2
    <2>2. CASE d # c
      BY <1>a, <1>c, <2>2 DEF RegisteredOrOwed, ReconcilerOwes
    <2>3. QED
      BY <2>1, <2>2
  <1>5. QED
    BY <1>1, <1>2, <1>3, <1>4

\* A request that fails on a serving relay is marked; on one that does not serve
\* it makes no difference, as the registry is empty and the list still to come.
LEMMA FailedKeepsHookInv ==
  ASSUME HookInv, NEW c \in Containers, HookFails(c)
  PROVE  HookInv'
  <1> DEFINE rest == Tail(hooks[c])
  <1> USE HookAssumption DEF HookInv
  <1>a. /\ hooks[c] # <<>>
        /\ hooks' = [hooks EXCEPT ![c] = rest]
        /\ relay # "up" => lost' = lost
        /\ relay = "up" => lost' = lost \cup {c}
        /\ UNCHANGED <<pid, relay, reg, rec, toInspect, put, failed, crossed>>
    BY DEF HookFails, recVars
  <1>b. /\ rest \in Seq(HookCall)
        /\ rest = <<>> \/ (rest = <<DeleteCall>> /\ pid[c] = None)
    BY <1>a, LastCallRegisters
  <1> HIDE DEF rest
  <1>c. /\ hooks'[c] = rest
        /\ \A d \in Containers \ {c} : hooks'[d] = hooks[d]
    BY <1>a DEF HookTypeOK
  <1>1. HookTypeOK'
    BY <1>a, <1>b DEF HookTypeOK
  <1>2. HooksFollowLife'
    <2>1. ASSUME NEW d \in Containers \ {c} PROVE pid'[d] = pid[d] /\ hooks'[d] = hooks[d]
      BY <1>a, <1>c
    <2>2. pid'[c] = pid[c]
      BY <1>a
    <2>3. CASE rest = <<>>
      BY <1>c, <2>1, <2>2, <2>3 DEF HooksFollowLife
    <2>4. CASE rest = <<DeleteCall>> /\ pid[c] = None
      BY <1>c, <2>1, <2>2, <2>4 DEF HooksFollowLife
    <2>5. QED
      BY <1>b, <2>3, <2>4
  <1>3. ReconcilerFollowsService'
    BY <1>a DEF ReconcilerFollowsService
  <1>4. RegisteredOrOwed'
    BY <1>a, <1>c DEF RegisteredOrOwed, ReconcilerOwes
  <1>5. QED
    BY <1>1, <1>2, <1>3, <1>4

\* Stopping the unit clears the registry, the reconciler and what went wrong.
LEMMA StopsKeepsHookInv == HookInv /\ Stops => HookInv'
  <1> SUFFICES ASSUME HookInv, Stops PROVE HookInv'
    OBVIOUS
  <1> USE DEF HookInv, Stops
  <1>1. HookTypeOK'
    BY DEF HookTypeOK
  <1>2. HooksFollowLife'
    BY HooksFollowLifeStays
  <1>3. ReconcilerFollowsService' /\ RegisteredOrOwed'
    BY DEF ReconcilerFollowsService, RegisteredOrOwed
  <1>4. QED
    BY <1>1, <1>2, <1>3

\* From here on the reconciler owes every container its registration.
LEMMA ServiceKeepsHookInv == HookInv /\ (UnitStarts \/ RelayServes) => HookInv'
  <1> SUFFICES ASSUME HookInv, UnitStarts \/ RelayServes PROVE HookInv'
    OBVIOUS
  <1> USE HookAssumption, HooksFollowLifeStays
      DEF HookInv, HookTypeOK, ReconcilerFollowsService, RegisteredOrOwed,
          ReconcilerOwes, recVars
  <1>1. CASE UnitStarts
    BY <1>1 DEF UnitStarts
  <1>2. CASE RelayServes
    BY <1>2 DEF RelayServes
  <1>3. QED
    BY <1>1, <1>2

\* Listing, inspecting, registering and ending: the reconciler lets go of a
\* container only once it is registered, has gone, or is marked.
LEMMA ReconcilerKeepsHookInv ==
  ASSUME HookInv,
         \/ ReconcilerLists \/ ReconcilerPuts \/ ReconcilerEnds
         \/ \E c \in Containers : ReconcilerInspects(c)
  PROVE  HookInv'
  <1> USE HookAssumption, HooksFollowLifeStays
      DEF HookInv, HookTypeOK, ReconcilerFollowsService, RegisteredOrOwed,
          ReconcilerOwes, recVars
  <1>1. CASE ReconcilerLists
    BY <1>1 DEF ReconcilerLists, ApisReady
  <1>2. ASSUME NEW c \in Containers, ReconcilerInspects(c) PROVE HookInv'
    <2>1. /\ put' # None => put'.ctr = c /\ put'.pid = pid[c]
          /\ put' \in [ctr : Containers, pid : Pids] \cup {None}
          /\ put' = None => pid[c] = None \/ c \in lost'
          /\ lost \subseteq lost' /\ lost' \subseteq Containers
      <3>1. CASE put' = FoundRunning(c) /\ lost' = lost /\ pid[c] # None
        <4>1. put' = [ctr |-> c, pid |-> pid[c]]
          BY <3>1 DEF FoundRunning
        <4>2. put' \in [ctr : Containers, pid : Pids]
          BY <3>1, <4>1
        <4>3. put' # None
          BY <4>2
        <4>4. QED
          BY <3>1, <4>1, <4>2, <4>3
      <3>2. CASE put' = FoundRunning(c) /\ lost' = lost /\ pid[c] = None
        BY <3>2 DEF FoundRunning
      <3>3. CASE put' = None /\ lost' = lost \cup {c}
        BY <3>3
      <3>4. QED
        BY <1>2, <3>1, <3>2, <3>3 DEF ReconcilerInspects
    <2>2. /\ rec = "each" /\ put = None /\ c \in toInspect /\ toInspect' = toInspect \ {c}
          /\ UNCHANGED <<pid, hooks, relay, reg, rec, failed, crossed>>
      BY <1>2 DEF ReconcilerInspects
    <2>3. HookTypeOK' /\ ReconcilerFollowsService'
      BY <2>1, <2>2
    <2>4. RegisteredOrOwed'
      BY <2>1, <2>2
    <2>5. QED
      BY <2>2, <2>3, <2>4
  <1>3. CASE ReconcilerPuts
    <2>1. /\ put \in [ctr : Containers, pid : Pids] /\ put' = None /\ rec = "each"
          /\ \/ reg' = [reg EXCEPT ![put.ctr] = put.pid] /\ failed' = failed
             \/ failed' = TRUE /\ reg' = reg
          /\ UNCHANGED <<pid, hooks, relay, rec, toInspect, lost, crossed>>
      BY <1>3 DEF ReconcilerPuts
    <2>2. HookTypeOK' /\ ReconcilerFollowsService'
      BY <2>1
    <2>3. RegisteredOrOwed'
      <3>1. CASE failed' = TRUE /\ reg' = reg
        BY <2>1, <3>1
      <3>2. CASE reg' = [reg EXCEPT ![put.ctr] = put.pid] /\ failed' = failed
        <4>1. put.ctr \in Containers /\ reg'[put.ctr] = put.pid
          BY <2>1, <3>2
        <4>2. \A d \in Containers \ {put.ctr} : reg'[d] = reg[d]
          BY <3>2
        <4>3. ASSUME NEW d \in Containers \ (lost \cup crossed), hooks[d] = <<>>, relay = "up"
              PROVE  reg'[d] = pid[d] \/ (pid[d] # None /\ ReconcilerOwes(d)')
          <5>1. CASE d = put.ctr
            BY <2>1, <4>1, <4>3, <5>1
          <5>2. CASE d # put.ctr
            BY <2>1, <3>2, <4>2, <4>3, <5>2
          <5>3. QED
            BY <5>1, <5>2
        <4>4. QED
          BY <2>1, <4>3
      <3>3. QED
        BY <2>1, <3>1, <3>2
    <2>4. QED
      BY <2>1, <2>2, <2>3
  <1>4. CASE ReconcilerEnds
    BY <1>4, StopsKeepsHookInv DEF ReconcilerEnds, counters
  <1>5. QED
    BY <1>1, <1>2, <1>3, <1>4

\* The invariant of hooks and reconciler: a container whose hooks are through is
\* registered as it is, or the reconciler still owes it.
THEOREM HookInvariant == HookSpec => []HookInv
  <1>1. HookInv /\ [HookNext]_hookVars => HookInv'
    <2> SUFFICES ASSUME HookInv, [HookNext]_hookVars PROVE HookInv'
      OBVIOUS
    <2>1. CASE UNCHANGED hookVars
      BY <2>1 DEF hookVars, recVars, HookInv, HookTypeOK, HooksFollowLife,
         ReconcilerFollowsService, RegisteredOrOwed, ReconcilerOwes
    <2>2. CASE RelayCrashes \/ ReconcilerGivesUp
      BY <2>2, StopsKeepsHookInv DEF RelayCrashes, ReconcilerGivesUp
    <2>3. QED
      BY <2>1, <2>2, StartKeepsHookInv, StopKeepsHookInv, AcceptedKeepsHookInv,
         FailedKeepsHookInv, ServiceKeepsHookInv, ReconcilerKeepsHookInv DEF HookNext
  <1>2. QED
    BY HookInitInv, <1>1, PTL DEF HookSpec

\* After every crash and restart the registry comes back to the containers that
\* run, but for those whose own last request failed or crossed the reconciler's.
THEOREM RegistryRecovers == HookSpec => []RegistryFollowsContainers
  <1>1. HookInv => RegistryFollowsContainers
    BY DEF HookInv, RegisteredOrOwed, ReconcilerOwes, RegistryFollowsContainers, Settled
  <1>2. QED
    BY HookInvariant, <1>1, PTL
============================================================================
