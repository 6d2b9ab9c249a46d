--------------------------- MODULE ProcessProofs ---------------------------
(***************************************************************************)
(* Proofs about Process, for any number of processes, starts and initial   *)
(* namespaces and any command lines.  Most of them is about which process  *)
(* may change what is at the socket path: ProcessInv says that there is at *)
(* most one, and that it finds there what it takes to be there.            *)
(***************************************************************************)
EXTENDS Process, TLAPS

\* Changing a field to a value of its type keeps a process a process.
LEMMA Updates ==
  ASSUME NEW s \in ProcState
  PROVE  /\ \A x \in StartUp \cup {"down", "wait", "failed"} : [s EXCEPT !.pc = x] \in ProcState
         /\ \A x \in {"none", "running", "done"} : [s EXCEPT !.relay = x] \in ProcState
         /\ \A x \in {"none", "serving", "closed", "broken", "done"} :
              [s EXCEPT !.server = x] \in ProcState
         /\ \A x \in {"none", "signal", "config", "system", "in use", "leftover", "server"} :
              [s EXCEPT !.cause = x] \in ProcState
         /\ \A x \in 0..NInitial : [s EXCEPT !.left = x] \in ProcState
         /\ \A x \in {"none", "ok", "error", "killed"} : [s EXCEPT !.exit = x] \in ProcState
  BY DEF ProcState

\* NewUnixServer's error return keeps the types.
LEMMA FailTypes ==
  ASSUME NEW p \in Procs, proc \in [Procs -> ProcState],
         NEW why \in {"config", "system", "in use", "leftover"}, Fail(p, why)
  PROVE  proc' \in [Procs -> ProcState]
  <1>1. Cause(p, why) \in {"none", "signal", "config", "system", "in use", "leftover", "server"}
    BY DEF Cause, ProcState
  <1>2. [[proc[p] EXCEPT !.pc = "failed"] EXCEPT !.cause = Cause(p, why)] \in ProcState
    BY <1>1, Updates
  <1>3. proc' = [proc EXCEPT ![p] = [[proc[p] EXCEPT !.pc = "failed"] EXCEPT !.cause = Cause(p, why)]]
    BY DEF Fail
  <1>4. QED
    BY <1>2, <1>3

\* The fields that a step of process p leaves alone.
LEMMA FailEffect ==
  ASSUME NEW p \in Procs, proc \in [Procs -> ProcState], NEW why, Fail(p, why)
  PROVE  /\ \A q \in Procs \ {p} : proc'[q] = proc[q]
         /\ proc'[p].pc = "failed" /\ proc'[p].cause = Cause(p, why)
         /\ proc'[p].flags = proc[p].flags /\ proc'[p].relay = proc[p].relay
         /\ proc'[p].server = proc[p].server /\ proc'[p].exit = proc[p].exit
  <1> DEFINE c == Cause(p, why)
  <1>1. proc' = [proc EXCEPT ![p] = [[proc[p] EXCEPT !.pc = "failed"] EXCEPT !.cause = c]]
    BY DEF Fail
  <1> HIDE DEF c
  <1>2. \A q \in Procs \ {p} : proc'[q] = proc[q]
    BY <1>1
  <1>3. proc'[p] = [[proc[p] EXCEPT !.pc = "failed"] EXCEPT !.cause = c]
    BY <1>1
  <1>4. /\ proc'[p].pc = "failed" /\ proc'[p].cause = c
        /\ proc'[p].flags = proc[p].flags /\ proc'[p].relay = proc[p].relay
        /\ proc'[p].server = proc[p].server /\ proc'[p].exit = proc[p].exit
    BY <1>3 DEF ProcState
  <1>5. QED
    BY <1>2, <1>4 DEF c

\* The same of a step that moves main on.
LEMMA GotoEffect ==
  ASSUME NEW p \in Procs, proc \in [Procs -> ProcState], NEW pc, Goto(p, pc)
  PROVE  /\ \A q \in Procs \ {p} : proc'[q] = proc[q]
         /\ proc'[p].pc = pc /\ proc'[p].cause = proc[p].cause
         /\ proc'[p].flags = proc[p].flags /\ proc'[p].relay = proc[p].relay
         /\ proc'[p].server = proc[p].server /\ proc'[p].exit = proc[p].exit
  BY DEF Goto, ProcState

\* run's return ends the process and sets its exit status only.
LEMMA ExitEffect ==
  ASSUME NEW p \in Procs, proc \in [Procs -> ProcState], Exit(p)
  PROVE  /\ \A q \in Procs \ {p} : proc'[q] = proc[q]
         /\ proc'[p].pc = "down" /\ proc'[p].cause = proc[p].cause
         /\ proc'[p].flags = proc[p].flags /\ proc'[p].relay = proc[p].relay
         /\ proc'[p].server = proc[p].server
         /\ UNCHANGED <<file, listening>>
  <1> DEFINE e == IF At(p, "wait") /\ proc[p].cause = "signal" THEN "ok" ELSE "error"
  <1>1. /\ proc' = [proc EXCEPT ![p] = [[proc[p] EXCEPT !.pc = "down"] EXCEPT !.exit = e]]
        /\ UNCHANGED <<file, listening>>
    BY DEF Exit
  <1> HIDE DEF e
  <1>2. proc'[p] = [[proc[p] EXCEPT !.pc = "down"] EXCEPT !.exit = e]
    BY <1>1
  <1>3. \A q \in Procs \ {p} : proc'[q] = proc[q]
    BY <1>1
  <1>4. /\ proc'[p].pc = "down" /\ proc'[p].cause = proc[p].cause
        /\ proc'[p].flags = proc[p].flags /\ proc'[p].relay = proc[p].relay
        /\ proc'[p].server = proc[p].server
    BY <1>2 DEF ProcState
  <1>5. QED
    BY <1>1, <1>3, <1>4

\* The types survive every step.
LEMMA ProcessTypeStep == TypeOK /\ [Next]_vars => TypeOK'
  <1> SUFFICES ASSUME TypeOK, [Next]_vars PROVE TypeOK'
    OBVIOUS
  <1> USE ProcessAssumption DEF TypeOK
  <1>1. ASSUME NEW p \in Procs, NEW pc \in StartUp \cup {"down", "wait", "failed"},
               Goto(p, pc)
        PROVE  proc' \in [Procs -> ProcState]
    <2>1. [proc[p] EXCEPT !.pc = pc] \in ProcState
      BY Updates
    <2>2. QED
      BY <1>1, <2>1 DEF Goto
  <1>0. Down \in ProcState /\ [Down EXCEPT !.exit = "error"] \in ProcState
        /\ [Down EXCEPT !.exit = "killed"] \in ProcState
    <2>1. 0 \in 0..NInitial
      OBVIOUS
    <2>2. Down \in ProcState
      BY <2>1 DEF Down, ProcState
    <2>3. QED
      BY <2>2, Updates
  <1>2. ASSUME NEW p \in Procs, NEW f \in Flags, Start(p, f) PROVE TypeOK'
    <2>1. [Down EXCEPT !.pc = "check", !.flags = f, !.relay = "running", !.left = NInitial]
            \in ProcState
      <3>1. f \in FlagType \cup {None} /\ NInitial \in 0..NInitial
        OBVIOUS
      <3>2. QED
        BY <3>1 DEF Down, ProcState, StartUp
    <2>2. starts' \in 0..MaxStarts
      BY <1>2 DEF Start
    <2>3. proc' \in [Procs -> ProcState]
      BY <1>2, <1>0, <2>1 DEF Start
    <2>4. QED
      BY <1>2, <2>2, <2>3 DEF Start
  <1>3. ASSUME NEW p \in Procs, Main(p) PROVE TypeOK'
    <2>1. CASE Check(p)
      BY <1>1, <2>1, FailTypes DEF Check, StartUp
    <2>2. CASE Stat(p)
      BY <1>1, <2>2, FailTypes DEF Stat, StartUp
    <2>3. CASE Dial(p)
      BY <1>1, <2>3, FailTypes DEF Dial, StartUp
    <2>4. CASE RemoveStale(p)
      BY <1>1, <2>4, FailTypes DEF RemoveStale, AfterRemove, StartUp
    <2>5. CASE Bind(p)
      BY <1>1, <2>5, FailTypes DEF Bind, StartUp
    <2>6. CASE Permissions(p)
      <3>1. [[proc[p] EXCEPT !.pc = "add"] EXCEPT !.server = "serving"] \in ProcState
        BY Updates DEF StartUp
      <3>2. proc' \in [Procs -> ProcState]
        BY <2>6, <3>1, FailTypes DEF Permissions
      <3>3. QED
        BY <2>6, <3>2 DEF Permissions
    <2>7. CASE AddInitial(p)
      <3>1. proc[p].left \in 0..NInitial
        BY DEF ProcState
      <3>2. [proc[p] EXCEPT !.left = proc[p].left - 1] \in ProcState
        <4>1. proc[p].left - 1 \in 0..NInitial
          BY <2>7, <3>1 DEF AddInitial, MoreInitial
        <4>2. QED
          BY <4>1, Updates
      <3>3. QED
        BY <2>7, <3>2 DEF AddInitial
    <2>8. CASE AddsDone(p)
      BY <1>1, <2>8 DEF AddsDone
    <2>9. CASE Exit(p)
      <3>1. \A x \in {"ok", "error"} :
              [[proc[p] EXCEPT !.pc = "down"] EXCEPT !.exit = x] \in ProcState
        BY Updates
      <3>2. QED
        BY <2>9, <3>1 DEF Exit
    <2>10. QED
      BY <1>3, <2>1, <2>2, <2>3, <2>4, <2>5, <2>6, <2>7, <2>8, <2>9 DEF Main
  <1>4. ASSUME NEW p \in Procs, SystemCallFails(p) PROVE TypeOK'
    BY <1>4, FailTypes DEF SystemCallFails
  <1>5. ASSUME NEW p \in Procs, Signal(p) PROVE TypeOK'
    <2>1. [proc[p] EXCEPT !.cause = "signal"] \in ProcState
      BY Updates
    <2>2. QED
      BY <1>5, <2>1 DEF Signal
  <1>6. ASSUME NEW p \in Procs, RelayReturns(p) PROVE TypeOK'
    <2>1. [proc[p] EXCEPT !.relay = "done"] \in ProcState
      BY Updates
    <2>2. QED
      BY <1>6, <2>1 DEF RelayReturns
  <1>7. ASSUME NEW p \in Procs, NEW how \in {"closed", "broken"}, ListenerCloses(p, how)
        PROVE  TypeOK'
    <2>1. [proc[p] EXCEPT !.server = how] \in ProcState
      BY Updates
    <2>2. QED
      BY <1>7, <2>1 DEF ListenerCloses
  <1>8. ASSUME NEW p \in Procs, ServerReturns(p) PROVE TypeOK'
    <2>1. proc[p].cause \in {"none", "signal", "config", "system", "in use", "leftover", "server"}
      BY DEF ProcState
    <2> DEFINE c == IF proc[p].server = "broken" THEN Cause(p, "server") ELSE proc[p].cause
    <2>2. c \in {"none", "signal", "config", "system", "in use", "leftover", "server"}
      BY <2>1 DEF Cause
    <2>3. [[proc[p] EXCEPT !.server = "done"] EXCEPT !.cause = c] \in ProcState
      BY <2>2, Updates
    <2>4. proc' = [proc EXCEPT ![p] = [[proc[p] EXCEPT !.server = "done"] EXCEPT !.cause = c]]
      BY <1>8 DEF ServerReturns, ProcState
    <2>5. proc' \in [Procs -> ProcState]
      BY <2>3, <2>4
    <2>6. QED
      BY <1>8, <2>5 DEF ServerReturns
  <1>9. ASSUME NEW p \in Procs, Kill(p) PROVE TypeOK'
    BY <1>9, <1>0 DEF Kill
  <1>10. CASE UNCHANGED vars
    BY <1>10 DEF vars
  <1>11. QED
    BY <1>2, <1>3, <1>4, <1>5, <1>6, <1>7, <1>8, <1>9, <1>10
       DEF Next, Shutdown, ServeFails

----------------------------------------------------------------------------
(* The socket path.                                                        *)

\* The conjuncts of ProcessInv about who may change what is at the path.
PathInv == StartsAlone /\ ServerFollowsMain /\ OneClaims /\ PathIsAsExpected

\* A start finds every other process down or up for good, and makes no claim.
LEMMA StartPath ==
  ASSUME TypeOK, PathInv, NEW p \in Procs, NEW f \in Flags, Start(p, f)
  PROVE  PathInv'
  <1>1. /\ \A q \in Procs \ {p} : proc'[q] = proc[q]
        /\ proc'[p].pc \in {"check", "down"} /\ proc'[p].server = "none"
        /\ proc'[p].pc = "check" => proc'[p].exit = "none"
        /\ proc'[p].pc = "down" => proc'[p].relay = "none"
        /\ UNCHANGED <<file, listening>>
    BY DEF Start, Down, TypeOK
  <1>2. At(p, "down") /\ \A q \in Procs \ {p} : At(q, "down") \/ Settled(q)
    BY DEF Start, MayStart
  <1>3. StartsAlone'
    BY <1>1, <1>2 DEF PathInv, StartsAlone, ServerFollowsMain, At, Settled, Cancelled, StartUp
  <1>4. ServerFollowsMain'
    BY <1>1, <1>2 DEF PathInv, ServerFollowsMain, At, StartUp
  <1>5. OneClaims' /\ PathIsAsExpected'
    BY <1>1, <1>2 DEF PathInv, ServerFollowsMain, OneClaims, PathIsAsExpected, Claims, At
  <1>6. QED
    BY <1>3, <1>4, <1>5 DEF PathInv

\* main goes on, or fails, without touching the path.
LEMMA GotoPath ==
  ASSUME TypeOK, PathInv, NEW p \in Procs, NEW pc, Goto(p, pc), UNCHANGED <<file, listening>>,
         \/ At(p, "check") /\ pc \in {"add", "stat"}
         \/ At(p, "stat") /\ pc = "bind" /\ file = None
         \/ At(p, "stat") /\ pc = "dial" /\ file \in Procs
         \/ At(p, "dial") /\ pc = "remove" /\ ~isActive
         \/ At(p, "add") /\ pc = "wait"
  PROVE  PathInv'
  <1>1. /\ \A q \in Procs \ {p} : proc'[q] = proc[q]
        /\ proc'[p].pc = pc /\ proc'[p].cause = proc[p].cause
        /\ proc'[p].relay = proc[p].relay
        /\ proc'[p].server = proc[p].server /\ proc'[p].exit = proc[p].exit
    BY GotoEffect DEF TypeOK
  <1>2. proc[p].pc \in StartUp
    BY DEF At, StartUp
  <1>3. \A q \in Procs \ {p} : At(q, "down") \/ Settled(q)
    BY <1>2 DEF PathInv, StartsAlone
  <1>4. StartsAlone'
    BY <1>1, <1>3 DEF StartsAlone, At, Settled, Cancelled, StartUp
  <1>5. ServerFollowsMain'
    BY <1>1, <1>2 DEF PathInv, ServerFollowsMain, At, StartUp
  <1>6. PathIsAsExpected'
    BY <1>1 DEF PathInv, PathIsAsExpected, At
  <1>7. \A q \in Procs \ {p} : Claims(q) => file = q /\ file \in listening
    BY <1>3, ProcessAssumption DEF PathInv, ServerFollowsMain, PathIsAsExpected, Claims, At, Settled
  <1>8. pc \in {"bind", "remove"} => \A q \in Procs \ {p} : ~Claims(q)
    BY <1>7, ProcessAssumption DEF isActive, At
  <1>9. OneClaims'
    BY <1>1, <1>8 DEF PathInv, OneClaims, Claims, At
  <1>10. QED
    BY <1>4, <1>5, <1>6, <1>9 DEF PathInv

\* A start that fails before it has a listener leaves the path alone.
LEMMA FailPath ==
  ASSUME TypeOK, PathInv, NEW p \in Procs, NEW why, Fail(p, why), UNCHANGED <<file, listening>>,
         proc[p].pc \in {"check", "stat", "dial", "remove", "bind"}
  PROVE  PathInv'
  <1>1. /\ \A q \in Procs \ {p} : proc'[q] = proc[q]
        /\ proc'[p].pc = "failed"
        /\ proc'[p].relay = proc[p].relay
        /\ proc'[p].server = proc[p].server /\ proc'[p].exit = proc[p].exit
    BY FailEffect DEF TypeOK
  <1>2. \A q \in Procs \ {p} : At(q, "down") \/ Settled(q)
    BY DEF PathInv, StartsAlone, StartUp
  <1>3. StartsAlone'
    BY <1>1, <1>2 DEF StartsAlone, At, Settled, Cancelled, StartUp
  <1>4. ServerFollowsMain'
    BY <1>1 DEF PathInv, ServerFollowsMain, At, StartUp
  <1>5. PathIsAsExpected' /\ OneClaims'
    BY <1>1 DEF PathInv, PathIsAsExpected, OneClaims, Claims, At
  <1>6. QED
    BY <1>3, <1>4, <1>5 DEF PathInv

\* The stale socket that main found is still there when it removes it, and
\* nobody else relies on it.
LEMMA RemoveStalePath ==
  ASSUME TypeOK, PathInv, NEW p \in Procs, RemoveStale(p)
  PROVE  PathInv' /\ Goto(p, "bind")
  <1>1. file \in Procs /\ proc[p].server = "none" /\ At(p, "remove")
    BY DEF RemoveStale, PathInv, PathIsAsExpected, ServerFollowsMain, At, StartUp
  <1>2. Goto(p, "bind") /\ file' = None /\ listening' = listening
    BY <1>1, ProcessAssumption DEF RemoveStale, AfterRemove
  <1>3. /\ \A q \in Procs \ {p} : proc'[q] = proc[q]
        /\ proc'[p].pc = "bind" /\ proc'[p].relay = proc[p].relay
        /\ proc'[p].server = "none" /\ proc'[p].exit = proc[p].exit
    BY <1>1, <1>2, GotoEffect DEF TypeOK
  <1>4. \A q \in Procs \ {p} : ~Claims(q) /\ (At(q, "down") \/ Settled(q))
    BY <1>1 DEF PathInv, StartsAlone, OneClaims, Claims, At, StartUp
  <1>5. StartsAlone'
    BY <1>3, <1>4 DEF StartsAlone, At, Settled, Cancelled, StartUp
  <1>6. ServerFollowsMain'
    BY <1>1, <1>2, <1>3 DEF PathInv, ServerFollowsMain, At, StartUp
  <1>7. OneClaims'
    BY <1>1, <1>3, <1>4 DEF OneClaims, Claims, At
  <1>8. PathIsAsExpected'
    BY <1>1, <1>2, <1>3, <1>4, ProcessAssumption
       DEF PathInv, ServerFollowsMain, PathIsAsExpected, Claims, At, Settled
  <1>9. QED
    BY <1>2, <1>5, <1>6, <1>7, <1>8 DEF PathInv

\* The path is free when main binds it.
LEMMA BindPath ==
  ASSUME TypeOK, PathInv, NEW p \in Procs, Bind(p)
  PROVE  PathInv' /\ Goto(p, "perm")
  <1>1. file = None /\ proc[p].server = "none" /\ At(p, "bind")
    BY DEF Bind, PathInv, PathIsAsExpected, ServerFollowsMain, At, StartUp
  <1>2. Goto(p, "perm") /\ file' = p /\ listening' = listening \cup {p}
    BY <1>1 DEF Bind
  <1>3. /\ \A q \in Procs \ {p} : proc'[q] = proc[q]
        /\ proc'[p].pc = "perm" /\ proc'[p].relay = proc[p].relay
        /\ proc'[p].server = "none" /\ proc'[p].exit = proc[p].exit
    BY <1>1, <1>2, GotoEffect DEF TypeOK
  <1>4. \A q \in Procs \ {p} : ~Claims(q) /\ (At(q, "down") \/ Settled(q))
    BY <1>1 DEF PathInv, StartsAlone, OneClaims, Claims, At, StartUp
  <1>5. StartsAlone'
    BY <1>3, <1>4 DEF StartsAlone, At, Settled, Cancelled, StartUp
  <1>6. ServerFollowsMain'
    BY <1>1, <1>2, <1>3 DEF PathInv, ServerFollowsMain, At, StartUp
  <1>7. OneClaims'
    BY <1>1, <1>3, <1>4 DEF OneClaims, Claims, At
  <1>8. PathIsAsExpected'
    BY <1>1, <1>2, <1>3, <1>4, ProcessAssumption
       DEF PathInv, ServerFollowsMain, PathIsAsExpected, Claims, At, Settled
  <1>9. QED
    BY <1>2, <1>5, <1>6, <1>7, <1>8 DEF PathInv

\* The new listener serves, or it is closed and its path unlinked.
LEMMA PermissionsPath ==
  ASSUME TypeOK, PathInv, NEW p \in Procs, Permissions(p)
  PROVE  PathInv'
  <1>1. At(p, "perm") /\ proc[p].server = "none" /\ file = p /\ p \in listening
    BY DEF Permissions, PathInv, PathIsAsExpected, ServerFollowsMain, At, StartUp
  <1>2. \A q \in Procs \ {p} : ~Claims(q) /\ (At(q, "down") \/ Settled(q))
    BY <1>1 DEF PathInv, StartsAlone, OneClaims, Claims, At, StartUp
  <1>3. CASE /\ proc' = [proc EXCEPT ![p].pc = "add", ![p].server = "serving"]
             /\ UNCHANGED <<file, listening>>
    <2>1. /\ \A q \in Procs \ {p} : proc'[q] = proc[q]
          /\ proc'[p].pc = "add" /\ proc'[p].relay = proc[p].relay
          /\ proc'[p].server = "serving" /\ proc'[p].exit = proc[p].exit
          /\ UNCHANGED <<file, listening>>
      BY <1>3 DEF TypeOK, ProcState
    <2>2. StartsAlone'
      BY <1>2, <2>1 DEF StartsAlone, At, Settled, Cancelled, StartUp
    <2>3. ServerFollowsMain'
      BY <1>1, <2>1 DEF PathInv, ServerFollowsMain, At, StartUp
    <2>4. OneClaims' /\ PathIsAsExpected'
      BY <1>1, <1>2, <2>1 DEF PathInv, PathIsAsExpected, OneClaims, Claims, At
    <2>5. QED
      BY <2>2, <2>3, <2>4 DEF PathInv
  <1>4. CASE Fail(p, "system") /\ file' = None /\ listening' = listening \ {p}
    <2>1. /\ \A q \in Procs \ {p} : proc'[q] = proc[q]
          /\ proc'[p].pc = "failed" /\ proc'[p].relay = proc[p].relay
          /\ proc'[p].server = "none" /\ proc'[p].exit = proc[p].exit
      BY <1>1, <1>4, FailEffect DEF TypeOK
    <2>2. StartsAlone'
      BY <1>2, <2>1 DEF StartsAlone, At, Settled, Cancelled, StartUp
    <2>3. ServerFollowsMain'
      BY <1>1, <1>4, <2>1 DEF PathInv, ServerFollowsMain, At, StartUp
    <2>4. OneClaims'
      BY <1>2, <2>1 DEF OneClaims, Claims, At
    <2>5. PathIsAsExpected'
      BY <1>1, <1>2, <1>4, <2>1, ProcessAssumption
         DEF PathInv, ServerFollowsMain, PathIsAsExpected, Claims, At, Settled
    <2>6. QED
      BY <2>2, <2>3, <2>4, <2>5 DEF PathInv
  <1>5. QED
    BY <1>3, <1>4 DEF Permissions

\* Handing over a namespace, a signal and the end of the relay change neither
\* main's place nor the server.
LEMMA AsidePath ==
  ASSUME TypeOK, PathInv, NEW p \in Procs, AddInitial(p) \/ Signal(p) \/ RelayReturns(p)
  PROVE  PathInv'
  <1>1. /\ \A q \in Procs \ {p} : proc'[q] = proc[q]
        /\ proc'[p].pc = proc[p].pc /\ proc'[p].server = proc[p].server
        /\ proc'[p].exit = proc[p].exit
        /\ UNCHANGED <<file, listening>>
    <2>1. CASE AddInitial(p)
      BY <2>1 DEF AddInitial, TypeOK, ProcState
    <2>2. CASE Signal(p)
      BY <2>2 DEF Signal, TypeOK, ProcState
    <2>3. CASE RelayReturns(p)
      BY <2>3 DEF RelayReturns, TypeOK, ProcState
    <2>4. QED
      BY <2>1, <2>2, <2>3
  <1>2. proc'[p].relay \in {proc[p].relay, "done"}
    <2>1. CASE AddInitial(p)
      BY <2>1 DEF AddInitial, TypeOK, ProcState
    <2>2. CASE Signal(p)
      BY <2>2 DEF Signal, TypeOK, ProcState
    <2>3. CASE RelayReturns(p)
      BY <2>3 DEF RelayReturns, TypeOK, ProcState
    <2>4. QED
      BY <2>1, <2>2, <2>3
  <1>3. proc'[p].cause = proc[p].cause \/ MayStop(p)
    <2>1. CASE AddInitial(p)
      BY <2>1 DEF AddInitial, TypeOK, ProcState
    <2>2. CASE Signal(p)
      BY <2>2 DEF Signal
    <2>3. CASE RelayReturns(p)
      BY <2>3 DEF RelayReturns, TypeOK, ProcState
    <2>4. QED
      BY <2>1, <2>2, <2>3
  <1>4. StartsAlone'
    BY <1>1, <1>3 DEF PathInv, StartsAlone, At, Settled, Cancelled, MayStop
  <1>5. ServerFollowsMain'
    BY <1>1, <1>2 DEF PathInv, ServerFollowsMain, At
  <1>6. OneClaims' /\ PathIsAsExpected'
    BY <1>1 DEF PathInv, PathIsAsExpected, OneClaims, Claims, At
  <1>7. QED
    BY <1>4, <1>5, <1>6 DEF PathInv

\* A server that closes its listener unlinks its own socket: nobody starts at
\* that moment, and nobody else listens.
LEMMA ListenerClosesPath ==
  ASSUME TypeOK, PathInv, NEW p \in Procs, NEW how \in {"closed", "broken"},
         ListenerCloses(p, how), Cancelled(p) \/ MayStop(p)
  PROVE  PathInv'
  <1>1. /\ proc[p].server = "serving"
        /\ \A q \in Procs \ {p} : proc'[q] = proc[q]
        /\ proc'[p].pc = proc[p].pc /\ proc'[p].server = how
        /\ proc'[p].exit = proc[p].exit /\ proc'[p].relay = proc[p].relay
        /\ file' = None /\ listening' = listening \ {p}
    BY DEF ListenerCloses, TypeOK, ProcState
  <1>2. \A q \in Procs \ {p} : proc[q].pc \notin StartUp
    BY <1>1 DEF MayStop, PathInv, StartsAlone, ServerFollowsMain, Settled, At
  <1>3. \A q \in Procs \ {p} : ~Claims(q)
    BY <1>1 DEF PathInv, OneClaims, Claims
  <1>4. StartsAlone'
    BY <1>1, <1>2 DEF PathInv, StartsAlone, At, Settled, Cancelled
  <1>5. ServerFollowsMain'
    BY <1>1 DEF PathInv, ServerFollowsMain, At, StartUp
  <1>6. OneClaims'
    BY <1>1, <1>3 DEF OneClaims, Claims
  <1>7. PathIsAsExpected'
    BY <1>1, <1>2, <1>3, ProcessAssumption
       DEF PathInv, ServerFollowsMain, PathIsAsExpected, Claims, At, StartUp
  <1>8. QED
    BY <1>4, <1>5, <1>6, <1>7 DEF PathInv

\* The last removal of a server finds nothing that is anybody else's.
LEMMA ServerReturnsPath ==
  ASSUME TypeOK, PathInv, NEW p \in Procs, ServerReturns(p)
  PROVE  PathInv'
  <1> DEFINE c == IF proc[p].server = "broken" THEN Cause(p, "server") ELSE proc[p].cause
  <1>1. /\ proc[p].server \in {"closed", "broken"}
        /\ proc' = [proc EXCEPT ![p] = [[proc[p] EXCEPT !.server = "done"] EXCEPT !.cause = c]]
        /\ file' \in {None, file} /\ listening' = listening
    BY DEF ServerReturns, TypeOK, ProcState
  <1> HIDE DEF c
  <1>2. /\ \A q \in Procs \ {p} : proc'[q] = proc[q]
        /\ proc'[p].pc = proc[p].pc /\ proc'[p].server = "done"
        /\ proc'[p].exit = proc[p].exit /\ proc'[p].relay = proc[p].relay
    BY <1>1 DEF TypeOK, ProcState
  <1>3. proc[p].server \in {"closed", "broken"} /\ file' \in {None, file} /\ listening' = listening
    BY <1>1
  <1>4. \A q \in Procs \ {p} : proc[q].pc \notin StartUp
    BY <1>3 DEF PathInv, StartsAlone, ServerFollowsMain, Settled, At
  <1>5. \A q \in Procs \ {p} : ~Claims(q)
    BY <1>3 DEF PathInv, OneClaims, Claims
  <1>6. StartsAlone'
    BY <1>2, <1>4 DEF PathInv, StartsAlone, At, Settled, Cancelled
  <1>7. ServerFollowsMain'
    BY <1>2, <1>3 DEF PathInv, ServerFollowsMain, At, StartUp
  <1>8. OneClaims'
    BY <1>2, <1>3, <1>5 DEF PathInv, ServerFollowsMain, OneClaims, Claims, StartUp
  <1>9. PathIsAsExpected'
    BY <1>2, <1>3, <1>4, <1>5, ProcessAssumption
       DEF PathInv, ServerFollowsMain, PathIsAsExpected, Claims, At, StartUp
  <1>10. QED
    BY <1>6, <1>7, <1>8, <1>9 DEF PathInv

\* run returns after the server has, and a kill leaves at most a socket file
\* that nobody listens on.
LEMMA EndPath ==
  ASSUME TypeOK, PathInv, NEW p \in Procs, Exit(p) \/ Kill(p)
  PROVE  PathInv'
  <1>1. /\ \A q \in Procs \ {p} : proc'[q] = proc[q]
        /\ proc'[p].pc = "down" /\ proc'[p].relay # "running"
        /\ file' = file
    <2>1. CASE Exit(p)
      BY <2>1, ExitEffect DEF Exit, Waited, TypeOK
    <2>2. CASE Kill(p)
      BY <2>2 DEF Kill, Down, TypeOK
    <2>3. QED
      BY <2>1, <2>2
  <1>2. /\ proc'[p].server \in {"none", "done"}
        /\ proc'[p].server = "done" => proc[p].server = "done"
        /\ listening' = listening \ {p}
    <2>1. CASE Exit(p)
      <3>1. proc[p].server \in {"none", "done"} /\ proc[p].pc \in {"failed", "wait"}
        BY <2>1 DEF Exit, Waited, At
      <3>2. proc'[p].server = proc[p].server /\ listening' = listening
        BY <2>1, ExitEffect DEF TypeOK
      <3>3. p \notin listening
        BY <3>1 DEF PathInv, ServerFollowsMain, At
      <3>4. QED
        BY <3>1, <3>2, <3>3
    <2>2. CASE Kill(p)
      BY <2>2 DEF Kill, Down, TypeOK
    <2>3. QED
      BY <2>1, <2>2
  <1>3. StartsAlone'
    BY <1>1 DEF PathInv, StartsAlone, At, Settled, Cancelled, StartUp
  <1>4. ServerFollowsMain'
    BY <1>1, <1>2 DEF PathInv, ServerFollowsMain, At, StartUp
  <1>5. OneClaims'
    BY <1>1, <1>2 DEF PathInv, OneClaims, Claims
  <1>6. PathIsAsExpected'
    BY <1>1, <1>2 DEF PathInv, PathIsAsExpected, At
  <1>7. QED
    BY <1>3, <1>4, <1>5, <1>6 DEF PathInv

\* Every step keeps the path in order.
LEMMA PathStep == TypeOK /\ PathInv /\ [Next]_vars => PathInv'
  <1> SUFFICES ASSUME TypeOK, PathInv, [Next]_vars PROVE PathInv'
    OBVIOUS
  <1>1. CASE UNCHANGED vars
    BY <1>1 DEF vars, PathInv, StartsAlone, ServerFollowsMain, OneClaims, PathIsAsExpected,
                Claims, At, Settled, Cancelled
  <1>2. ASSUME NEW p \in Procs, Main(p) PROVE PathInv'
    <2>1. CASE Check(p)
      BY <2>1, GotoPath, FailPath DEF Check, At
    <2>2. CASE Stat(p)
      BY <2>2, GotoPath, FailPath DEF Stat, At
    <2>3. CASE Dial(p)
      BY <2>3, GotoPath, FailPath DEF Dial, At
    <2>4. CASE AddsDone(p)
      BY <2>4, GotoPath DEF AddsDone
    <2>5. QED
      BY <1>2, <2>1, <2>2, <2>3, <2>4, RemoveStalePath, BindPath, PermissionsPath, AsidePath,
         EndPath DEF Main
  <1>3. ASSUME NEW p \in Procs, SystemCallFails(p) PROVE PathInv'
    BY <1>3, FailPath DEF SystemCallFails
  <1>4. ASSUME NEW p \in Procs, Shutdown(p) \/ ServeFails(p) PROVE PathInv'
    BY <1>4, ListenerClosesPath DEF Shutdown, ServeFails
  <1>5. QED
    BY <1>1, <1>2, <1>3, <1>4, StartPath, AsidePath, ServerReturnsPath, EndPath DEF Next

----------------------------------------------------------------------------
(* Why a process stops.                                                    *)

\* The conjuncts of ProcessInv about the command line and the cause.
CauseInv == FlagsAreParsed /\ LeftoversDoNotBlock /\ ParsedFlagsSuffice

\* Whatever NewUnixServer refuses of a command line that Parse let through is
\* its group.
LEMMA ParseCoversServer ==
  ASSUME NEW f \in FlagType, Parses(f), f.socket # "none", ~ServerAccepts(f)
  PROVE  f.group = "unknown"
  <1>1. f.socket = "absolute" /\ f.timeout > 0 /\ f.mode \in 1..511
    BY DEF Parses, ParsedMode, FlagType
  <1>2. f.mode # 0 /\ f.mode = f.mode % 512
    BY <1>1
  <1>3. QED
    BY <1>1, <1>2 DEF ServerAccepts

\* A step that keeps a process's command line, and does not give it another
\* cause than one that is always in order, keeps CauseInv.
LEMMA CauseKept ==
  ASSUME CauseInv, NEW p \in Procs,
         \A q \in Procs \ {p} : proc'[q] = proc[q],
         proc'[p].pc = "check" => proc[p].pc = "check",
         proc'[p].flags = proc[p].flags,
         \/ proc'[p].cause = proc[p].cause
         \/ proc'[p].cause \in {"none", "signal", "system", "in use", "server"}
         \/ proc'[p].cause = "config" /\ proc[p].flags.group = "unknown"
  PROVE  CauseInv'
  BY DEF CauseInv, FlagsAreParsed, LeftoversDoNotBlock, ParsedFlagsSuffice, At, Parses

\* Every step gives a process that fails a cause that is in order.
LEMMA CauseStep == TypeOK /\ PathInv /\ CauseInv /\ [Next]_vars => CauseInv'
  <1> SUFFICES ASSUME TypeOK, PathInv, CauseInv, [Next]_vars PROVE CauseInv'
    OBVIOUS
  <1>1. ASSUME NEW p \in Procs, NEW pc, Goto(p, pc), pc # "check" PROVE CauseInv'
    <2>1. /\ \A q \in Procs \ {p} : proc'[q] = proc[q]
          /\ proc'[p].pc = pc /\ proc'[p].cause = proc[p].cause
          /\ proc'[p].flags = proc[p].flags
      BY <1>1, GotoEffect DEF TypeOK
    <2>2. QED
      BY <1>1, <2>1, CauseKept
  <1>2. ASSUME NEW p \in Procs, NEW why, Fail(p, why),
               \/ why \in {"system", "in use"}
               \/ why = "config" /\ proc[p].flags.group = "unknown"
        PROVE  CauseInv'
    <2>1. /\ \A q \in Procs \ {p} : proc'[q] = proc[q]
          /\ proc'[p].pc = "failed" /\ proc'[p].cause \in {why, proc[p].cause}
          /\ proc'[p].flags = proc[p].flags
      BY <1>2, FailEffect DEF TypeOK, Cause
    <2>2. QED
      BY <1>2, <2>1, CauseKept
  <1>3. ASSUME NEW p \in Procs, NEW f \in Flags, Start(p, f) PROVE CauseInv'
    <2>1. /\ \A q \in Procs \ {p} : proc'[q] = proc[q]
          /\ proc'[p].cause = "none"
          /\ proc'[p].pc = "check" => proc'[p].flags \in FlagType /\ Parses(proc'[p].flags)
      BY <1>3, ProcessAssumption DEF Start, Down, TypeOK
    <2>2. QED
      BY <2>1 DEF CauseInv, FlagsAreParsed, LeftoversDoNotBlock, ParsedFlagsSuffice, At, Parses
  <1>4. ASSUME NEW p \in Procs, Check(p) PROVE CauseInv'
    <2>1. CASE /\ proc[p].flags.socket # "none" /\ ~ServerAccepts(proc[p].flags)
               /\ Fail(p, "config")
      <3>1. proc[p].flags \in FlagType /\ Parses(proc[p].flags)
        BY <1>4 DEF Check, CauseInv, FlagsAreParsed
      <3>2. proc[p].flags.group = "unknown"
        BY <2>1, <3>1, ParseCoversServer
      <3>3. QED
        BY <1>2, <2>1, <3>2
    <2>2. QED
      BY <1>1, <1>4, <2>1 DEF Check
  <1>5. ASSUME NEW p \in Procs, Stat(p) \/ Dial(p) \/ SystemCallFails(p) PROVE CauseInv'
    BY <1>1, <1>2, <1>5 DEF Stat, Dial, SystemCallFails
  <1>6. ASSUME NEW p \in Procs, RemoveStale(p) \/ Bind(p) PROVE CauseInv'
    BY <1>1, <1>6, RemoveStalePath, BindPath
  <1>7. ASSUME NEW p \in Procs, Permissions(p) PROVE CauseInv'
    <2>1. CASE proc' = [proc EXCEPT ![p].pc = "add", ![p].server = "serving"]
      <3>1. /\ \A q \in Procs \ {p} : proc'[q] = proc[q]
            /\ proc'[p] = [[proc[p] EXCEPT !.pc = "add"] EXCEPT !.server = "serving"]
        BY <2>1 DEF TypeOK
      <3>2. /\ proc[p] \in ProcState
            /\ proc'[p] = [[proc[p] EXCEPT !.pc = "add"] EXCEPT !.server = "serving"]
        BY <3>1 DEF TypeOK
      <3>3. proc'[p].pc = "add" /\ proc'[p].cause = proc[p].cause
        BY <3>2 DEF ProcState
      <3>4. proc'[p].flags = proc[p].flags
        BY <3>2 DEF ProcState
      <3>5. QED
        BY <3>1, <3>3, <3>4, CauseKept
    <2>2. QED
      BY <1>2, <1>7, <2>1 DEF Permissions
  <1>8. ASSUME NEW p \in Procs, AddsDone(p) PROVE CauseInv'
    BY <1>1, <1>8 DEF AddsDone
  <1>9. ASSUME NEW p \in Procs, Exit(p) PROVE CauseInv'
    <2>1. /\ \A q \in Procs \ {p} : proc'[q] = proc[q]
          /\ proc'[p].pc = "down" /\ proc'[p].cause = proc[p].cause
          /\ proc'[p].flags = proc[p].flags
      BY <1>9, ExitEffect DEF TypeOK
    <2>2. QED
      BY <2>1, CauseKept
  <1>10. ASSUME NEW p \in Procs, AddInitial(p) \/ Signal(p) \/ RelayReturns(p) PROVE CauseInv'
    <2>1. /\ \A q \in Procs \ {p} : proc'[q] = proc[q]
          /\ proc'[p].pc = proc[p].pc /\ proc'[p].cause \in {proc[p].cause, "signal"}
          /\ proc'[p].flags = proc[p].flags
      <3>1. CASE AddInitial(p)
        BY <3>1 DEF AddInitial, TypeOK, ProcState
      <3>2. CASE Signal(p)
        BY <3>2 DEF Signal, TypeOK, ProcState
      <3>3. CASE RelayReturns(p)
        BY <3>3 DEF RelayReturns, TypeOK, ProcState
      <3>4. QED
        BY <1>10, <3>1, <3>2, <3>3
    <2>2. QED
      BY <2>1, CauseKept
  <1>11. ASSUME NEW p \in Procs, NEW how, ListenerCloses(p, how) PROVE CauseInv'
    <2>1. /\ \A q \in Procs \ {p} : proc'[q] = proc[q]
          /\ proc'[p].pc = proc[p].pc /\ proc'[p].cause = proc[p].cause
          /\ proc'[p].flags = proc[p].flags
      BY <1>11 DEF ListenerCloses, TypeOK, ProcState
    <2>2. QED
      BY <2>1, CauseKept
  <1>12. ASSUME NEW p \in Procs, ServerReturns(p) PROVE CauseInv'
    <2> DEFINE c == IF proc[p].server = "broken" THEN Cause(p, "server") ELSE proc[p].cause
    <2>1. proc' = [proc EXCEPT ![p] = [[proc[p] EXCEPT !.server = "done"] EXCEPT !.cause = c]]
      BY <1>12 DEF ServerReturns, TypeOK, ProcState
    <2>2. c \in {proc[p].cause, "server"}
      BY DEF Cause
    <2> HIDE DEF c
    <2>3. /\ \A q \in Procs \ {p} : proc'[q] = proc[q]
          /\ proc'[p].pc = proc[p].pc /\ proc'[p].cause = c
          /\ proc'[p].flags = proc[p].flags
      BY <2>1 DEF TypeOK, ProcState
    <2>4. QED
      BY <2>2, <2>3, CauseKept
  <1>13. ASSUME NEW p \in Procs, Kill(p) PROVE CauseInv'
    <2>1. /\ \A q \in Procs \ {p} : proc'[q] = proc[q]
          /\ proc'[p].pc = "down" /\ proc'[p].cause = "none"
      BY <1>13 DEF Kill, Down, TypeOK
    <2>2. QED
      BY <2>1 DEF CauseInv, FlagsAreParsed, LeftoversDoNotBlock, ParsedFlagsSuffice, At, Parses
  <1>14. CASE UNCHANGED vars
    BY <1>14 DEF vars, CauseInv, FlagsAreParsed, LeftoversDoNotBlock, ParsedFlagsSuffice, At, Parses
  <1>15. QED
    BY <1>3, <1>4, <1>5, <1>6, <1>7, <1>8, <1>9, <1>10, <1>11, <1>12, <1>13, <1>14
       DEF Next, Main, Shutdown, ServeFails

----------------------------------------------------------------------------
(* The theorems.                                                           *)

\* Before the first start every process is down and nobody claims the path.
LEMMA ProcessInit == Init => ProcessInv
  <1> SUFFICES ASSUME Init PROVE ProcessInv
    OBVIOUS
  <1>1. Down \in ProcState
    <2>1. 0 \in 0..NInitial
      BY ProcessAssumption
    <2>2. QED
      BY <2>1 DEF Down, ProcState
  <1>2. TypeOK
    BY <1>1, ProcessAssumption DEF Init, TypeOK
  <1>3. \A p \in Procs : /\ proc[p].pc = "down" /\ proc[p].server = "none" /\ proc[p].exit = "none"
                         /\ proc[p].relay = "none" /\ proc[p].cause = "none"
    BY DEF Init, Down
  <1>4. StartsAlone /\ ServerFollowsMain /\ OneClaims
    BY <1>3 DEF Init, StartsAlone, ServerFollowsMain, OneClaims, Claims, At, StartUp
  <1>5. PathIsAsExpected
    BY <1>3 DEF Init, PathIsAsExpected, At
  <1>6. FlagsAreParsed /\ LeftoversDoNotBlock /\ ParsedFlagsSuffice
    BY <1>3 DEF FlagsAreParsed, LeftoversDoNotBlock, ParsedFlagsSuffice, At
  <1>7. QED
    BY <1>2, <1>4, <1>5, <1>6 DEF ProcessInv

\* However the processes on one socket path are started, stopped and killed,
\* at most one of them may change the path, and it finds there what it expects.
THEOREM ProcessInvariant == Spec => []ProcessInv
  <1>1. ProcessInv /\ [Next]_vars => ProcessInv'
    BY ProcessTypeStep, PathStep, CauseStep DEF ProcessInv, PathInv, CauseInv
  <1>2. QED
    BY ProcessInit, <1>1, PTL DEF Spec

\* The state of every process keeps its type: TypeOK.
THEOREM ProcessTypeCorrect == Spec => []TypeOK
  <1>1. ProcessInv => TypeOK
    BY DEF ProcessInv
  <1>2. QED
    BY ProcessInvariant, <1>1, PTL

\* Clients reach the server that serves, whoever was killed, restarted or
\* refused before: ServerReachable.
THEOREM ServerStaysReachable == Spec => []ServerReachable
  <1>1. ProcessInv => ServerReachable
    BY DEF ProcessInv, ServerFollowsMain, PathIsAsExpected, ServerReachable
  <1>2. QED
    BY ProcessInvariant, <1>1, PTL

\* removeStaleSocket copes with whatever an earlier instance left at the path:
\* LeftoversDoNotBlock.
THEOREM LeftoversAreRemoved == Spec => []LeftoversDoNotBlock
  <1>1. ProcessInv => LeftoversDoNotBlock
    BY DEF ProcessInv
  <1>2. QED
    BY ProcessInvariant, <1>1, PTL

\* Parse refuses whatever NewUnixServer would, but for an unknown group:
\* ParsedFlagsSuffice.
THEOREM ParseRefusesFirst == Spec => []ParsedFlagsSuffice
  <1>1. ProcessInv => ParsedFlagsSuffice
    BY DEF ProcessInv
  <1>2. QED
    BY ProcessInvariant, <1>1, PTL

\* A process whose run returned has no relay, no listener and no socket file
\* left: ExitIsClean.
THEOREM ExitLeavesNothing == Spec => []ExitIsClean
  <1>1. ProcessInv => ExitIsClean
    BY DEF ProcessInv, ServerFollowsMain, PathIsAsExpected, ExitIsClean, At
  <1>2. QED
    BY ProcessInvariant, <1>1, PTL
============================================================================
