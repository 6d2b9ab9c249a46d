---------------------------- MODULE SocketSetup ----------------------------
(***************************************************************************)
(* How buildInstance opens a namespace and its sockets, one system call at *)
(* a time, each of which may fail: netns.Open, then for every group        *)
(* NSHandle.Do around the body of NewMulticastSocket, and the rollback of  *)
(* what was opened; later, teardown.  Coordinator takes all of this as one *)
(* step, BuildInstance or BuildFails.                                      *)
(*                                                                         *)
(* Do runs on whichever OS thread the coordinator's goroutine is on; what  *)
(* it leaves behind there meets the next goroutine on that thread.         *)
(***************************************************************************)
EXTENDS Integers, FiniteSets

CONSTANTS
  Threads,     \* OS threads of the process
  Host,        \* the network namespace they start in
  Namespaces,  \* the namespaces to relay
  NGroups,     \* len(r.groups)
  MaxBuilds    \* bound on the builds of a behaviour

ASSUME SetupAssumption ==
  /\ Host \notin Namespaces
  /\ NGroups \in Nat
  /\ MaxBuilds \in Nat

VARIABLES
  pc,        \* the next call of the build in progress, or "idle"
  builds,    \* number of the build in progress, or of the last one
  target,    \* build -> the namespace its path names
  group,     \* index of the group whose socket is being made
  thread,    \* the thread that runs Do
  threadNs,  \* thread -> the namespace it is in
  savedNs,   \* what netns.Get returned to Do
  fds,       \* open descriptors
  retErr,    \* Do's result so far is an error
  built,     \* builds that succeeded and are not torn down
  cause      \* history: build -> the call whose failure ended it, or "none"

vars == <<pc, builds, target, group, thread, threadNs, savedNs, fds, retErr,
          built, cause>>

AllNs == Namespaces \cup {Host}
Builds == 1..MaxBuilds
Kinds == {"handle", "saved", "conn", "raw"}

\* A descriptor of the build in progress, with the namespace it lives in.
Fd(kind, ns) == [kind |-> kind, build |-> builds, group |-> group, ns |-> ns]

\* Descriptors of the build in progress of these kinds, for the current group.
Mine(kinds) == {f \in fds : f.build = builds /\ f.group = group /\ f.kind \in kinds}

TypeOK ==
  /\ pc \in {"idle", "group", "set", "listen", "configure", "raw", "buffers",
             "restore", "close", "rollback"}
  /\ builds \in 0..MaxBuilds
  /\ target \in [Builds -> AllNs]
  /\ group \in 1..(NGroups + 1)
  /\ thread \in Threads
  /\ threadNs \in [Threads -> AllNs]
  /\ savedNs \in AllNs
  /\ fds \subseteq [kind : Kinds, build : Builds, group : 1..(NGroups + 1), ns : AllNs]
  /\ retErr \in BOOLEAN
  /\ built \subseteq Builds
  /\ cause \in [Builds -> {"none", "open", "early", "buffers", "leave"}]

Init ==
  /\ pc = "idle"
  /\ builds = 0
  /\ target = [b \in Builds |-> Host]
  /\ group = 1
  /\ thread \in Threads
  /\ threadNs = [t \in Threads |-> Host]
  /\ savedNs = Host
  /\ fds = {}
  /\ retErr = FALSE
  /\ built = {}
  /\ cause = [b \in Builds |-> "none"]

----------------------------------------------------------------------------
(* A call succeeds, and the next one is due; or it fails, with this cause,  *)
(* and control goes to the deferred functions or to the rollback.           *)

Fails(why, next) ==
  /\ pc' = next
  /\ retErr' = TRUE
  /\ cause' = [cause EXCEPT ![builds] = why]

Continues(next) ==
  /\ pc' = next
  /\ UNCHANGED <<retErr, cause>>

\* netns.Open
Open(ns) ==
  /\ pc = "idle"
  /\ builds < MaxBuilds
  /\ builds' = builds + 1
  /\ target' = [target EXCEPT ![builds'] = ns]
  /\ group' = 1
  /\ retErr' = FALSE
  /\ \/ /\ pc' = "group"
        /\ fds' = fds \cup {[kind |-> "handle", build |-> builds', group |-> 1, ns |-> ns]}
        /\ UNCHANGED cause
     \/ /\ cause' = [cause EXCEPT ![builds'] = "open"]
        /\ UNCHANGED <<pc, fds>>
  /\ UNCHANGED <<thread, threadNs, savedNs, built>>

\* for _, group := range r.groups
MoreGroups == group <= NGroups

\* LockOSThread, on any thread, and netns.Get.
DoGet(t) ==
  /\ pc = "group"
  /\ MoreGroups
  /\ thread' = t
  /\ savedNs' = threadNs[t]
  /\ \/ Continues("set") /\ fds' = fds \cup {Fd("saved", threadNs[t])}
     \/ Fails("early", "rollback") /\ UNCHANGED fds
  /\ UNCHANGED <<builds, target, group, threadNs, built>>

\* Mutant: the body runs although the target could not be entered.
SetFailsIgnored == Continues("listen")

\* On failure the thread stays where it is, and only the saved handle is closed.
SetFails == Fails("early", "close")

\* netns.Set(h.handle)
DoSet ==
  /\ pc = "set"
  /\ \/ /\ Continues("listen")
        /\ threadNs' = [threadNs EXCEPT ![thread] = target[builds]]
     \/ SetFails /\ UNCHANGED threadNs
  /\ UNCHANGED <<builds, target, group, thread, savedNs, fds, built>>

\* The usable interfaces are chosen and net.ListenMulticastUDP joins the first.
Listen ==
  /\ pc = "listen"
  /\ \/ Continues("configure") /\ fds' = fds \cup {Fd("conn", threadNs[thread])}
     \/ Fails("early", "restore") /\ UNCHANGED fds
  /\ UNCHANGED <<builds, target, group, thread, threadNs, savedNs, built>>

\* JoinGroup on the other interfaces, enableMulticastLoopback and
\* SetControlMessage: each closes conn when it fails.
Configure ==
  /\ pc = "configure"
  /\ \/ Continues("raw") /\ UNCHANGED fds
     \/ Fails("early", "restore") /\ fds' = fds \ Mine({"conn"})
  /\ UNCHANGED <<builds, target, group, thread, threadNs, savedNs, built>>

\* The raw socket is optional: when it cannot be opened or configured, it is
\* closed and the socket does without.
OpenRaw ==
  /\ pc = "raw"
  /\ Continues("buffers")
  /\ fds' \in {fds, fds \cup {Fd("raw", threadNs[thread])}}
  /\ UNCHANGED <<builds, target, group, thread, threadNs, savedNs, built>>

\* SetReadBuffer and SetWriteBuffer close conn when they fail, not rawConn.
SetBuffers ==
  /\ pc = "buffers"
  /\ \/ Continues("restore") /\ UNCHANGED fds
     \/ Fails("buffers", "restore") /\ fds' = fds \ Mine({"conn"})
  /\ UNCHANGED <<builds, target, group, thread, threadNs, savedNs, built>>

\* A deferred call fails after fn returned: an error now, if there was none.
LeaveFails(next) ==
  /\ pc' = next
  /\ retErr' = TRUE
  /\ cause' = IF retErr THEN cause ELSE [cause EXCEPT ![builds] = "leave"]

\* Deferred: netns.Set(currentNs).
DoRestore ==
  /\ pc = "restore"
  /\ \/ Continues("close") /\ threadNs' = [threadNs EXCEPT ![thread] = savedNs]
     \/ LeaveFails("close") /\ UNCHANGED threadNs
  /\ UNCHANGED <<builds, target, group, thread, savedNs, fds, built>>

\* Deferred: currentNs.Close(), which gives the descriptor up even when it
\* reports an error, and UnlockOSThread.  Back in buildInstance, an error
\* leads to the rollback and success to the next group.
DoClose ==
  /\ pc = "close"
  /\ fds' = fds \ Mine({"saved"})
  /\ \/ /\ Continues(IF retErr THEN "rollback" ELSE "group")
        /\ group' = IF retErr THEN group ELSE group + 1
     \/ LeaveFails("rollback") /\ UNCHANGED group
  /\ UNCHANGED <<builds, target, thread, threadNs, savedNs, built>>

\* Mutant: the rollback forgets the sockets made so far.
ClosedByRollbackHandle == {f \in fds : f.build = builds /\ f.kind = "handle"}

\* The sockets of the earlier groups, conn and rawConn, and the handle.
ClosedByRollback ==
  {f \in fds : f.build = builds /\ (f.kind = "handle" \/ f.group < group)}

Rollback ==
  /\ pc = "rollback"
  /\ pc' = "idle"
  /\ fds' = fds \ ClosedByRollback
  /\ UNCHANGED <<builds, target, group, thread, threadNs, savedNs, retErr,
                 built, cause>>

\* Every group has its socket: the instance is complete.
Built ==
  /\ pc = "group"
  /\ ~MoreGroups
  /\ pc' = "idle"
  /\ built' = built \cup {builds}
  /\ UNCHANGED <<builds, target, group, thread, threadNs, savedNs, fds, retErr,
                 cause>>

\* teardown: MulticastSocket.Close for every socket, then the handle.
Teardown(b) ==
  /\ pc = "idle"
  /\ b \in built
  /\ built' = built \ {b}
  /\ fds' = {f \in fds : f.build # b}
  /\ UNCHANGED <<pc, builds, target, group, thread, threadNs, savedNs, retErr,
                 cause>>

Next ==
  \/ \E ns \in Namespaces : Open(ns)
  \/ \E t \in Threads : DoGet(t)
  \/ DoSet
  \/ Listen
  \/ Configure
  \/ OpenRaw
  \/ SetBuffers
  \/ DoRestore
  \/ DoClose
  \/ Rollback
  \/ Built
  \/ \E b \in Builds : Teardown(b)

Spec == Init /\ [][Next]_vars

----------------------------------------------------------------------------
(* Properties.                                                             *)

Sockets(b) == {f \in fds : f.build = b /\ f.kind \in {"conn", "raw"}}

\* Every socket, the raw one included, lives in the namespace its instance is
\* for, also when Do runs on a thread that an earlier Do could not restore.
SocketsInTarget == \A b \in Builds : \A f \in Sockets(b) : f.ns = target[b]

\* What a failure with this cause may leave of the group it happened in.
LeftBy(why) ==
  CASE why = "buffers" -> {"raw"}
    [] why = "leave"   -> {"conn", "raw"}
    [] OTHER           -> {}

\* Between builds exactly the complete instances hold their handle and a
\* socket per group.  A build that failed has closed the handle and every
\* socket of the earlier groups; it leaves at most rawConn of the group it
\* failed on when a buffer could not be set, and at most conn and rawConn of
\* that group when Do could not leave the namespace cleanly.  (They are
\* unreachable: Go's finalizers close them at some later garbage collection.)
RollbackIsBounded ==
  pc = "idle" => \A b \in Builds :
    LET mine == {f \in fds : f.build = b} IN
    IF b \in built
      THEN /\ {f.kind : f \in mine} \subseteq {"handle", "conn", "raw"}
           /\ \E f \in mine : f.kind = "handle"
           /\ \A g \in 1..NGroups : \E f \in mine : f.kind = "conn" /\ f.group = g
      ELSE /\ {f.kind : f \in mine} \subseteq LeftBy(cause[b])
           /\ Cardinality({f.group : f \in mine}) <= 1

----------------------------------------------------------------------------
(* The inductive invariant behind both.                                    *)

InFn == {"listen", "configure", "raw", "buffers"}

\* While fn runs in Do, its thread is in the namespace of the build.
ThreadIsInTarget ==
  pc \in InFn \cup {"restore"} => threadNs[thread] = target[builds]

\* What the deferred functions of Do find, besides what Do itself has opened.
LeftNow == IF retErr THEN LeftBy(cause[builds]) ELSE {"conn", "raw"}

\* Of the current group, what may be open.
OpenNow ==
  CASE pc \in {"set", "listen"}    -> {"saved"}
    [] pc \in {"configure", "raw"} -> {"saved", "conn"}
    [] pc = "buffers"              -> {"saved", "conn", "raw"}
    [] pc \in {"restore", "close"} -> {"saved"} \cup LeftNow
    [] pc = "rollback"             -> LeftNow
    [] OTHER                       -> {}

\* The current group has its conn.
HasConn == pc \in {"configure", "raw", "buffers"} \/ (pc \in {"restore", "close"} /\ ~retErr)

\* The build in progress has its handle, a conn for every group it is through
\* with, and of the current group no more than it has opened.
BuildIsInOrder ==
  pc # "idle" =>
    /\ builds \in Builds \ built
    /\ pc # "group" => MoreGroups
    /\ \E f \in fds : f.build = builds /\ f.kind = "handle"
    /\ \A g \in 1..NGroups : g < group \/ (g = group /\ HasConn) =>
         \E f \in fds : f.build = builds /\ f.kind = "conn" /\ f.group = g
    /\ \A f \in fds : f.build = builds /\ f.group < group =>
         f.kind \in {"handle", "conn", "raw"}
    /\ \A f \in fds : f.build = builds /\ f.group = group =>
         f.kind \in {"handle"} \cup OpenNow

\* A build has a cause if it has failed.
CauseOfFailure ==
  /\ pc \in InFn \cup {"group", "set"} => ~retErr
  /\ pc = "rollback" => retErr
  /\ pc # "idle" => IF retErr THEN cause[builds] \in {"early", "buffers", "leave"}
                              ELSE cause[builds] = "none"

\* Nothing is open for a build to come.
NothingIsAhead ==
  /\ \A f \in fds : f.build <= builds /\ (f.build = builds => f.group <= group)
  /\ \A b \in built : b <= builds
  /\ \A b \in Builds : b > builds => cause[b] = "none"

\* The builds that are over, and the instances they have led to.
PastIsBounded ==
  \A b \in Builds : b < builds \/ (b = builds /\ pc = "idle") =>
    IF b \in built
      THEN /\ \A f \in fds : f.build = b => f.kind \in {"handle", "conn", "raw"}
           /\ \E f \in fds : f.build = b /\ f.kind = "handle"
           /\ \A g \in 1..NGroups : \E f \in fds : f.build = b /\ f.kind = "conn" /\ f.group = g
      ELSE /\ \A f \in fds : f.build = b => f.kind \in LeftBy(cause[b])
           /\ \A f, h \in fds : f.build = b /\ h.build = b => f.group = h.group

SetupInv ==
  /\ TypeOK
  /\ ThreadIsInTarget
  /\ BuildIsInOrder
  /\ CauseOfFailure
  /\ NothingIsAhead
  /\ PastIsBounded
  /\ SocketsInTarget
============================================================================
