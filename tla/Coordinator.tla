---------------------------- MODULE Coordinator ----------------------------
(***************************************************************************)
(* The control plane of internal/relay/relay.go: the coordinate goroutine, *)
(* which owns the namespace map; the callers of AddNamespace and           *)
(* RemoveNamespace that hand it intents over an unbuffered channel; the    *)
(* debounce timer; reconcile with its teardowns and builds; and shutdown.  *)
(*                                                                         *)
(* Of an instance's goroutines (one receive loop per group, one send       *)
(* worker) this module keeps only that they run and may stop once their    *)
(* context is done; module Relay says what they do.  Time is abstract: the *)
(* debounce timer, once armed, fires at any later moment.                  *)
(***************************************************************************)
EXTENDS Integers, FiniteSets

CONSTANTS
  Paths,     \* namespace paths, the keys of the instance map
  Groups,    \* configured multicast groups (r.groups)
  Callers,   \* goroutines that call AddNamespace / RemoveNamespace
  Insts,     \* identities of nsInstance objects; an identity is used once
  Sender,    \* role of the send worker; a receive loop's role is its group
  None,      \* nil
  MaxCalls   \* bound on the calls made in a behaviour

ASSUME ConstAssumption ==
  /\ None \notin Insts
  /\ None \notin Paths
  /\ Sender \notin Groups
  /\ MaxCalls \in Nat

VARIABLES
  caller,      \* caller -> [pc, op, path]: where its call stands
  calls,       \* calls made so far
  pendingAdd,  \* coordinate's intents not yet reconciled
  pendingDel,
  timer,       \* the debounce timer: nil, armed, fired (value in timer.C)
  coord,       \* where coordinate is
  snap,        \* r.snap: path -> instance or None
  next,        \* the map reconcile builds; in drain, what is left to tear down
  victim,      \* the instance in teardown, or None
  ctxDone,     \* Run's context is cancelled
  path,        \* instance -> its path, None before it is built
  cancelled,   \* instances whose cancelFn was called
  handles,     \* instances whose namespace handle is open
  sockets,     \* open sockets: <<instance, group>>
  running,     \* running goroutines: <<instance, role>>
  intent,      \* history: the last accepted intent for each path
  failed       \* history: paths whose last accepted add failed to build

callVars == <<caller, calls>>
loopVars == <<pendingAdd, pendingDel, timer, coord, next, victim>>
instVars == <<path, cancelled, handles, sockets, running>>
histVars == <<intent, failed>>
coordVars == <<caller, calls, pendingAdd, pendingDel, timer, coord, snap, next,
               victim, ctxDone, path, cancelled, handles, sockets, running,
               intent, failed>>

Roles == Groups \cup {Sender}
Ops == {"add", "remove"}

\* inst.ctx.Err() # nil: the instance's context is a child of Run's.
CtxDone(i) == ctxDone \/ i \in cancelled

CoordTypeOK ==
  /\ caller \in [Callers -> [pc : {"idle", "send", "wait", "ok", "err"},
                             op : Ops \cup {"none"},
                             path : Paths \cup {None}]]
  /\ calls \in Nat
  /\ pendingAdd \subseteq Paths
  /\ pendingDel \subseteq Paths
  /\ timer \in {"nil", "stopped", "armed", "fired"}
  /\ coord \in {"select", "reconcile", "drain", "return"}
  /\ snap \in [Paths -> Insts \cup {None}]
  /\ next \in [Paths -> Insts \cup {None}]
  /\ victim \in Insts \cup {None}
  /\ ctxDone \in BOOLEAN
  /\ path \in [Insts -> Paths \cup {None}]
  /\ cancelled \subseteq Insts
  /\ handles \subseteq Insts
  /\ sockets \subseteq Insts \X Groups
  /\ running \subseteq Insts \X Roles
  /\ intent \in [Paths -> Ops \cup {"none"}]
  /\ failed \subseteq Paths

----------------------------------------------------------------------------
\* New: an empty snapshot, and coordinate at its first select.
CoordInit ==
  /\ caller = [c \in Callers |-> [pc |-> "idle", op |-> "none", path |-> None]]
  /\ calls = 0
  /\ pendingAdd = {}
  /\ pendingDel = {}
  /\ timer = "nil"
  /\ coord = "select"
  /\ snap = [p \in Paths |-> None]
  /\ next = [p \in Paths |-> None]
  /\ victim = None
  /\ ctxDone = FALSE
  /\ path = [i \in Insts |-> None]
  /\ cancelled = {}
  /\ handles = {}
  /\ sockets = {}
  /\ running = {}
  /\ intent = [p \in Paths |-> "none"]
  /\ failed = {}

----------------------------------------------------------------------------
(* AddNamespace and RemoveNamespace.                                       *)

\* A caller offers its command on nsCmdCh and blocks.
Call(c, op, p) ==
  /\ calls < MaxCalls
  /\ caller[c].pc \in {"idle", "ok", "err"}
  /\ caller' = [caller EXCEPT ![c] = [pc |-> "send", op |-> op, path |-> p]]
  /\ calls' = calls + 1
  /\ UNCHANGED <<loopVars, snap, ctxDone, instVars, histVars>>

\* The call is over, with this outcome.
Outcome(pc) == [pc |-> pc, op |-> "none", path |-> None]

\* case err := <-resultCh: coordinate only ever sends nil.
CallReturns(c) ==
  /\ caller[c].pc = "wait"
  /\ caller' = [caller EXCEPT ![c] = Outcome("ok")]
  /\ UNCHANGED <<calls, loopVars, snap, ctxDone, instVars, histVars>>

\* case <-ctx.Done(): the caller's own context (a request's timeout, or Run's
\* context for the initial namespaces) may end before the command is taken or
\* after it was taken and accepted.
CallCancelled(c) ==
  /\ caller[c].pc \in {"send", "wait"}
  /\ caller' = [caller EXCEPT ![c] = Outcome("err")]
  /\ UNCHANGED <<calls, loopVars, snap, ctxDone, instVars, histVars>>

----------------------------------------------------------------------------
(* coordinate: the select loop.                                            *)

\* Mutant: a timer that exists is stopped and not reset.
ArmTimerNotReset == timer' = IF timer = "nil" THEN "armed" ELSE "stopped"

\* nil: NewTimer; otherwise Stop and Reset.  From Go 1.23 on (go.mod says 1.26.3)
\* nothing can be received from timer.C after Stop, also when the timer had fired:
\* the drain between the two finds nothing, and the reset timer is like a new one.
ArmTimer == timer' = "armed"

\* Mutant: the opposite intent stays pending.
AcceptCmdKeepsOpposite(c) ==
  LET p == caller[c].path IN
  /\ coord = "select"
  /\ caller[c].pc = "send"
  /\ IF caller[c].op = "add"
       THEN pendingAdd' = pendingAdd \cup {p} /\ UNCHANGED pendingDel
       ELSE pendingDel' = pendingDel \cup {p} /\ UNCHANGED pendingAdd
  /\ ArmTimer
  /\ caller' = [caller EXCEPT ![c].pc = "wait"]
  /\ intent' = [intent EXCEPT ![p] = caller[c].op]
  /\ failed' = failed \ {p}
  /\ UNCHANGED <<calls, coord, snap, next, victim, ctxDone, instVars>>

\* case cmd := <-r.nsCmdCh.  The unbuffered send and this receive are one
\* step; the nil on the buffered resultCh never blocks.
AcceptCmd(c) ==
  LET p == caller[c].path IN
  /\ coord = "select"
  /\ caller[c].pc = "send"
  /\ IF caller[c].op = "add"
       THEN /\ pendingAdd' = pendingAdd \cup {p}
            /\ pendingDel' = pendingDel \ {p}
       ELSE /\ pendingDel' = pendingDel \cup {p}
            /\ pendingAdd' = pendingAdd \ {p}
  /\ ArmTimer
  /\ caller' = [caller EXCEPT ![c].pc = "wait"]
  /\ intent' = [intent EXCEPT ![p] = caller[c].op]
  /\ failed' = failed \ {p}
  /\ UNCHANGED <<calls, coord, snap, next, victim, ctxDone, instVars>>

\* DebounceWindow has passed since the timer was last armed.
TimerFires ==
  /\ timer = "armed"
  /\ timer' = "fired"
  /\ UNCHANGED <<callVars, pendingAdd, pendingDel, coord, snap, next, victim,
                 ctxDone, instVars, histVars>>

\* case <-timerCh: reconcile starts from a copy of the snapshot.
StartReconcile ==
  /\ coord = "select"
  /\ timer = "fired"
  /\ timer' = "nil"
  /\ coord' = "reconcile"
  /\ next' = snap
  /\ UNCHANGED <<callVars, pendingAdd, pendingDel, snap, victim, ctxDone,
                 instVars, histVars>>

----------------------------------------------------------------------------
(* teardown, called from reconcile and from the shutdown branch.           *)

\* inst.cancelFn()
BeginTeardown(i) ==
  /\ victim' = i
  /\ cancelled' = cancelled \cup {i}

\* sock.Close(), which also unblocks a read in progress.
TeardownCloseSocket(g) ==
  /\ victim # None
  /\ <<victim, g>> \in sockets
  /\ sockets' = sockets \ {<<victim, g>>}
  /\ UNCHANGED <<callVars, loopVars, snap, ctxDone, path, cancelled, handles,
                 running, histVars>>

\* Mutant: teardown neither closes the sockets nor waits for the goroutines.
TeardownFinishNoWait ==
  /\ victim # None
  /\ handles' = handles \ {victim}
  /\ victim' = None
  /\ UNCHANGED <<callVars, pendingAdd, pendingDel, timer, coord, snap, next,
                 ctxDone, path, cancelled, sockets, running, histVars>>

\* inst.wg.Wait() returns, then inst.handle.Close().
TeardownFinish ==
  /\ victim # None
  /\ \A g \in Groups : <<victim, g>> \notin sockets
  /\ \A r \in Roles : <<victim, r>> \notin running
  /\ handles' = handles \ {victim}
  /\ victim' = None
  /\ UNCHANGED <<callVars, pendingAdd, pendingDel, timer, coord, snap, next,
                 ctxDone, path, cancelled, sockets, running, histVars>>

----------------------------------------------------------------------------
(* reconcile.  Its two range loops consume pendingDel and pendingAdd, which *)
(* it resets at its end and nobody else reads in between.                   *)

\* Mutant: the torn-down instance stays in the map.
ReconcileRemoveKeepsEntry(p) ==
  /\ coord = "reconcile"
  /\ victim = None
  /\ p \in pendingDel
  /\ pendingDel' = pendingDel \ {p}
  /\ IF next[p] # None THEN BeginTeardown(next[p]) ELSE UNCHANGED <<victim, cancelled>>
  /\ UNCHANGED <<callVars, pendingAdd, timer, coord, snap, next, ctxDone, path,
                 handles, sockets, running, histVars>>

\* Mutant: a path that is not active is torn down all the same.
ReconcileRemoveUnchecked(p) ==
  /\ coord = "reconcile"
  /\ victim = None
  /\ p \in pendingDel
  /\ pendingDel' = pendingDel \ {p}
  /\ BeginTeardown(next[p])
  /\ next' = [next EXCEPT ![p] = None]
  /\ UNCHANGED <<callVars, pendingAdd, timer, coord, snap, ctxDone, path,
                 handles, sockets, running, histVars>>

\* Remove first: a path that is active is torn down and deleted from next.
ReconcileRemove(p) ==
  /\ coord = "reconcile"
  /\ victim = None
  /\ p \in pendingDel
  /\ pendingDel' = pendingDel \ {p}
  /\ IF next[p] # None
       THEN /\ BeginTeardown(next[p])
            /\ next' = [next EXCEPT ![p] = None]
       ELSE UNCHANGED <<victim, cancelled, next>>
  /\ UNCHANGED <<callVars, pendingAdd, timer, coord, snap, ctxDone, path,
                 handles, sockets, running, histVars>>

\* The add loop takes path p once every removal is done.
AddLoopTakes(p) ==
  /\ coord = "reconcile"
  /\ victim = None
  /\ pendingDel = {}
  /\ p \in pendingAdd
  /\ pendingAdd' = pendingAdd \ {p}
  /\ UNCHANGED <<callVars, pendingDel, timer, coord, snap, victim, ctxDone,
                 cancelled, intent>>

\* The path is active already: nothing is rebuilt.
ReconcileAddActive(p) ==
  /\ AddLoopTakes(p)
  /\ next[p] # None
  /\ UNCHANGED <<next, path, handles, sockets, running, failed>>

\* Mutant: the add loop does not look whether the path is active.
BuildInstanceUnchecked(p, i) ==
  /\ AddLoopTakes(p)
  /\ path[i] = None
  /\ path' = [path EXCEPT ![i] = p]
  /\ handles' = handles \cup {i}
  /\ sockets' = sockets \cup ({i} \X Groups)
  /\ running' = running \cup ({i} \X Roles)
  /\ next' = [next EXCEPT ![p] = i]
  /\ UNCHANGED failed

\* buildInstance succeeds: handle and sockets are open, goroutines started,
\* before the instance is published.
BuildInstance(p, i) ==
  /\ AddLoopTakes(p)
  /\ next[p] = None
  /\ path[i] = None
  /\ path' = [path EXCEPT ![i] = p]
  /\ handles' = handles \cup {i}
  /\ sockets' = sockets \cup ({i} \X Groups)
  /\ running' = running \cup ({i} \X Roles)
  /\ next' = [next EXCEPT ![p] = i]
  /\ UNCHANGED failed

\* buildInstance fails and has closed what it had opened: only the log knows.
\* That is all but rawConn when a buffer size cannot be set, and a group's
\* connections when netns cannot leave the namespace again (multicast.go:164-179;
\* RollbackIsBounded in SocketSetup), which no instance owns.
BuildFails(p) ==
  /\ AddLoopTakes(p)
  /\ next[p] = None
  /\ failed' = failed \cup {p}
  /\ UNCHANGED <<next, path, handles, sockets, running>>

\* Mutant: the new map is not published.
StoreSnapshotForgotten ==
  /\ coord = "reconcile"
  /\ victim = None
  /\ pendingDel = {}
  /\ pendingAdd = {}
  /\ coord' = "select"
  /\ UNCHANGED <<callVars, pendingAdd, pendingDel, snap, timer, next, victim,
                 ctxDone, instVars, histVars>>

\* r.snap.Store, and back to the select.
StoreSnapshot ==
  /\ coord = "reconcile"
  /\ victim = None
  /\ pendingDel = {}
  /\ pendingAdd = {}
  /\ snap' = next
  /\ coord' = "select"
  /\ UNCHANGED <<callVars, pendingAdd, pendingDel, timer, next, victim,
                 ctxDone, instVars, histVars>>

----------------------------------------------------------------------------
(* Shutdown.                                                               *)

\* main cancels the context Run was given.
Cancel ==
  /\ ~ctxDone
  /\ ctxDone' = TRUE
  /\ UNCHANGED <<callVars, loopVars, snap, instVars, histVars>>

\* Mutant: coordinate returns without tearing anything down.
StartDrainReturns ==
  /\ coord = "select"
  /\ ctxDone
  /\ timer' = "nil"
  /\ coord' = "return"
  /\ next' = snap
  /\ UNCHANGED <<callVars, pendingAdd, pendingDel, snap, victim, ctxDone,
                 instVars, histVars>>

\* case <-ctx.Done(): the timer is stopped, pending intents are abandoned.
StartDrain ==
  /\ coord = "select"
  /\ ctxDone
  /\ timer' = "nil"
  /\ coord' = "drain"
  /\ next' = snap
  /\ UNCHANGED <<callVars, pendingAdd, pendingDel, snap, victim, ctxDone,
                 instVars, histVars>>

\* The range over the snapshot's instances tears down one at a time.
DrainOne(p) ==
  /\ coord = "drain"
  /\ victim = None
  /\ next[p] # None
  /\ BeginTeardown(next[p])
  /\ next' = [next EXCEPT ![p] = None]
  /\ UNCHANGED <<callVars, pendingAdd, pendingDel, timer, coord, snap, ctxDone,
                 path, handles, sockets, running, histVars>>

DrainDone ==
  /\ coord = "drain"
  /\ victim = None
  /\ \A p \in Paths : next[p] = None
  /\ coord' = "return"
  /\ UNCHANGED <<callVars, pendingAdd, pendingDel, timer, snap, next, victim,
                 ctxDone, instVars, histVars>>

----------------------------------------------------------------------------
\* A receive loop or a send worker returns: only when its context is done.
GoroutineExit(i, r) ==
  /\ <<i, r>> \in running
  /\ CtxDone(i)
  /\ running' = running \ {<<i, r>>}
  /\ UNCHANGED <<callVars, loopVars, snap, ctxDone, path, cancelled, handles,
                 sockets, histVars>>

CallerStep(c) == CallReturns(c) \/ CallCancelled(c)

\* One step of the coordinate goroutine.
CoordStep ==
  \/ \E c \in Callers : AcceptCmd(c)
  \/ StartReconcile
  \/ \E g \in Groups : TeardownCloseSocket(g)
  \/ TeardownFinish
  \/ \E p \in Paths : ReconcileRemove(p)
  \/ \E p \in Paths : ReconcileAddActive(p)
  \/ \E p \in Paths, i \in Insts : BuildInstance(p, i)
  \/ \E p \in Paths : BuildFails(p)
  \/ StoreSnapshot
  \/ StartDrain
  \/ \E p \in Paths : DrainOne(p)
  \/ DrainDone

\* Everything but the exits of the instances' goroutines.
ControlStep ==
  \/ \E c \in Callers, op \in Ops, p \in Paths : Call(c, op, p)
  \/ \E c \in Callers : CallerStep(c)
  \/ TimerFires
  \/ CoordStep
  \/ Cancel

CoordNext ==
  \/ ControlStep
  \/ \E i \in Insts, r \in Roles : GoroutineExit(i, r)

CoordSpec == CoordInit /\ [][CoordNext]_coordVars

----------------------------------------------------------------------------
(* Properties.                                                             *)

\* Instance i still holds something of its namespace.
Holds(i) ==
  \/ i \in handles
  \/ \E g \in Groups : <<i, g>> \in sockets
  \/ \E r \in Roles : <<i, r>> \in running

\* Two instances never hold the same path at once.  ListenMulticastUDP lets
\* several sockets share a group and port, so nothing but the order of
\* teardown and build in reconcile keeps an old and a new instance of a path
\* from both receiving, and relaying, every packet.
OneHolderPerPath ==
  \A i, j \in Insts :
    (i # j /\ path[i] # None /\ path[i] = path[j]) => ~(Holds(i) /\ Holds(j))

\* When coordinate returns, whatever reconciles the cancellation interrupted,
\* every handle and socket of every instance that was ever built is closed and
\* every goroutine is gone.  What a failed build may leave open (BuildFails) never
\* belonged to an instance.
NothingLeaked ==
  coord = "return" => handles = {} /\ sockets = {} /\ running = {}

\* The namespaces that ActiveNamespaces reports while coordinate is in its
\* select are exactly the instances that hold anything, each one whole: not
\* cancelled, handle and all sockets open, all goroutines up unless Run's
\* context is done.
SnapshotIsLive ==
  coord = "select" =>
    /\ \A i \in Insts : Holds(i) => \E p \in Paths : snap[p] = i
    /\ \A p \in Paths : snap[p] # None =>
         /\ path[snap[p]] = p
         /\ snap[p] \notin cancelled
         /\ snap[p] \in handles
         /\ {snap[p]} \X Groups \subseteq sockets
         /\ ctxDone \/ {snap[p]} \X Roles \subseteq running

\* An accepted intent is never stranded: while coordinate waits in its select
\* with something pending, the debounce timer that will apply it runs or has
\* fired, whether the last command created it or stopped and reset it.
IntentHasTimer ==
  coord = "select" /\ pendingAdd \cup pendingDel # {} => timer \in {"armed", "fired"}

\* However adds and removes were coalesced, the last accepted intent for a
\* path decides: once nothing is pending for it, it is active exactly if that
\* intent was an add whose build did not fail.
LastIntentWins ==
  coord = "select" =>
    \A p \in Paths \ (pendingAdd \cup pendingDel) :
      snap[p] # None <=> intent[p] = "add" /\ p \notin failed

\* An accepted intent is applied, replaced by a later one for the same path,
\* or overtaken by shutdown (MaxCalls ends every storm of calls, which could
\* otherwise reset the debounce timer forever).
IntentApplied ==
  \A p \in Paths :
    /\ (intent[p] = "remove") ~> (snap[p] = None \/ intent[p] = "add" \/ ctxDone)
    /\ (intent[p] = "add") ~>
         (snap[p] # None \/ p \in failed \/ intent[p] = "remove" \/ ctxDone)

\* The coordinator implements the specification its clients rely on.  Whatever
\* reconcile tears down and builds one step at a time, the list that clients
\* see changes in one publication, which drops what was removed, adds nothing
\* unasked for, and never loses a path that was active and is still wanted,
\* also when its add and remove were coalesced.
Promised == INSTANCE NamespaceSet WITH
  active <- {p \in Paths : snap[p] # None},
  closed <- coord \in {"drain", "return"}

ImplementsNamespaceSet == Promised!NSSpec

----------------------------------------------------------------------------
(* The inductive invariant behind the safety properties.                   *)

\* A call in progress carries its command.
CallsCarryCommands ==
  \A c \in Callers : caller[c].pc \in {"send", "wait"} =>
    caller[c].op \in Ops /\ caller[c].path \in Paths

\* Whatever is open or running belongs to an instance whose handle is open and
\* which coordinate can still reach: through next, or as the one in teardown.
HoldersAreKnown ==
  /\ \A i \in Insts, g \in Groups : <<i, g>> \in sockets => i \in handles
  /\ \A i \in Insts, r \in Roles : <<i, r>> \in running => i \in handles
  /\ \A i \in handles : path[i] \in Paths /\ (next[path[i]] = i \/ victim = i)
  /\ \A i \in cancelled : path[i] # None

\* An instance in next is whole.
ActiveIsWhole ==
  \A p \in Paths : next[p] # None =>
    /\ path[next[p]] = p
    /\ next[p] \notin cancelled
    /\ next[p] \in handles
    /\ \A g \in Groups : <<next[p], g>> \in sockets
    /\ ctxDone \/ \A r \in Roles : <<next[p], r>> \in running

\* The instance in teardown has left next, and only reconcile and the shutdown
\* branch tear down.
VictimIsLeaving ==
  victim # None =>
    /\ victim \in handles
    /\ victim \in cancelled
    /\ next[path[victim]] = None
    /\ coord \in {"reconcile", "drain"}

\* What next is in each phase of coordinate; the published map, stale or not,
\* only ever holds instances built for its keys.
PhaseOfNext ==
  /\ \A p \in Paths : snap[p] # None => path[snap[p]] = p
  /\ coord = "select" => next = snap
  /\ coord = "return" => victim = None /\ \A p \in Paths : next[p] = None

InstInv == HoldersAreKnown /\ ActiveIsWhole /\ VictimIsLeaving /\ PhaseOfNext

\* A pending path is in one of the two maps, according to its last intent; one
\* that is not pending has been dealt with.
IntentInv ==
  /\ pendingAdd \cap pendingDel = {}
  /\ \A p \in pendingAdd : intent[p] = "add" /\ p \notin failed
  /\ \A p \in pendingDel : intent[p] = "remove" /\ p \notin failed
  /\ coord \in {"select", "reconcile"} =>
       \A p \in Paths \ (pendingAdd \cup pendingDel) :
         next[p] # None <=> intent[p] = "add" /\ p \notin failed
  /\ IntentHasTimer

\* reconcile keeps what is published and still wanted.
WantedIsKept ==
  coord \in {"select", "reconcile"} =>
    \A p \in Paths : snap[p] # None /\ intent[p] = "add" => next[p] # None

CoordInv == CoordTypeOK /\ CallsCarryCommands /\ InstInv /\ IntentInv /\ WantedIsKept
============================================================================
