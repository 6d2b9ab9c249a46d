---------------------------- MODULE PodmanHook ----------------------------
(***************************************************************************)
(* contrib/podman: the OCI hook that registers a container at poststart    *)
(* and removes it at poststop, the systemd unit that restarts the relay,   *)
(* and the reconciler it runs after every start.  They meet in the relay's *)
(* registry of containers, which dies with the relay.                      *)
(*                                                                         *)
(* A request is one step: accepted and applied to the registry, or failed. *)
(* ControlServer has what the relay does with it (RegistryMatchesIntent).  *)
(***************************************************************************)
EXTENDS Integers, Sequences

CONSTANTS
  Containers,   \* annotated containers
  Pids,         \* PIDs, which stand for /proc/<pid>/ns/net
  None,
  MaxFailures,  \* bound on failures of requests, of Podman and of the wait
  MaxCrashes,   \* bound on the relay's crashes
  MaxRuns       \* bound on the starts of containers

ASSUME HookAssumption ==
  /\ None \notin Pids \cup Containers \cup [ctr : Containers, pid : Pids]
  /\ {MaxFailures, MaxCrashes, MaxRuns} \subseteq Nat

VARIABLES
  pid,      \* container -> its process, None if it does not run
  hooks,    \* container -> hook calls to make, in order: [op, pid]
  relay,    \* the service: "down", "starting" (not yet serving), "up"
  reg,      \* containerNamespaces: container -> registered PID or None
  rec,      \* the reconciler: "off", "wait", "each"
  toInspect,   \* containers it has yet to inspect
  put,      \* the request it is about to make: [ctr, pid], or None
  failed,   \* one of its requests failed
  failures, crashes, runs,
  lost,     \* history: containers whose last request, or whose inspection,
            \* failed on a serving relay
  crossed   \* history: containers whose last request fell between the
            \* reconciler's inspection of them and its PUT

counters == <<failures, crashes, runs>>
recVars == <<rec, toInspect, put, failed>>
hookVars == <<pid, hooks, relay, reg, recVars, counters, lost, crossed>>

\* The two requests a hook makes.
PutCall(n) == [op |-> "put", pid |-> n]
DeleteCall == [op |-> "delete", pid |-> None]
HookCall == [op : {"put", "delete"}, pid : Pids \cup {None}]

HookTypeOK ==
  /\ pid \in [Containers -> Pids \cup {None}]
  /\ hooks \in [Containers -> Seq(HookCall)]
  /\ relay \in {"down", "starting", "up"}
  /\ reg \in [Containers -> Pids \cup {None}]
  /\ rec \in {"off", "wait", "each"}
  /\ toInspect \subseteq Containers
  /\ put \in [ctr : Containers, pid : Pids] \cup {None}
  /\ failed \in BOOLEAN
  /\ lost \subseteq Containers
  /\ crossed \subseteq Containers

HookInit ==
  /\ pid = [c \in Containers |-> None]
  /\ hooks = [c \in Containers |-> <<>>]
  /\ relay = "down"
  /\ reg = [c \in Containers |-> None]
  /\ rec = "off"
  /\ toInspect = {}
  /\ put = None
  /\ failed = FALSE
  /\ failures = 0 /\ crashes = 0 /\ runs = 0
  /\ lost = {}
  /\ crossed = {}

\* Something fails once more.
Failure ==
  /\ failures < MaxFailures
  /\ failures' = failures + 1

----------------------------------------------------------------------------
(* Containers and their hooks.                                             *)

\* Podman starts a container whose last life is cleaned up.
PodmanStarts(c, n) ==
  /\ runs < MaxRuns
  /\ pid[c] = None
  /\ hooks[c] = <<>>
  /\ \A d \in Containers : pid[d] # n
  /\ pid' = [pid EXCEPT ![c] = n]
  /\ hooks' = [hooks EXCEPT ![c] = <<PutCall(n)>>]
  /\ runs' = runs + 1
  /\ UNCHANGED <<relay, reg, recVars, failures, crashes, lost, crossed>>

\* Its process ends, perhaps before the poststart hook is through.
PodmanStops(c) ==
  /\ pid[c] # None
  /\ pid' = [pid EXCEPT ![c] = None]
  /\ hooks' = [hooks EXCEPT ![c] = Append(@, DeleteCall)]
  /\ UNCHANGED <<relay, reg, recVars, counters, lost, crossed>>

\* PUT records the path, DELETE removes the entry.
RegisteredByHook(h) == IF h.op = "put" THEN h.pid ELSE None

\* The relay accepts the hook's request.
HookAccepted(c) ==
  /\ relay = "up"
  /\ hooks[c] # <<>>
  /\ hooks' = [hooks EXCEPT ![c] = Tail(@)]
  /\ reg' = [reg EXCEPT ![c] = RegisteredByHook(Head(hooks[c]))]
  /\ lost' = lost \ {c}
  /\ crossed' = IF put # None /\ put.ctr = c THEN crossed \cup {c} ELSE crossed \ {c}
  /\ UNCHANGED <<pid, relay, recVars, counters>>

\* The request fails, is logged, and not tried again: for certain while the
\* relay does not serve, and now and then when it does (curl --max-time).
HookFails(c) ==
  /\ hooks[c] # <<>>
  /\ hooks' = [hooks EXCEPT ![c] = Tail(@)]
  /\ \/ relay # "up" /\ UNCHANGED <<failures, lost>>
     \/ /\ relay = "up"
        /\ Failure
        /\ lost' = lost \cup {c}
  /\ UNCHANGED <<pid, relay, reg, recVars, crashes, runs, crossed>>

----------------------------------------------------------------------------
(* The service.                                                            *)

\* systemd starts the relay (Type=exec) and then ExecStartPost, which begins
\* in wait_for_apis.
UnitStarts ==
  /\ relay = "down"
  /\ relay' = "starting"
  /\ rec' = "wait"
  /\ failed' = FALSE
  /\ UNCHANGED <<pid, hooks, reg, toInspect, put, counters, lost, crossed>>

\* Process reaches its serving state.
RelayServes ==
  /\ relay = "starting"
  /\ relay' = "up"
  /\ UNCHANGED <<pid, hooks, reg, recVars, counters, lost, crossed>>

\* The service stops: the registry and the reconciler are gone, and with them
\* what went wrong before.
Stops ==
  /\ relay' = "down"
  /\ reg' = [c \in Containers |-> None]
  /\ rec' = "off"
  /\ toInspect' = {}
  /\ put' = None
  /\ lost' = {}
  /\ crossed' = {}
  /\ UNCHANGED <<pid, hooks, failed, runs>>

RelayCrashes ==
  /\ relay # "down"
  /\ crashes < MaxCrashes
  /\ crashes' = crashes + 1
  /\ Stops
  /\ UNCHANGED failures

----------------------------------------------------------------------------
(* reconcile-podman.sh.                                                    *)

\* Mutant: the containers are listed without waiting for the relay.
ApisReadyAtOnce == TRUE

\* wait_for_apis: healthz answers.
ApisReady == relay = "up"

\* containers="$(podman_api '/containers/json?all=false')"
ReconcilerLists ==
  /\ rec = "wait"
  /\ ApisReady
  /\ rec' = "each"
  /\ toInspect' = {c \in Containers : pid[c] # None}
  /\ UNCHANGED <<pid, hooks, relay, reg, put, failed, counters, lost, crossed>>

\* No API after RECONCILE_ATTEMPTS, or no list: the unit fails and is restarted.
ReconcilerGivesUp ==
  /\ rec = "wait"
  /\ Failure
  /\ Stops
  /\ UNCHANGED crashes

\* What inspecting a container yields: one that no longer runs is skipped.
FoundRunning(c) == IF pid[c] # None THEN [ctr |-> c, pid |-> pid[c]] ELSE None

\* One container of the list is inspected.  When that fails, the container is
\* taken for one that has gone.
ReconcilerInspects(c) ==
  /\ rec = "each"
  /\ put = None
  /\ c \in toInspect
  /\ toInspect' = toInspect \ {c}
  /\ \/ put' = FoundRunning(c) /\ UNCHANGED <<failures, lost>>
     \/ Failure /\ put' = None /\ lost' = lost \cup {c}
  /\ UNCHANGED <<pid, hooks, relay, reg, rec, failed, crashes, runs, crossed>>

\* relay_api PUT of what was found; a failure is counted and the loop goes on.
ReconcilerPuts ==
  /\ put # None
  /\ put' = None
  /\ \/ /\ relay = "up"
        /\ reg' = [reg EXCEPT ![put.ctr] = put.pid]
        /\ UNCHANGED <<failed, failures>>
     \/ /\ Failure
        /\ failed' = TRUE
        /\ UNCHANGED reg
  /\ UNCHANGED <<pid, hooks, relay, rec, toInspect, crashes, runs, lost, crossed>>

\* The loop is over: success, or a failed unit, which systemd stops and starts
\* again (Restart=on-failure).
ReconcilerEnds ==
  /\ rec = "each" /\ toInspect = {} /\ put = None
  /\ IF failed
       THEN Stops /\ UNCHANGED <<failures, crashes>>
       ELSE rec' = "off" /\ UNCHANGED <<pid, hooks, relay, reg, toInspect, put,
                                        failed, counters, lost, crossed>>

HookNext ==
  \/ \E c \in Containers, n \in Pids : PodmanStarts(c, n)
  \/ \E c \in Containers : PodmanStops(c) \/ HookAccepted(c) \/ HookFails(c)
  \/ UnitStarts
  \/ RelayServes
  \/ RelayCrashes
  \/ ReconcilerLists
  \/ ReconcilerGivesUp
  \/ \E c \in Containers : ReconcilerInspects(c)
  \/ ReconcilerPuts
  \/ ReconcilerEnds

HookSpec == HookInit /\ [][HookNext]_hookVars

----------------------------------------------------------------------------
(* Properties.                                                             *)

\* The service is up, its reconciler through, and the container's hooks too.
Settled(c) == relay = "up" /\ rec = "off" /\ hooks[c] = <<>>

\* However containers come and go while the relay crashes and recovers, the
\* registry then has exactly the running containers, each with its current PID:
\* none is forgotten because it started while the relay was down or while the
\* reconciler was listing.  The exceptions are, since the relay last started, a
\* container whose own last request or inspection failed, and one whose last
\* request crossed the reconciler's PUT.
RegistryFollowsContainers ==
  \A c \in Containers : Settled(c) /\ c \notin lost \cup crossed => reg[c] = pid[c]

----------------------------------------------------------------------------
(* The inductive invariant behind RegistryFollowsContainers.               *)

\* The calls a container's hooks have yet to make fit the life it is in: the
\* PUT of its process while that runs, the DELETE last once it has ended.
HooksFollowLife ==
  \A c \in Containers :
    IF pid[c] # None
      THEN hooks[c] = <<>> \/ hooks[c] = <<PutCall(pid[c])>>
      ELSE \/ hooks[c] = <<>> \/ hooks[c] = <<DeleteCall>>
           \/ \E n \in Pids : hooks[c] = <<PutCall(n), DeleteCall>>

\* The reconciler lives within the service: it waits from the start on, and
\* works through its list only while the relay serves.  A relay that does not
\* serve knows no container.
ReconcilerFollowsService ==
  /\ relay = "down" => rec = "off"
  /\ relay = "starting" => rec = "wait"
  /\ rec # "each" => toInspect = {} /\ put = None
  /\ rec = "wait" => ~failed
  /\ relay # "up" => /\ \A c \in Containers : reg[c] = None
                     /\ lost = {} /\ crossed = {}

\* The reconciler will still come to the container, or bring down the unit.
ReconcilerOwes(c) ==
  \/ rec = "wait"
  \/ rec = "each" /\ (failed \/ c \in toInspect \/ (put # None /\ put.ctr = c))

\* Once its hooks are through, a container is registered as it is, or the
\* reconciler owes that and the container runs; what it is about to PUT is then
\* still the container's PID.
RegisteredOrOwed ==
  relay = "up" =>
    \A c \in Containers \ (lost \cup crossed) : hooks[c] = <<>> =>
      /\ reg[c] = pid[c] \/ (pid[c] # None /\ ReconcilerOwes(c))
      /\ put # None /\ put.ctr = c => put.pid = pid[c]

HookInv ==
  /\ HookTypeOK
  /\ HooksFollowLife
  /\ ReconcilerFollowsService
  /\ RegisteredOrOwed
============================================================================
