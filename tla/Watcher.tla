------------------------------ MODULE Watcher ------------------------------
(***************************************************************************)
(* scripts/watch_podman_relay.sh: the watcher that keeps the relay's       *)
(* namespaces in sync with the labelled Podman containers, over the        *)
(* relay's control API as NamespaceSet promises it.                        *)
(*                                                                         *)
(* A container is here the path of its first process: it exists while the  *)
(* container runs, and the PID may be used again later.  Time is abstract: *)
(* the periodic resync may come whenever the main loop sleeps.             *)
(***************************************************************************)
EXTENDS Integers, NamespaceSet

CONSTANTS
  Faults,     \* which of "podman", "get", "post", "build", "relay", "monitor" may fail
  MaxFaults,  \* bound on the failures of a behaviour
  MaxStarts   \* bound on the containers started in a behaviour

ASSUME WatcherAssumption ==
  /\ Faults \subseteq {"podman", "get", "post", "build", "relay", "monitor"}
  /\ MaxFaults \in Nat
  /\ MaxStarts \in Nat

VARIABLES
  pending,  \* the relay's pendingAdd: asked for since its last publication
  live,     \* paths of the labelled containers that run
  starts,   \* containers started so far
  pc,       \* where the script is
  listed,   \* container_ids not inspected yet
  desired,  \* desired_set
  current,  \* current_set
  event,    \* the event monitor: starting, idle, pending (a line to read), ended
  flag,     \* the event flag file exists
  first,    \* this is the initial reconcile, which set -e ends on a failure
  faults,   \* failures so far
  seen,     \* history: live when it was last listed
  missed,   \* history: nobody could have noticed a change since then
  steady    \* history: paths of containers that this reconcile has listed, that
            \* have run since, and that Podman did not fail to inspect

podmanVars == <<live, starts, event, missed, steady>>
scriptVars == <<pc, listed, desired, current, flag, first, seen>>
relayVars == <<nsVars, pending>>
vars == <<relayVars, podmanVars, scriptVars, faults>>

TypeOK ==
  /\ intent \in [Paths -> {"none", "add", "remove"}]
  /\ active \subseteq Paths /\ closed \in BOOLEAN
  /\ pending \subseteq Paths
  /\ live \subseteq Paths
  /\ starts \in 0..MaxStarts
  /\ pc \in {"list", "inspect", "add", "remove", "loop", "exit"}
  /\ event \in {"starting", "idle", "pending", "ended"}
  /\ listed \subseteq Paths /\ desired \subseteq Paths /\ current \subseteq Paths
  /\ flag \in BOOLEAN /\ first \in BOOLEAN /\ missed \in BOOLEAN
  /\ faults \in 0..MaxFaults
  /\ seen \subseteq Paths /\ steady \subseteq Paths

Init ==
  /\ NSInit
  /\ pending = {}
  /\ live = {}
  /\ starts = 0
  /\ pc = "list"
  /\ listed = {} /\ desired = {} /\ current = {}
  /\ event = "starting"
  /\ flag = FALSE
  /\ first = TRUE
  /\ faults = 0
  /\ seen = {}
  /\ missed = FALSE
  /\ steady = {}

\* This kind of thing goes wrong once more.
Fault(kind) ==
  /\ kind \in Faults
  /\ faults < MaxFaults
  /\ faults' = faults + 1

----------------------------------------------------------------------------
(* Podman and the relay.                                                   *)

MonitorUp == event \in {"idle", "pending"}

\* A container starts or stops, and podman events reports it.
Changes(l) ==
  /\ live' = l
  /\ event' = IF MonitorUp THEN "pending" ELSE event
  /\ missed' = (missed \/ ~MonitorUp)
  /\ steady' = steady \cap l
  /\ UNCHANGED <<relayVars, scriptVars, faults>>

ContainerStarts(p) ==
  /\ p \notin live
  /\ starts < MaxStarts
  /\ starts' = starts + 1
  /\ Changes(live \cup {p})

ContainerStops(p) ==
  /\ p \in live
  /\ Changes(live \ {p})
  /\ UNCHANGED starts

\* The coordinator publishes a new set.  Of the paths it was asked for since the
\* last one it builds those that exist, unless a build fails; pendingAdd is empty
\* then, so an add whose build failed is forgotten.
RelayApplies ==
  /\ Apply
  /\ active' \ active \subseteq pending \cap live
  /\ \/ pending \cap live \subseteq active' /\ UNCHANGED faults
     \/ Fault("build")
  /\ pending' = {}
  /\ UNCHANGED <<podmanVars, scriptVars>>

\* The relay is restarted and knows no namespaces.
RelayRestarts ==
  /\ Fault("relay")
  /\ intent' = [p \in Paths |-> "none"]
  /\ active' = {}
  /\ pending' = {}
  /\ UNCHANGED <<closed, podmanVars, scriptVars>>

\* start_event_monitor runs in the background: podman events comes up some
\* time after the script has started, and nothing restarts it when it ends.
MonitorConnects ==
  /\ event = "starting"
  /\ event' = "idle"
  /\ UNCHANGED <<relayVars, live, starts, missed, steady, scriptVars, faults>>

MonitorEnds ==
  /\ MonitorUp
  /\ Fault("monitor")
  /\ event' = "ended"
  /\ missed' = (missed \/ event = "pending")
  /\ UNCHANGED <<relayVars, live, starts, steady, scriptVars>>

\* A line is read: the flag file is created.
MonitorFlags ==
  /\ event = "pending"
  /\ event' = "idle"
  /\ flag' = TRUE
  /\ UNCHANGED <<relayVars, live, starts, missed, steady, pc, listed, desired, current,
                 first, seen, faults>>

----------------------------------------------------------------------------
(* The main loop and reconcile_once.                                       *)

\* reconcile_once is called.
Reconcile ==
  /\ pc = "loop"
  /\ pc' = "list"
  /\ UNCHANGED <<relayVars, podmanVars, listed, desired, current, first, seen, faults>>

\* The flag is found, and removed before the reconcile.
OnEvent == Reconcile /\ flag /\ flag' = FALSE

\* Mutant: there is no periodic resync.
OnResyncNever == FALSE /\ UNCHANGED vars

\* RESYNC_INTERVAL has passed; a flag that came up meanwhile stays.
OnResync == Reconcile /\ UNCHANGED flag

\* discover_labeled_container_ids: what podman ps lists, and what podman network
\* inspect says of each labelled network.  A command that fails lists nothing,
\* and the script goes on with what the others did.
List ==
  /\ pc = "list"
  /\ pc' = "inspect"
  /\ \/ /\ listed' = live
        /\ seen' = live
        /\ steady' = live
        /\ missed' = FALSE
        /\ UNCHANGED faults
     \/ /\ Fault("podman")
        /\ listed' \in SUBSET live
        /\ missed' = TRUE
        /\ steady' = listed'
        /\ UNCHANGED seen
  /\ UNCHANGED <<relayVars, live, starts, event, desired, current, flag, first>>

\* podman inspect of one container, and the test that its path exists.
Inspect(p) ==
  /\ pc = "inspect"
  /\ p \in listed
  /\ listed' = listed \ {p}
  /\ \/ desired' = desired \cup ({p} \cap live) /\ UNCHANGED <<faults, steady>>
     \/ Fault("podman") /\ steady' = steady \ {p} /\ UNCHANGED desired
  /\ UNCHANGED <<relayVars, live, starts, event, missed, pc, current, flag, first, seen>>

\* relay_get_namespaces; a failure in the process substitution goes unnoticed.
Get ==
  /\ pc = "inspect"
  /\ listed = {}
  /\ pc' = "add"
  /\ \/ current' = active /\ UNCHANGED faults
     \/ Fault("get") /\ current' = {}
  /\ UNCHANGED <<relayVars, podmanVars, listed, desired, flag, first, seen>>

\* The relay accepts a command.
Command(p, op) ==
  /\ Accept(p, op)
  /\ pending' = IF op = "add" THEN pending \cup {p} ELSE pending \ {p}

\* One POST: it is accepted, or curl fails, before the relay has accepted the
\* command or after; then the initial reconcile ends the script.
Post(p, op) ==
  \/ Command(p, op) /\ UNCHANGED <<pc, faults>>
  \/ /\ Fault("post")
     /\ Command(p, op) \/ UNCHANGED relayVars
     /\ pc' = IF first THEN "exit" ELSE pc

\* The first loop: what is desired and not current.
AddOne(p) ==
  /\ pc = "add"
  /\ p \in desired \ current
  /\ Post(p, "add")
  /\ current' = current \cup {p}
  /\ UNCHANGED <<podmanVars, listed, desired, flag, first, seen>>

\* Mutant: the second loop takes what was listed by GET, desired or not.
SurplusAll == current

\* What is current and not desired.
Surplus == current \ desired

\* The second loop.
RemoveOne(p) ==
  /\ pc = "remove"
  /\ p \in Surplus
  /\ Post(p, "remove")
  /\ current' = current \ {p}
  /\ UNCHANGED <<podmanVars, listed, desired, flag, first, seen>>

AddsDone ==
  /\ pc = "add"
  /\ desired \subseteq current
  /\ pc' = "remove"
  /\ UNCHANGED <<relayVars, podmanVars, listed, desired, current, flag, first,
                 seen, faults>>

\* Mutant: the flag is removed after the reconcile.
FlagAfterReconcileRemoved == FALSE

\* An event during the reconcile keeps its flag.
FlagAfterReconcile == flag

\* reconcile_once returns; the sets are its local variables.
ReconcileDone ==
  /\ pc = "remove"
  /\ Surplus = {}
  /\ pc' = "loop"
  /\ first' = FALSE
  /\ flag' = FlagAfterReconcile
  /\ desired' = {} /\ current' = {} /\ steady' = {}
  /\ UNCHANGED <<relayVars, live, starts, event, missed, listed, seen, faults>>

Script ==
  \/ OnEvent
  \/ OnResync
  \/ List
  \/ \E p \in Paths : Inspect(p) \/ AddOne(p) \/ RemoveOne(p)
  \/ Get
  \/ AddsDone
  \/ ReconcileDone

Next ==
  \/ \E p \in Paths : ContainerStarts(p) \/ ContainerStops(p)
  \/ RelayApplies
  \/ RelayRestarts
  \/ MonitorConnects \/ MonitorEnds \/ MonitorFlags
  \/ Script

Spec == Init /\ [][Next]_vars

\* The script runs on, and the relay applies what it accepted (IntentApplied in
\* Coordinator); containers, failures and the monitor are the environment's.
Fairness ==
  /\ WF_vars(Script)
  /\ WF_vars(RelayApplies)

FairSpec == Spec /\ Fairness

----------------------------------------------------------------------------
(* Properties.                                                             *)

\* A reconcile never removes a container that has run since it listed the
\* containers, however the two listings, the commands and the relay's own delay
\* interleave with other containers; unless Podman failed to list or inspect it.
RunningIsNotRemoved ==
  [][\A p \in steady : intent'[p] = "remove" => intent[p] = "remove"]_vars

\* While the monitor is up, a change that the last listing did not see has left
\* an event or the flag behind: the main loop will not sleep over it.
NoEventLost == pc = "loop" => seen = live \/ missed \/ flag \/ event = "pending"

\* Once containers stop changing, the relay's set becomes and stays the set of
\* the running containers' paths, whatever failed on the way, also after the relay
\* was restarted and when a PID came into use again; unless the very first
\* reconcile failed and ended the script.
Converges == <>[](active = live) \/ <>(pc = "exit")

----------------------------------------------------------------------------
(* The inductive invariant behind NoEventLost and RunningIsNotRemoved.     *)

\* From the listing on, through the reconcile as well as in the loop, a change
\* it did not see is accounted for.  Only between the removal of the flag and
\* the listing is it not.
ChangesAreNoticed ==
  pc # "list" => seen = live \/ missed \/ flag \/ event = "pending"

\* A container that this reconcile has listed and that runs on is still to be
\* inspected or desired, and desired when the commands are sent.
SteadyIsDesired ==
  /\ steady \subseteq live
  /\ pc = "inspect" => steady \subseteq listed \cup desired
  /\ pc \in {"add", "remove"} => steady \subseteq desired

WatcherInv ==
  /\ TypeOK
  /\ ChangesAreNoticed
  /\ SteadyIsDesired
============================================================================
