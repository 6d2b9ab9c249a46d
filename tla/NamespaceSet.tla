---------------------------- MODULE NamespaceSet ----------------------------
(***************************************************************************)
(* What the relay promises to a client of its control API: a set of active *)
(* namespaces that follows the last accepted intent for each path.  Module *)
(* Coordinator is shown to implement this specification, and Watcher       *)
(* builds on it.                                                           *)
(***************************************************************************)
CONSTANT Paths   \* namespace paths

VARIABLES
  intent,   \* path -> the last accepted intent for it: none, add or remove
  active,   \* the paths that GET /v1/namespaces lists
  closed    \* the coordinator is shutting down

nsVars == <<intent, active, closed>>

Adds == {p \in Paths : intent[p] = "add"}

NSInit ==
  /\ intent = [p \in Paths |-> "none"]
  /\ active = {}
  /\ closed = FALSE

\* A command is taken while the coordinator serves.
Accept(p, op) ==
  /\ ~closed
  /\ intent' = [intent EXCEPT ![p] = op]
  /\ UNCHANGED <<active, closed>>

\* One atomic publication: what was removed is gone, nothing appears that was
\* not asked for, and what was active and is still wanted stays.  A path that
\* was asked for may be missing, since its build may fail.
Apply ==
  /\ ~closed
  /\ active' \in SUBSET Adds
  /\ active \cap Adds \subseteq active'
  /\ UNCHANGED <<intent, closed>>

Close ==
  /\ ~closed
  /\ closed' = TRUE
  /\ UNCHANGED <<intent, active>>

NSNext ==
  \/ \E p \in Paths, op \in {"add", "remove"} : Accept(p, op)
  \/ Apply
  \/ Close

NSSpec == NSInit /\ [][NSNext]_nsVars
============================================================================
