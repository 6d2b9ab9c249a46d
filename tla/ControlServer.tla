--------------------------- MODULE ControlServer ---------------------------
(***************************************************************************)
(* The mutating handlers of internal/control/server.go over the relay's    *)
(* coordinator.  Every request is served by a goroutine of its own, which  *)
(* is a caller of AddNamespace and RemoveNamespace.  The PUT and DELETE    *)
(* handlers of a container hold containerMu across their calls, whatever   *)
(* the coordinator is doing meanwhile, and keep containerNamespaces.       *)
(*                                                                         *)
(* Clients are taken to behave as the OCI hook does: a path of a container *)
(* (/proc/<pid>/ns/net) belongs to no other container and is not given to  *)
(* the POST endpoints.                                                     *)
(***************************************************************************)
EXTENDS Coordinator

CONSTANTS
  Containers,   \* container IDs
  Own,          \* container -> the paths it may register
  MaxRequests   \* bound on the requests in a behaviour

OwnPaths == UNION {Own[c] : c \in Containers}

ASSUME ServerAssumption ==
  /\ Own \in [Containers -> SUBSET Paths]
  /\ \A c, d \in Containers : c # d => Own[c] \cap Own[d] = {}
  /\ None \notin Callers
  /\ MaxRequests \in Nat

VARIABLES
  handler,              \* request goroutine -> [pc, id, path]
  requests,             \* requests received so far
  containerMu,          \* the request that holds the mutex, or None
  containerNamespaces,  \* container -> its registered path, or None
  doubt                 \* history: containers with a request that failed

handlerVars == <<handler, requests, containerMu, containerNamespaces, doubt>>
serverVars == <<coordVars, handlerVars>>

Idle == [pc |-> "idle", id |-> None, path |-> None]

ServerTypeOK ==
  /\ CoordTypeOK
  /\ handler \in [Callers -> [pc : {"idle", "post", "put", "putRemove", "putAdd",
                                    "delete", "deleteRemove"},
                              id : Containers \cup {None},
                              path : Paths \cup {None}]]
  /\ requests \in Nat
  /\ containerMu \in Callers \cup {None}
  /\ containerNamespaces \in [Containers -> Paths \cup {None}]
  /\ doubt \subseteq Containers

ServerInit ==
  /\ CoordInit
  /\ handler = [r \in Callers |-> Idle]
  /\ requests = 0
  /\ containerMu = None
  /\ containerNamespaces = [c \in Containers |-> None]
  /\ doubt = {}

----------------------------------------------------------------------------
\* A request reaches its handler.
Receive(r) ==
  /\ handler[r].pc = "idle"
  /\ requests < MaxRequests
  /\ requests' = requests + 1

\* The handler writes its response (202 if it ends without a failure) and
\* returns.
Respond(r) == handler' = [handler EXCEPT ![r] = Idle]

\* The container ID, the body or the path is not acceptable: 400 or 413, and
\* nothing is touched.
BadRequest(r) ==
  /\ Receive(r)
  /\ Respond(r)
  /\ UNCHANGED <<coordVars, containerMu, containerNamespaces, doubt>>

\* POST /v1/namespaces/add and /remove: the call is made with no lock held.
Post(r, op, p) ==
  /\ Receive(r)
  /\ Call(r, op, p)
  /\ handler' = [handler EXCEPT ![r] = [pc |-> "post", id |-> None, path |-> p]]
  /\ UNCHANGED <<containerMu, containerNamespaces, doubt>>

\* The controller call of request r has returned.
Returned(r) == caller[r].pc \in {"ok", "err"}

PostReturns(r) ==
  /\ handler[r].pc = "post"
  /\ Returned(r)
  /\ Respond(r)
  /\ UNCHANGED <<coordVars, requests, containerMu, containerNamespaces, doubt>>

----------------------------------------------------------------------------
(* PUT and DELETE /v1/containers/{id}/namespace.                           *)

\* The request is valid; its handler goes on to containerMu.Lock().
Put(r, c, p) ==
  /\ Receive(r)
  /\ handler' = [handler EXCEPT ![r] = [pc |-> "put", id |-> c, path |-> p]]
  /\ UNCHANGED <<coordVars, containerMu, containerNamespaces, doubt>>

Delete(r, c) ==
  /\ Receive(r)
  /\ handler' = [handler EXCEPT ![r] = [pc |-> "delete", id |-> c, path |-> None]]
  /\ UNCHANGED <<coordVars, containerMu, containerNamespaces, doubt>>

\* Mutant: the handlers take no lock.
LockNot(r) == containerMu' = containerMu

\* The mutex does not know the request's context: a request that timed out
\* while it waited still takes it.
Lock(r) ==
  /\ containerMu = None
  /\ containerMu' = r

\* The path registered for the container of request r.
Registered(r) == containerNamespaces[handler[r].id]

\* A different path is registered: remove that one first.
PutLocksAndRemovesOld(r) ==
  /\ handler[r].pc = "put"
  /\ Lock(r)
  /\ Registered(r) \notin {None, handler[r].path}
  /\ Call(r, "remove", Registered(r))
  /\ handler' = [handler EXCEPT ![r].pc = "putRemove"]
  /\ UNCHANGED <<requests, containerNamespaces, doubt>>

\* No path, or the same one, is registered.
PutLocksAndAdds(r) ==
  /\ handler[r].pc = "put"
  /\ Lock(r)
  /\ Registered(r) \in {None, handler[r].path}
  /\ Call(r, "add", handler[r].path)
  /\ handler' = [handler EXCEPT ![r].pc = "putAdd"]
  /\ UNCHANGED <<requests, containerNamespaces, doubt>>

\* The old path's removal was accepted: add the new path.
PutRemovedOld(r) ==
  /\ handler[r].pc = "putRemove"
  /\ caller[r].pc = "ok"
  /\ Call(r, "add", handler[r].path)
  /\ handler' = [handler EXCEPT ![r].pc = "putAdd"]
  /\ UNCHANGED <<requests, containerMu, containerNamespaces, doubt>>

PutAdded(r) ==
  /\ handler[r].pc = "putAdd"
  /\ caller[r].pc = "ok"
  /\ containerNamespaces' = [containerNamespaces EXCEPT ![handler[r].id] = handler[r].path]
  /\ containerMu' = None
  /\ Respond(r)
  /\ UNCHANGED <<coordVars, requests, doubt>>

\* DELETE of an ID that is not registered is an accepted no-op.
DeleteUnknown(r) ==
  /\ handler[r].pc = "delete"
  /\ containerMu = None
  /\ Registered(r) = None
  /\ Respond(r)
  /\ UNCHANGED <<coordVars, requests, containerMu, containerNamespaces, doubt>>

\* A path is registered: remove it under the lock.
DeleteLocksAndRemoves(r) ==
  /\ handler[r].pc = "delete"
  /\ Lock(r)
  /\ Registered(r) # None
  /\ Call(r, "remove", Registered(r))
  /\ handler' = [handler EXCEPT ![r].pc = "deleteRemove"]
  /\ UNCHANGED <<requests, containerNamespaces, doubt>>

DeleteRemoved(r) ==
  /\ handler[r].pc = "deleteRemove"
  /\ caller[r].pc = "ok"
  /\ containerNamespaces' = [containerNamespaces EXCEPT ![handler[r].id] = None]
  /\ containerMu' = None
  /\ Respond(r)
  /\ UNCHANGED <<coordVars, requests, doubt>>

\* Mutant: the error path keeps the mutex.
CallFailedKeepsLock(r) ==
  /\ handler[r].pc \in {"putRemove", "putAdd", "deleteRemove"}
  /\ caller[r].pc = "err"
  /\ doubt' = doubt \cup {handler[r].id}
  /\ Respond(r)
  /\ UNCHANGED <<coordVars, requests, containerMu, containerNamespaces>>

\* A controller call under the lock failed: 500, and the registry is left as
\* it was, whatever the coordinator has accepted of the request.
CallFailed(r) ==
  /\ handler[r].pc \in {"putRemove", "putAdd", "deleteRemove"}
  /\ caller[r].pc = "err"
  /\ containerMu' = None
  /\ doubt' = doubt \cup {handler[r].id}
  /\ Respond(r)
  /\ UNCHANGED <<coordVars, requests, containerNamespaces>>

----------------------------------------------------------------------------
Arrive(r) ==
  \/ BadRequest(r)
  \/ \E op \in Ops, p \in Paths \ OwnPaths : Post(r, op, p)
  \/ \E c \in Containers : \E p \in Own[c] : Put(r, c, p)
  \/ \E c \in Containers : Delete(r, c)

Handle(r) ==
  \/ PostReturns(r)
  \/ PutLocksAndRemovesOld(r)
  \/ PutLocksAndAdds(r)
  \/ PutRemovedOld(r)
  \/ PutAdded(r)
  \/ DeleteUnknown(r)
  \/ DeleteLocksAndRemoves(r)
  \/ DeleteRemoved(r)
  \/ CallFailed(r)

\* The relay's own steps; calls are made by the handlers only.
RelayStep ==
  /\ \/ \E c \in Callers : CallerStep(c)
     \/ TimerFires
     \/ CoordStep
     \/ Cancel
     \/ \E i \in Insts, r \in Roles : GoroutineExit(i, r)
  /\ UNCHANGED handlerVars

ServerNext ==
  \/ \E r \in Callers : Arrive(r) \/ Handle(r)
  \/ RelayStep

ServerSpec == ServerInit /\ [][ServerNext]_serverVars

----------------------------------------------------------------------------
(* Properties.                                                             *)

\* While nobody holds containerMu, what was accepted for a container's paths
\* is what containerNamespaces says, however its PUTs and DELETEs interleaved:
\* the registered path is to be active and no other.  A request that failed
\* leaves the container in doubt.
RegistryMatchesIntent ==
  containerMu = None =>
    \A c \in Containers \ doubt : \A p \in Own[c] :
      intent[p] = "add" <=> containerNamespaces[c] = p

\* Once everything accepted is applied, GET /v1/namespaces lists of the
\* containers' paths exactly the registered ones whose build did not fail.
ListMatchesRegistry ==
  containerMu = None /\ coord = "select" /\ pendingAdd \cup pendingDel = {} =>
    \A c \in Containers \ doubt : \A p \in Own[c] :
      snap[p] # None <=> containerNamespaces[c] = p /\ p \notin failed

\* No request waits for the coordinator or for a lock nobody will release: a
\* handler can take its next step, or end its call by its context's timeout, or
\* it waits for containerMu and the request that holds that one can.  As every
\* such step brings a request closer to its answer, all are answered even if
\* the coordinator is busy for long or gone.
NoRequestStuck ==
  LET CanStep(r) == ENABLED (Handle(r) \/ (CallerStep(r) /\ UNCHANGED handlerVars)) IN
  \A r \in Callers : handler[r].pc # "idle" =>
    \/ CanStep(r)
    \/ containerMu \in Callers \ {r} /\ handler[containerMu].pc # "idle" /\ CanStep(containerMu)

\* README.md: registering under the container ID "allows `poststop` to remove
\* the registration even though its OCI state no longer contains the PID".
\* That is: when the DELETE of a container with no other request under way is
\* accepted, none of its paths is left with an accepted add.
DeleteRemoves ==
  [][\A r \in Callers, c \in Containers :
       (/\ DeleteUnknown(r) \/ DeleteRemoved(r)
        /\ handler[r].id = c
        /\ \A s \in Callers \ {r} : handler[s].id # c)
         => \A p \in Own[c] : intent'[p] # "add"]_serverVars

----------------------------------------------------------------------------
(* The inductive invariant behind RegistryMatchesIntent.                   *)

Locked == {"putRemove", "putAdd", "deleteRemove"}

\* A request knows its container and its path, and makes a call only where its
\* handler waits for one, with the command that goes with the handler's place.
RequestsAreInOrder ==
  \A r \in Callers :
    /\ handler[r].pc \in {"put", "putRemove", "putAdd", "delete", "deleteRemove"} =>
         handler[r].id \in Containers
    /\ handler[r].pc \in {"put", "putRemove", "putAdd"} =>
         handler[r].path \in Own[handler[r].id]
    /\ handler[r].pc \in {"putRemove", "deleteRemove"} => Registered(r) # None
    /\ caller[r].pc \in {"send", "wait"} =>
         \/ handler[r].pc = "post" /\ caller[r].path \notin OwnPaths
         \/ /\ handler[r].pc \in {"putRemove", "deleteRemove"}
            /\ caller[r].op = "remove" /\ caller[r].path = Registered(r)
         \/ /\ handler[r].pc = "putAdd"
            /\ caller[r].op = "add" /\ caller[r].path = handler[r].path

\* containerMu is held by the request that is between its lock and its answer.
MutexHeldByLocked == \A r \in Callers : handler[r].pc \in Locked <=> containerMu = r

\* A container is registered with one of its own paths.
RegistersOwn == \A c \in Containers : containerNamespaces[c] \in Own[c] \cup {None}

\* Request r is in its critical section for container c.
InSection(r, c) == containerMu = r /\ handler[r].id = c

Matches(c) == \A p \in Own[c] : intent[p] = "add" <=> containerNamespaces[c] = p

\* What was accepted agrees with the registry, except for the container of the
\* request in its critical section: there it follows the calls made so far.
IntentFollowsHandlers ==
  \A c \in Containers \ doubt :
    /\ (\A r \in Callers : ~InSection(r, c)) => Matches(c)
    /\ \A r \in Callers : InSection(r, c) =>
         /\ handler[r].pc \in {"putRemove", "deleteRemove"} /\ caller[r].pc = "send" =>
              Matches(c)
         /\ handler[r].pc \in {"putRemove", "deleteRemove"} /\ caller[r].pc \in {"wait", "ok"} =>
              \A p \in Own[c] : intent[p] # "add"
         /\ handler[r].pc = "putAdd" =>
              \A p \in Own[c] \ {handler[r].path} : intent[p] # "add"
         /\ handler[r].pc = "putAdd" /\ caller[r].pc \in {"wait", "ok"} =>
              intent[handler[r].path] = "add"

ServerInv ==
  /\ ServerTypeOK
  /\ RequestsAreInOrder
  /\ MutexHeldByLocked
  /\ RegistersOwn
  /\ IntentFollowsHandlers
============================================================================
