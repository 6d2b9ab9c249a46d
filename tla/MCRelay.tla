------------------------------ MODULE MCRelay ------------------------------
(* Model of Relay for TLC. *)
EXTENDS Relay, TLC

\* Paths, callers and instances are interchangeable in every action and in
\* every invariant.
Symmetry == Permutations(Paths) \cup Permutations(Callers) \cup Permutations(Insts)

\* The state of Spec in which the initial namespaces (one call each) have been
\* accepted, built and published and no packet was read yet.
ActiveInit ==
  \E at \in {f \in [Paths -> Insts] : \A p, q \in Paths : p # q => f[p] # f[q]} :
    LET built == {at[p] : p \in Paths} IN
    /\ caller = [c \in Callers |-> Outcome("ok")]
    /\ calls = Cardinality(Paths)
    /\ pendingAdd = {} /\ pendingDel = {}
    /\ timer = "nil"
    /\ coord = "select"
    /\ snap = at
    /\ next = at
    /\ victim = None
    /\ ctxDone = FALSE
    /\ path = [i \in Insts |-> IF i \in built THEN CHOOSE p \in Paths : at[p] = i
                                              ELSE None]
    /\ cancelled = {}
    /\ handles = built
    /\ sockets = built \X Groups
    /\ running = built \X Roles
    /\ intent = [p \in Paths |-> "add"]
    /\ failed = {}
    /\ DataInit

ActiveSpec == ActiveInit /\ [][Next]_vars

\* The run that leaves shutdown to the other one.
NotCancelled == ~ctxDone
============================================================================
