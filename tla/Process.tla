------------------------------ MODULE Process ------------------------------
(***************************************************************************)
(* The life of the relay process (run in cmd/relay/main.go): flags, the    *)
(* control socket (NewUnixServer, removeStaleSocket, Server.Run), the      *)
(* initial namespaces, signals, the wait for the relay and the server,     *)
(* and the exit status systemd acts on; for several processes that use one *)
(* socket path, any of which may be killed at any moment.                  *)
(*                                                                         *)
(* The relay itself is kept only as running or done (Coordinator), and of  *)
(* the API server only whether it serves (ControlServer): not its requests *)
(* and not the goroutine in which Shutdown waits for them.  Neither holds  *)
(* up Serve or Run, so main may exit while they are still at work.         *)
(***************************************************************************)
EXTENDS Integers, FiniteSets

CONSTANTS
  Procs,      \* processes started on the same socket path
  Flags,      \* command lines, see FlagType
  None,       \* no file
  Other,      \* a file that is not a socket
  NInitial,   \* initial namespaces (--ns)
  MaxStarts   \* bound on the starts of a behaviour

\* What Parse looks at: --ns and --group arguments that are acceptable, the
\* form of the socket path, the timeout, the octal mode and the group name.
FlagType == [args : BOOLEAN, socket : {"none", "relative", "absolute"},
             timeout : Int, mode : Nat, group : {"none", "known", "unknown"}]

ASSUME ProcessAssumption ==
  /\ Flags \subseteq FlagType
  /\ None \notin Procs /\ Other \notin Procs /\ None # Other
  /\ NInitial \in Nat /\ MaxStarts \in Nat

VARIABLES
  proc,       \* process -> its state, see ProcState
  file,       \* what is at the socket path: None, Other, or whose socket
  listening,  \* processes with an open listener
  starts      \* starts so far

vars == <<proc, file, listening, starts>>

\* Where main is before it waits for ctx.Done().
StartUp == {"check", "stat", "dial", "remove", "bind", "perm", "add"}

ProcState ==
  [pc : StartUp \cup {"down", "wait", "failed"},
   flags : FlagType \cup {None},
   relay : {"none", "running", "done"},
   server : {"none", "serving", "closed", "broken", "done"},
   cause : {"none", "signal", "config", "system", "in use", "leftover", "server"},
   left : 0..NInitial,
   exit : {"none", "ok", "error", "killed"}]

TypeOK ==
  /\ proc \in [Procs -> ProcState]
  /\ file \in Procs \cup {None, Other}
  /\ listening \subseteq Procs
  /\ starts \in 0..MaxStarts

Down == [pc |-> "down", flags |-> None, relay |-> "none", server |-> "none",
         cause |-> "none", left |-> 0, exit |-> "none"]

Init ==
  /\ proc = [p \in Procs |-> Down]
  /\ file \in {None, Other}
  /\ listening = {}
  /\ starts = 0

At(p, pc) == proc[p].pc = pc
Goto(p, pc) == proc' = [proc EXCEPT ![p].pc = pc]

\* cancel(cause): the first one decides, cancel(nil) is the signal's.
Cause(p, why) == IF proc[p].cause = "none" THEN why ELSE proc[p].cause
Cancelled(p) == proc[p].cause # "none"

----------------------------------------------------------------------------
(* config.Parse and the checks of NewUnixServer.                           *)

\* Mutant: a mode with bits beyond the permissions is accepted.
ParsedModeUnbounded(mode) == mode # 0

\* parseSocketMode: non-zero and at most 0o777.
ParsedMode(mode) == mode \in 1..511

Parses(f) ==
  /\ f.args
  /\ f.socket # "relative"
  /\ f.timeout > 0
  /\ ParsedMode(f.mode)

\* The same values as NewUnixServer checks them, and the group it looks up.
ServerAccepts(f) ==
  /\ f.socket = "absolute"
  /\ f.timeout > 0
  /\ f.mode # 0 /\ f.mode = f.mode % 512
  /\ f.group # "unknown"

\* contrib/podman/README.md: an instance is stopped before another is started on
\* its socket; a second start meets at most one that is up and stays up, unless
\* it is killed.
Settled(p) == At(p, "wait") /\ proc[p].server = "serving" /\ ~Cancelled(p)
MayStart(p) == \A q \in Procs \ {p} : At(q, "down") \/ Settled(q)
MayStop(p) == \A q \in Procs \ {p} : proc[q].pc \notin StartUp

\* run: Parse, relay.New and the goroutine of r.Run; a bad command line ends
\* the process before anything is started.
Start(p, f) ==
  /\ At(p, "down")
  /\ starts < MaxStarts
  /\ MayStart(p)
  /\ starts' = starts + 1
  /\ proc' = [proc EXCEPT ![p] =
       IF Parses(f)
         THEN [Down EXCEPT !.pc = "check", !.flags = f, !.relay = "running", !.left = NInitial]
         ELSE [Down EXCEPT !.exit = "error"]]
  /\ UNCHANGED <<file, listening>>

----------------------------------------------------------------------------
(* NewUnixServer.                                                          *)

\* NewUnixServer returns an error: main cancels and only waits for the relay.
Fail(p, why) ==
  proc' = [proc EXCEPT ![p].pc = "failed", ![p].cause = Cause(p, why)]

Check(p) ==
  /\ At(p, "check")
  /\ \/ proc[p].flags.socket = "none" /\ Goto(p, "add")
     \/ ServerAccepts(proc[p].flags) /\ Goto(p, "stat")
     \/ /\ proc[p].flags.socket # "none" /\ ~ServerAccepts(proc[p].flags)
        /\ Fail(p, "config")
  /\ UNCHANGED <<file, listening, starts>>

\* A system call fails for a reason outside this model (permissions, memory).
SystemCallFails(p) ==
  /\ proc[p].pc \in {"stat", "dial", "remove", "bind"}
  /\ Fail(p, "system")
  /\ UNCHANGED <<file, listening, starts>>

\* removeStaleSocket: os.Stat and the test for a socket.
Stat(p) ==
  /\ At(p, "stat")
  /\ \/ file = None /\ Goto(p, "bind")
     \/ file \in Procs /\ Goto(p, "dial")
     \/ file = Other /\ Fail(p, "system")
  /\ UNCHANGED <<file, listening, starts>>

\* Mutant: the probe takes every socket for a stale one.
isActiveNever == FALSE

\* isActiveUnixSocket: nobody listens, or the file has gone: inactive.
isActive == file \in listening

Dial(p) ==
  /\ At(p, "dial")
  /\ IF isActive THEN Fail(p, "in use") ELSE Goto(p, "remove")
  /\ UNCHANGED <<file, listening, starts>>

\* Mutant: an inactive socket is left where it is.
AfterRemoveKept == file

\* os.Remove of the stale socket leaves nothing at the path.
AfterRemove == None

RemoveStale(p) ==
  /\ At(p, "remove")
  /\ IF file = None THEN Fail(p, "leftover") ELSE Goto(p, "bind")
  /\ file' = AfterRemove
  /\ UNCHANGED <<listening, starts>>

\* net.Listen refuses a path that exists.
Bind(p) ==
  /\ At(p, "bind")
  /\ IF file # None
       THEN Fail(p, "leftover") /\ UNCHANGED <<file, listening>>
       ELSE /\ Goto(p, "perm")
            /\ file' = p
            /\ listening' = listening \cup {p}
  /\ UNCHANGED starts

\* os.Chown and os.Chmod; then Run is started.  When one fails the listener is
\* closed, which unlinks the path, and the path is removed once more.
Permissions(p) ==
  /\ At(p, "perm")
  /\ \/ /\ proc' = [proc EXCEPT ![p].pc = "add", ![p].server = "serving"]
        /\ UNCHANGED <<file, listening>>
     \/ /\ Fail(p, "system")
        /\ file' = None
        /\ listening' = listening \ {p}
  /\ UNCHANGED starts

----------------------------------------------------------------------------
(* The initial namespaces, and the goroutines main started.                *)

\* for _, nsPath := range cfg.InitialNamespaces
MoreInitial(p) == proc[p].left > 0

\* AddNamespace hands one path to the coordinator, which serves until it is
\* cancelled and may still take a command then.
AddInitial(p) ==
  /\ At(p, "add")
  /\ MoreInitial(p)
  /\ proc[p].relay = "running"
  /\ proc' = [proc EXCEPT ![p].left = @ - 1]
  /\ UNCHANGED <<file, listening, starts>>

\* Mutant: only the loop's end leads on, whatever happened to the context.
AddsOverAtEnd(p) == ~MoreInitial(p)

\* The loop ends, or AddNamespace returned the context's error and it breaks.
AddsOver(p) == ~MoreInitial(p) \/ Cancelled(p)

AddsDone(p) ==
  /\ At(p, "add")
  /\ AddsOver(p)
  /\ Goto(p, "wait")
  /\ UNCHANGED <<file, listening, starts>>

\* SIGINT or SIGTERM reaches the signal goroutine: cancel(nil).
Signal(p) ==
  /\ proc[p].pc \notin {"down", "failed"}
  /\ ~Cancelled(p)
  /\ MayStop(p)
  /\ proc' = [proc EXCEPT ![p].cause = "signal"]
  /\ UNCHANGED <<file, listening, starts>>

\* r.Run: coordinate and broadcast return once ctx is done (Relay).
RelayReturns(p) ==
  /\ proc[p].relay = "running"
  /\ Cancelled(p)
  /\ proc' = [proc EXCEPT ![p].relay = "done"]
  /\ UNCHANGED <<file, listening, starts>>

\* Shutdown, or Serve's own failure, closes the listener, which unlinks
\* whatever is at its path.  Serve returns at that; Shutdown goes on to wait for
\* requests in flight, in a goroutine that nobody waits for.
ListenerCloses(p, how) ==
  /\ proc[p].server = "serving"
  /\ proc' = [proc EXCEPT ![p].server = how]
  /\ file' = None
  /\ listening' = listening \ {p}
  /\ UNCHANGED starts

Shutdown(p) == Cancelled(p) /\ ListenerCloses(p, "closed")
ServeFails(p) == MayStop(p) /\ ListenerCloses(p, "broken")

\* os.Remove(s.socketPath), whose failure is only logged; then Run returns, and
\* a failure of Serve, not ErrServerClosed, cancels.
ServerReturns(p) ==
  /\ proc[p].server \in {"closed", "broken"}
  /\ proc' = [proc EXCEPT ![p].server = "done",
                ![p].cause = IF proc[p].server = "broken" THEN Cause(p, "server") ELSE @]
  /\ file' \in {None, file}
  /\ UNCHANGED <<listening, starts>>

\* Mutant: the error path does not wait for the relay.
WaitedFailFast(p) ==
  At(p, "failed") \/ (proc[p].relay = "done" /\ proc[p].server \in {"none", "done"})

\* wg.Wait(): r.Run and controlServer.Run have returned.  The group holds nothing
\* else, neither Shutdown nor the handlers.
Waited(p) == proc[p].relay = "done" /\ proc[p].server \in {"none", "done"}

\* run returns: an error from start-up, or context.Cause.
Exit(p) ==
  /\ At(p, "failed") \/ (At(p, "wait") /\ Cancelled(p))
  /\ Waited(p)
  /\ proc' = [proc EXCEPT ![p].pc = "down",
                ![p].exit = IF At(p, "wait") /\ proc[p].cause = "signal" THEN "ok" ELSE "error"]
  /\ UNCHANGED <<file, listening, starts>>

\* The process is killed: the kernel closes the listener, and the socket file
\* stays.
Kill(p) ==
  /\ ~At(p, "down")
  /\ proc' = [proc EXCEPT ![p] = [Down EXCEPT !.exit = "killed"]]
  /\ listening' = listening \ {p}
  /\ UNCHANGED <<file, starts>>

\* A step of main.
Main(p) ==
  \/ Check(p) \/ Stat(p) \/ Dial(p) \/ RemoveStale(p) \/ Bind(p) \/ Permissions(p)
  \/ AddInitial(p) \/ AddsDone(p) \/ Exit(p)

Next ==
  \E p \in Procs :
    \/ \E f \in Flags : Start(p, f)
    \/ Main(p)
    \/ SystemCallFails(p)
    \/ Signal(p)
    \/ RelayReturns(p)
    \/ Shutdown(p)
    \/ ServeFails(p)
    \/ ServerReturns(p)
    \/ Kill(p)

Spec == Init /\ [][Next]_vars

\* The goroutines of a process keep running; starts, signals, kills and the
\* failures of system calls are up to the environment.
Fairness ==
  \A p \in Procs :
    /\ WF_vars(Main(p))
    /\ WF_vars(RelayReturns(p))
    /\ WF_vars(Shutdown(p))
    /\ WF_vars(ServerReturns(p))

FairSpec == Spec /\ Fairness

----------------------------------------------------------------------------
(* Properties.                                                             *)

\* A server that serves is the one clients reach: the socket file at the path
\* is its own, whoever was killed, restarted or refused before.
ServerReachable ==
  \A p \in Procs : proc[p].server = "serving" /\ ~Cancelled(p) => file = p

\* No start fails because of what an earlier instance left at the path, no
\* matter where in its life that one was killed.
LeftoversDoNotBlock == \A p \in Procs : proc[p].cause # "leftover"

\* A command line that Parse accepts is not refused by NewUnixServer after the
\* relay was started, except for a group the system does not know.
ParsedFlagsSuffice ==
  \A p \in Procs : proc[p].cause = "config" => proc[p].flags.group = "unknown"

\* When run has returned, also early, with an error, the relay has returned and
\* torn its namespaces down, the listener is closed, and the socket file the
\* process served at is gone.  Requests in flight are not waited for: the exit of
\* the process cuts off their handlers.
ExitIsClean ==
  \A p \in Procs : proc[p].exit \in {"ok", "error"} =>
    /\ proc[p].relay # "running"
    /\ p \notin listening
    /\ proc[p].server = "done" => file # p

\* A start ends: main waits with everything it was asked to do handed over, or
\* the process is down.  And a process that is cancelled, by a signal or by a
\* failure and wherever main is, exits.
StartsAndStopsEnd ==
  \A p \in Procs :
    /\ proc[p].pc \in StartUp ~> proc[p].pc \in {"wait", "down"}
    /\ Cancelled(p) ~> At(p, "down")

----------------------------------------------------------------------------
(* The inductive invariant behind the safety properties.                   *)

\* While a process starts, every other one is down or up for good.
StartsAlone ==
  \A p \in Procs : proc[p].pc \in StartUp =>
    \A q \in Procs \ {p} : At(q, "down") \/ Settled(q)

\* The server is started after its listener was made, main exits after the
\* server has returned, and a listener is open from Bind on until the server
\* or the failed start closes it.
ServerFollowsMain ==
  \A p \in Procs :
    /\ proc[p].pc \in (StartUp \ {"add"}) \cup {"failed"} => proc[p].server = "none"
    /\ At(p, "down") => proc[p].server \in {"none", "done"} /\ proc[p].relay # "running"
    /\ proc[p].exit # "none" => At(p, "down")
    /\ p \in listening <=> At(p, "perm") \/ proc[p].server = "serving"

\* Process p may change what is at the path: it replaces a stale socket, or its
\* listener is, or was, there.
Claims(p) ==
  proc[p].pc \in {"remove", "bind", "perm"} \/ proc[p].server \in {"serving", "closed", "broken"}

OneClaims == \A p, q \in Procs : Claims(p) /\ Claims(q) => p = q

\* What is at the path is what each process takes to be there.
PathIsAsExpected ==
  \A p \in Procs :
    /\ p \in listening => file = p
    /\ proc[p].pc \in {"dial", "remove"} => file \in Procs
    /\ At(p, "bind") => file = None
    /\ proc[p].server \in {"closed", "broken", "done"} => file # p

FlagsAreParsed ==
  \A p \in Procs : At(p, "check") => proc[p].flags \in FlagType /\ Parses(proc[p].flags)

ProcessInv ==
  /\ TypeOK
  /\ StartsAlone
  /\ ServerFollowsMain
  /\ OneClaims
  /\ PathIsAsExpected
  /\ FlagsAreParsed
  /\ LeftoversDoNotBlock
  /\ ParsedFlagsSuffice
============================================================================
