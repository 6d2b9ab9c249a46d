------------------------------- MODULE Relay -------------------------------
(***************************************************************************)
(* The data plane of internal/relay/relay.go on top of its control plane:  *)
(* the receive loops and the send worker of every instance, the broadcast  *)
(* goroutine and the bounded channels between them, while coordinate       *)
(* builds, publishes and tears instances down underneath.                  *)
(*                                                                         *)
(* A packet is what the loops tell apart: the order in which it was read,  *)
(* its group and its SourcePath.  Whether the middleware drops it is a     *)
(* free choice here; module LoopGuard models the decision.                 *)
(***************************************************************************)
EXTENDS Coordinator, Sequences, Functions

CONSTANTS
  ChannelBuffer,  \* capacity of broadcastCh and of every sendCh
  MaxPackets      \* bound on the packets read in a behaviour

Packet == [id : Nat, group : Groups, source : Paths]

ASSUME RelayAssumption ==
  /\ ChannelBuffer \in Nat \ {0}
  /\ MaxPackets \in Nat
  /\ None \notin Packet

VARIABLES
  rpc,          \* <<instance, group>> -> where its receive loop is
  rpkt,         \* <<instance, group>> -> the packet it holds, or None
  broadcastCh,
  bpc,          \* where broadcast is
  bpkt,         \* the packet broadcast is fanning out, or None
  todo,         \* instances of the loaded snapshot not yet visited
  dest,         \* instance that passed the checks, about to be sent to
  sendCh,       \* instance -> its queue
  wpkt,         \* instance -> packet its send worker is writing, or None
  arrivals,     \* packets read so far
  written       \* history: path -> packets written there, in order

dataVars == <<rpc, rpkt, broadcastCh, bpc, bpkt, todo, dest, sendCh, wpkt,
              arrivals, written>>
bcastVars == <<bpc, bpkt, todo, dest>>
vars == <<coordVars, dataVars>>

TypeOK ==
  /\ CoordTypeOK
  /\ rpc \in [Insts \X Groups -> {"check", "read", "push"}]
  /\ rpkt \in [Insts \X Groups -> Packet \cup {None}]
  /\ broadcastCh \in Seq(Packet)
  /\ bpc \in {"loop", "enqueue", "return"}
  /\ bpkt \in Packet \cup {None}
  /\ todo \subseteq Insts
  /\ dest \in Insts \cup {None}
  /\ sendCh \in [Insts -> Seq(Packet)]
  /\ wpkt \in [Insts -> Packet \cup {None}]
  /\ arrivals \in Nat
  /\ written \in [Paths -> Seq(Packet)]

DataInit ==
  /\ rpc = [x \in Insts \X Groups |-> "check"]
  /\ rpkt = [x \in Insts \X Groups |-> None]
  /\ broadcastCh = <<>>
  /\ bpc = "loop"
  /\ bpkt = None
  /\ todo = {}
  /\ dest = None
  /\ sendCh = [i \in Insts |-> <<>>]
  /\ wpkt = [i \in Insts |-> None]
  /\ arrivals = 0
  /\ written = [p \in Paths |-> <<>>]

Init == CoordInit /\ DataInit

----------------------------------------------------------------------------
(* receive: check the context, read, push.                                 *)

\* The context is not done: on to ReadFrom.
RecvCheck(i, g) ==
  /\ <<i, g>> \in running
  /\ rpc[<<i, g>>] = "check"
  /\ ~CtxDone(i)
  /\ rpc' = [rpc EXCEPT ![<<i, g>>] = "read"]
  /\ UNCHANGED <<coordVars, rpkt, broadcastCh, bcastVars, sendCh, wpkt,
                 arrivals, written>>

\* ReadFrom returns a packet.  It may still do so after the context is
\* cancelled, until teardown has closed the socket.
RecvRead(i, g) ==
  /\ <<i, g>> \in running
  /\ rpc[<<i, g>>] = "read"
  /\ <<i, g>> \in sockets
  /\ arrivals < MaxPackets
  /\ arrivals' = arrivals + 1
  /\ rpkt' = [rpkt EXCEPT ![<<i, g>>] =
                [id |-> arrivals + 1, group |-> g, source |-> path[i]]]
  /\ rpc' = [rpc EXCEPT ![<<i, g>>] = "push"]
  /\ UNCHANGED <<coordVars, broadcastCh, bcastVars, sendCh, wpkt, written>>

\* ReadFrom fails (read deadline, transient error) and the context is alive.
RecvTimeout(i, g) ==
  /\ <<i, g>> \in running
  /\ rpc[<<i, g>>] = "read"
  /\ ~CtxDone(i)
  /\ rpc' = [rpc EXCEPT ![<<i, g>>] = "check"]
  /\ UNCHANGED <<coordVars, rpkt, broadcastCh, bcastVars, sendCh, wpkt,
                 arrivals, written>>

\* case broadcastCh <- pkt
RecvPush(i, g) ==
  /\ <<i, g>> \in running
  /\ rpc[<<i, g>>] = "push"
  /\ Len(broadcastCh) < ChannelBuffer
  /\ broadcastCh' = Append(broadcastCh, rpkt[<<i, g>>])
  /\ rpkt' = [rpkt EXCEPT ![<<i, g>>] = None]
  /\ rpc' = [rpc EXCEPT ![<<i, g>>] = "check"]
  /\ UNCHANGED <<coordVars, bcastVars, sendCh, wpkt, arrivals, written>>

\* Mutant: the push does not watch the context.
RecvReturnNotInPush(i, g) ==
  /\ GoroutineExit(i, g)
  /\ rpc[<<i, g>>] # "push"
  /\ rpkt' = [rpkt EXCEPT ![<<i, g>>] = None]
  /\ rpc' = [rpc EXCEPT ![<<i, g>>] = "check"]
  /\ UNCHANGED <<broadcastCh, bcastVars, sendCh, wpkt, arrivals, written>>

\* Mutant: any failed read ends the loop.
RecvReturnOnError(i, g) ==
  /\ <<i, g>> \in running
  /\ running' = running \ {<<i, g>>}
  /\ rpkt' = [rpkt EXCEPT ![<<i, g>>] = None]
  /\ rpc' = [rpc EXCEPT ![<<i, g>>] = "check"]
  /\ UNCHANGED <<callVars, loopVars, snap, ctxDone, path, cancelled, handles,
                 sockets, histVars, broadcastCh, bcastVars, sendCh, wpkt,
                 arrivals, written>>

\* The three returns: at the top of the loop, after a failed read, and in the
\* push, where the packet is lost.
RecvReturn(i, g) ==
  /\ GoroutineExit(i, g)
  /\ rpkt' = [rpkt EXCEPT ![<<i, g>>] = None]
  /\ rpc' = [rpc EXCEPT ![<<i, g>>] = "check"]
  /\ UNCHANGED <<broadcastCh, bcastVars, sendCh, wpkt, arrivals, written>>

----------------------------------------------------------------------------
(* broadcast: in its select while it holds no packet, else in the range     *)
(* over the snapshot it loaded.                                             *)

\* Destinations left to visit with pkt, which goes out of scope after the last.
FanOut(pkt, left) ==
  /\ todo' = left
  /\ bpkt' = IF left = {} THEN None ELSE pkt

\* Mutant: removed paths stay in the map with a nil instance.
BroadcastTakeNilEntries ==
  /\ bpc = "loop" /\ bpkt = None
  /\ broadcastCh # <<>>
  /\ broadcastCh' = Tail(broadcastCh)
  /\ FanOut(Head(broadcastCh), {snap[p] : p \in Paths})
  /\ UNCHANGED <<coordVars, rpc, rpkt, bpc, dest, sendCh, wpkt, arrivals,
                 written>>

\* case pkt := <-r.broadcastCh, kept by the middleware: load the snapshot.
BroadcastTake ==
  /\ bpc = "loop" /\ bpkt = None
  /\ broadcastCh # <<>>
  /\ broadcastCh' = Tail(broadcastCh)
  /\ FanOut(Head(broadcastCh), {snap[p] : p \in Paths} \ {None})
  /\ UNCHANGED <<coordVars, rpc, rpkt, bpc, dest, sendCh, wpkt, arrivals,
                 written>>

\* pkt.Data == nil after middleware.Process: continue.
BroadcastDrop ==
  /\ bpc = "loop" /\ bpkt = None
  /\ broadcastCh # <<>>
  /\ broadcastCh' = Tail(broadcastCh)
  /\ UNCHANGED <<coordVars, rpc, rpkt, bcastVars, sendCh, wpkt, arrivals,
                 written>>

\* The source itself, or an instance whose context is done, is passed over.
BroadcastSkip(i) ==
  /\ bpc = "loop" /\ i \in todo
  /\ path[i] = bpkt.source \/ CtxDone(i)
  /\ FanOut(bpkt, todo \ {i})
  /\ UNCHANGED <<coordVars, rpc, rpkt, broadcastCh, bpc, dest, sendCh, wpkt,
                 arrivals, written>>

\* Mutant: the source is not passed over.
BroadcastVisitSource(i) ==
  /\ bpc = "loop" /\ i \in todo
  /\ ~CtxDone(i)
  /\ dest' = i
  /\ bpc' = "enqueue"
  /\ UNCHANGED <<coordVars, rpc, rpkt, broadcastCh, bpkt, todo, sendCh, wpkt,
                 arrivals, written>>

\* Both checks passed.  The context may still be cancelled before the send.
BroadcastVisit(i) ==
  /\ bpc = "loop" /\ i \in todo
  /\ path[i] # bpkt.source
  /\ ~CtxDone(i)
  /\ dest' = i
  /\ bpc' = "enqueue"
  /\ UNCHANGED <<coordVars, rpc, rpkt, broadcastCh, bpkt, todo, sendCh, wpkt,
                 arrivals, written>>

\* case inst.sendCh <- pkt
BroadcastEnqueue ==
  /\ bpc = "enqueue"
  /\ Len(sendCh[dest]) < ChannelBuffer
  /\ sendCh' = [sendCh EXCEPT ![dest] = Append(@, bpkt)]
  /\ FanOut(bpkt, todo \ {dest})
  /\ dest' = None
  /\ bpc' = "loop"
  /\ UNCHANGED <<coordVars, rpc, rpkt, broadcastCh, wpkt, arrivals, written>>

\* Mutant: a send without the default case.
BroadcastOverflowBlocks == FALSE

\* default: neither the queue nor the context was ready.
BroadcastOverflow ==
  /\ bpc = "enqueue"
  /\ Len(sendCh[dest]) >= ChannelBuffer
  /\ ~ctxDone
  /\ FanOut(bpkt, todo \ {dest})
  /\ dest' = None
  /\ bpc' = "loop"
  /\ UNCHANGED <<coordVars, rpc, rpkt, broadcastCh, sendCh, wpkt, arrivals,
                 written>>

\* case <-ctx.Done(), in the outer select or in the send: return.
BroadcastReturn ==
  /\ \/ bpc = "loop" /\ bpkt = None
     \/ bpc = "enqueue"
  /\ ctxDone
  /\ bpc' = "return"
  /\ dest' = None
  /\ FanOut(None, {})
  /\ UNCHANGED <<coordVars, rpc, rpkt, broadcastCh, sendCh, wpkt, arrivals,
                 written>>

----------------------------------------------------------------------------
(* The send worker.                                                        *)

\* Mutant: the packet is not taken off the queue.
WorkerTakePeeks(i) ==
  /\ <<i, Sender>> \in running
  /\ wpkt[i] = None
  /\ sendCh[i] # <<>>
  /\ wpkt' = [wpkt EXCEPT ![i] = Head(sendCh[i])]
  /\ UNCHANGED <<coordVars, rpc, rpkt, broadcastCh, bcastVars, sendCh, arrivals,
                 written>>

\* case pkt := <-inst.sendCh; every group has its socket in socketsByGroup.
WorkerTake(i) ==
  /\ <<i, Sender>> \in running
  /\ wpkt[i] = None
  /\ sendCh[i] # <<>>
  /\ wpkt' = [wpkt EXCEPT ![i] = Head(sendCh[i])]
  /\ sendCh' = [sendCh EXCEPT ![i] = Tail(@)]
  /\ UNCHANGED <<coordVars, rpc, rpkt, broadcastCh, bcastVars, arrivals, written>>

\* WriteToGroup succeeds on the socket of the packet's group.
WorkerWrite(i) ==
  /\ <<i, Sender>> \in running
  /\ wpkt[i] # None
  /\ <<i, wpkt[i].group>> \in sockets
  /\ written' = [written EXCEPT ![path[i]] = Append(@, wpkt[i])]
  /\ wpkt' = [wpkt EXCEPT ![i] = None]
  /\ UNCHANGED <<coordVars, rpc, rpkt, broadcastCh, bcastVars, sendCh, arrivals>>

\* WriteToGroup fails: the write deadline, or net.ErrClosed.
WorkerWriteFails(i) ==
  /\ <<i, Sender>> \in running
  /\ wpkt[i] # None
  /\ wpkt' = [wpkt EXCEPT ![i] = None]
  /\ UNCHANGED <<coordVars, rpc, rpkt, broadcastCh, bcastVars, sendCh, arrivals,
                 written>>

\* Mutant: the worker watches Run's context, not its instance's.
WorkerReturnOnRunCtx(i) ==
  /\ GoroutineExit(i, Sender)
  /\ wpkt[i] = None
  /\ ctxDone
  /\ UNCHANGED dataVars

\* case <-inst.ctx.Done(): what is left in the queue is never sent.
WorkerReturn(i) ==
  /\ GoroutineExit(i, Sender)
  /\ wpkt[i] = None
  /\ UNCHANGED dataVars

----------------------------------------------------------------------------
Receiver(i, g) ==
  \/ RecvCheck(i, g)
  \/ RecvRead(i, g)
  \/ RecvTimeout(i, g)
  \/ RecvPush(i, g)
  \/ RecvReturn(i, g)

Broadcast ==
  \/ BroadcastTake
  \/ BroadcastDrop
  \/ \E i \in Insts : BroadcastSkip(i)
  \/ \E i \in Insts : BroadcastVisit(i)
  \/ BroadcastEnqueue
  \/ BroadcastOverflow
  \/ BroadcastReturn

Worker(i) ==
  \/ WorkerTake(i)
  \/ WorkerWrite(i)
  \/ WorkerWriteFails(i)
  \/ WorkerReturn(i)

Next ==
  \/ ControlStep /\ UNCHANGED dataVars
  \/ \E i \in Insts, g \in Groups : Receiver(i, g)
  \/ Broadcast
  \/ \E i \in Insts : Worker(i)

Spec == Init /\ [][Next]_vars

\* Go runs every goroutine that can run, and every blocking operation of these
\* loops is bounded: reads and writes have deadlines, sends a second case.
GoFairness ==
  /\ WF_vars(CoordStep /\ UNCHANGED dataVars)
  /\ WF_vars(TimerFires /\ UNCHANGED dataVars)
  /\ WF_vars(Broadcast)
  /\ \A i \in Insts, g \in Groups : WF_vars(Receiver(i, g))

\* A send worker's writes end, by the write deadline at the latest.
WorkerFairness == \A i \in Insts : WF_vars(Worker(i))

FairSpec == Spec /\ GoFairness /\ WorkerFairness

----------------------------------------------------------------------------
(* Properties.                                                             *)

\* A packet is never written back into the namespace it came from, whatever
\* snapshot broadcast holds and however often that path was torn down and
\* rebuilt while the packet was queued.
NeverEchoed ==
  \A p \in Paths : \A n \in DOMAIN written[p] : written[p][n].source # p

\* A namespace gets the packets of one source and group in the order they
\* were read there, each at most once, also across a rebuild of either end.
InOrderAtMostOnce ==
  \A p \in Paths : \A m, n \in DOMAIN written[p] :
    (/\ m < n
     /\ written[p][m].source = written[p][n].source
     /\ written[p][m].group = written[p][n].group)
      => written[p][m].id < written[p][n].id

\* Once a removal is published (coordinate is back in its select and the path
\* is not in the snapshot) nothing is written to that namespace, though
\* packets for it may still sit in the old instance's queue and broadcast may
\* still hold the old snapshot.
RemovedIsSilent ==
  [][\A p \in Paths :
       coord = "select" /\ snap[p] = None => written'[p] = written[p]]_vars

\* Cancelling Run's context lets Run return: coordinate and broadcast end,
\* whatever the channels hold.
RunReturns == ctxDone ~> (coord = "return" /\ bpc = "return")

\* Broadcast, which every namespace depends on, can go on with the packet in
\* its hands whatever the queues hold and the workers do: a namespace whose
\* writes hang never holds up the others.  Each step leaves one destination
\* less, so every fan-out ends.
BroadcastNotBlocked == bpkt # None => ENABLED Broadcast

\* A reconcile ends: no teardown waits forever for a receive loop that is
\* blocked on a full broadcastCh.
ReconcileEnds == (coord = "reconcile") ~> (coord # "reconcile")

----------------------------------------------------------------------------
(* The inductive invariant behind NeverEchoed.                             *)

\* A receive loop that is pushing has a packet; so has broadcast while it has
\* destinations to visit.
LoopsHoldPackets ==
  /\ \A x \in Insts \X Groups : rpc[x] = "push" => rpkt[x] # None
  /\ todo # {} => bpkt # None

\* Broadcast only visits instances that were built, and has checked the one it
\* is about to send to.
DestinationChecked ==
  /\ \A i \in todo : path[i] # None
  /\ bpc = "enqueue" => dest \in todo /\ path[dest] # bpkt.source

\* No queue and no worker holds a packet of its own namespace; before it is
\* built an instance holds none at all.
QueuesAvoidSource ==
  \A i \in Insts :
    /\ path[i] = None => sendCh[i] = <<>> /\ wpkt[i] = None
    /\ \A n \in DOMAIN sendCh[i] : sendCh[i][n].source # path[i]
    /\ wpkt[i] # None => wpkt[i].source # path[i]

EchoInv ==
  /\ TypeOK
  /\ LoopsHoldPackets
  /\ DestinationChecked
  /\ QueuesAvoidSource
  /\ NeverEchoed

----------------------------------------------------------------------------
(* The inductive invariant behind InOrderAtMostOnce.                       *)

\* If k and l are of one source and group, k was read before l.
Before(k, l) == k.source = l.source /\ k.group = l.group => k.id < l.id

Ascending(s) == \A m, n \in DOMAIN s : m < n => Before(s[m], s[n])

\* What instance i has still to write.
Held(i) == Range(sendCh[i]) \cup ({wpkt[i]} \ {None})

\* What has got as far as the instances, old and new, of path p.
Reached(p) == Range(written[p]) \cup UNION {Held(i) : i \in {j \in Insts : path[j] = p}}

\* Everything broadcast has taken off its channel.
Taken ==
  ({bpkt} \ {None}) \cup (UNION {Range(written[p]) : p \in Paths})
                    \cup (UNION {Held(i) : i \in Insts})

\* A packet waits in a receive loop that runs, of the instance it was read from.
ReadersHoldTheirOwn ==
  \A i \in Insts, g \in Groups : rpkt[<<i, g>>] # None =>
    /\ <<i, g>> \in running
    /\ rpkt[<<i, g>>].source = path[i]
    /\ rpkt[<<i, g>>].group = g

\* Whatever is further up the pipeline was read later.
UpstreamIsLater ==
  /\ \A k \in Taken \cup Range(broadcastCh) : k.id <= arrivals
  /\ \A i \in Insts, g \in Groups : rpkt[<<i, g>>] # None =>
       /\ rpkt[<<i, g>>].id <= arrivals
       /\ \A k \in Taken \cup Range(broadcastCh) : Before(k, rpkt[<<i, g>>])
  /\ Ascending(broadcastCh)
  /\ \A k \in Taken, l \in Range(broadcastCh) : Before(k, l)

\* The snapshot broadcast visits has one instance of a path, and no instance of
\* that path, be it a newer one, has had the packet broadcast holds.
FanOutIsNew ==
  /\ \A i, j \in todo : path[i] = path[j] => i = j
  /\ \A i \in todo : \A k \in Reached(path[i]) : Before(k, bpkt)

\* A worker that runs has ahead of it only what is later than all that was
\* written to its namespace, by whichever instance.
WorkersAreInOrder ==
  \A i \in Insts : <<i, Sender>> \in running =>
    /\ Ascending(sendCh[i])
    /\ wpkt[i] # None => \A l \in Range(sendCh[i]) : Before(wpkt[i], l)
    /\ \A k \in Range(written[path[i]]), l \in Held(i) : Before(k, l)

OrderInv ==
  /\ ReadersHoldTheirOwn
  /\ UpstreamIsLater
  /\ FanOutIsNew
  /\ WorkersAreInOrder
  /\ InOrderAtMostOnce
============================================================================
