---------------------------- MODULE LoopBarriers ----------------------------
(***************************************************************************)
(* The relay's two loop barriers at work on a network.  Receive loops with *)
(* the echo suppression of their sockets, broadcast with the loop guard,   *)
(* and the send workers exchange packets with network segments that        *)
(* several of the relayed namespaces may share, so that what one of them   *)
(* writes another one reads.                                               *)
(*                                                                         *)
(* Both barriers look at the payload and the group only, so packets with   *)
(* different ones do not meet in them: this module follows one payload in  *)
(* one group.  Other traffic shows only as delay.  The barriers' maps are  *)
(* kept as the time their entry has left, in ticks.  Relay, LoopGuard and  *)
(* MulticastSocket have the parts in detail.                               *)
(***************************************************************************)
EXTENDS Integers, Sequences, FiniteSets, SequencesExt

CONSTANTS
  Paths,           \* the active instances
  Links,           \* path -> the segments of its usable interfaces
  ClientSegments,  \* the segments that clients which send the payload are on
  Window,          \* DefaultLoopGuardWindow
  selfEchoWindow,
  ChannelBuffer,
  MaxDelay,        \* bound on a packet's way from a pass, or a client, to the guard
  Gap,             \* least time between two sends of the payload by clients
  MaxSends         \* bound on the clients' sends

\* What is sent on one of these segments reaches the path's socket.
SegmentsOf(p) == ToSet(Links[p])

ASSUME BarrierAssumption ==
  /\ \A p \in Paths : Links[p] \in Seq(SegmentsOf(p)) /\ Len(Links[p]) > 0
  /\ {Window, selfEchoWindow, ChannelBuffer} \subseteq Nat \ {0}
  /\ {MaxDelay, Gap, MaxSends} \subseteq Nat

VARIABLES
  inbox,     \* path -> copies in its socket's buffer: their ages
  bcast,     \* broadcastCh and, after it, who waits to send on it: [src, age] of each packet
  sendq,     \* path -> packets in its sendCh: their ages
  mark,      \* path -> time left of the payload's entry in recentTx
  guard,     \* time left of the payload's entry in g.seen
  since,     \* time since a client's last send, up to Gap
  sends,     \* history: sends by clients
  passes     \* history: packets the guard let through

vars == <<inbox, bcast, sendq, mark, guard, since, sends, passes>>

TypeOK ==
  /\ inbox \in [Paths -> Seq(0..MaxDelay)]
  /\ bcast \in Seq([src : Paths, age : 0..MaxDelay])
  /\ sendq \in [Paths -> Seq(0..MaxDelay)]
  /\ \A p \in Paths : Len(sendq[p]) <= ChannelBuffer
  /\ mark \in [Paths -> 0..selfEchoWindow]
  /\ guard \in 0..Window
  /\ since \in 0..Gap
  /\ sends \in 0..MaxSends
  /\ passes \in Nat

Init ==
  /\ inbox = [p \in Paths |-> <<>>]
  /\ bcast = <<>>
  /\ sendq = [p \in Paths |-> <<>>]
  /\ mark = [p \in Paths |-> 0]
  /\ guard = 0
  /\ since = Gap
  /\ sends = 0
  /\ passes = 0

\* Multicast on these segments, one packet each: every socket on a segment
\* gets a copy, the sender's own included (IP_MULTICAST_LOOP).
Copies(p, segments) == Cardinality({i \in DOMAIN segments : segments[i] \in SegmentsOf(p)})
Repeat(age, n) == [i \in 1..n |-> age]
Deliver(segments, age) ==
  inbox' = [p \in Paths |-> inbox[p] \o Repeat(age, Copies(p, segments))]

\* A client on this segment sends the payload, again perhaps.
ClientSends(s) ==
  /\ sends < MaxSends
  /\ since = Gap
  /\ since' = 0
  /\ sends' = sends + 1
  /\ Deliver(<<s>>, 0)
  /\ UNCHANGED <<bcast, sendq, mark, guard, passes>>

\* A send on a channel with this content does not block.
HasRoom(q) == Len(q) < ChannelBuffer

isSelfEcho(p) == mark[p] > 0

\* The channel is full and this receive loop waits with a packet it has checked.
\* Go serves blocked senders in the order they came, so theirs are the packets
\* after the first ChannelBuffer.
Blocked(p) == \E i \in DOMAIN bcast : i > ChannelBuffer /\ bcast[i].src = p

\* ReadFrom discards a self-echo and reads on; the receive loop hands anything
\* else to broadcastCh.
Receive(p) ==
  /\ inbox[p] # <<>>
  /\ ~Blocked(p)
  /\ IF isSelfEcho(p)
       THEN UNCHANGED bcast
       ELSE bcast' = Append(bcast, [src |-> p, age |-> Head(inbox[p])])
  /\ inbox' = [inbox EXCEPT ![p] = Tail(@)]
  /\ UNCHANGED <<sendq, mark, guard, since, sends, passes>>

\* Mutant: a packet that passes leaves no entry.
GuardForgets == 0

\* The entry LoopGuard.Process stores for a packet that passes.
GuardEntry == Window

\* broadcast drops what the guard has seen, and hands a packet that passes to
\* every path but the source's, except where the queue is full.
Broadcast ==
  /\ bcast # <<>>
  /\ bcast' = Tail(bcast)
  /\ IF guard > 0
       THEN UNCHANGED <<sendq, guard, passes>>
       ELSE /\ guard' = GuardEntry
            /\ passes' = passes + 1
            /\ sendq' = [p \in Paths |->
                 IF p # Head(bcast).src /\ HasRoom(sendq[p])
                   THEN Append(sendq[p], 0)
                   ELSE sendq[p]]
  /\ UNCHANGED <<inbox, mark, since, sends>>

\* WriteToGroup: mark, then a copy on every interface, and before those, if the
\* socket has a raw connection, one that preserves the source on every interface.
\* One step here; MulticastSocket lets echoes come in between mark and copies.
Write(p) ==
  /\ sendq[p] # <<>>
  /\ sendq' = [sendq EXCEPT ![p] = Tail(@)]
  /\ mark' = [mark EXCEPT ![p] = selfEchoWindow]
  /\ \E raw \in {<<>>, Links[p]} : Deliver(raw \o Links[p], Head(sendq[p]))
  /\ UNCHANGED <<bcast, guard, since, sends, passes>>

\* A queue of ages one tick later, and whether it may get that old.
Older(q) == [i \in DOMAIN q |-> q[i] + 1]
NotOverdue(q) == \A i \in DOMAIN q : q[i] < MaxDelay

\* Mutant: entries do not expire.
LessStays(n) == n

\* A tick less of an entry's life.
Less(n) == IF n > 0 THEN n - 1 ELSE 0

\* Time passes, while nothing is overdue.
Tick ==
  /\ \A i \in DOMAIN bcast : bcast[i].age < MaxDelay
  /\ \A p \in Paths : NotOverdue(inbox[p]) /\ NotOverdue(sendq[p])
  /\ inbox' = [p \in Paths |-> Older(inbox[p])]
  /\ bcast' = [i \in DOMAIN bcast |-> [bcast[i] EXCEPT !.age = @ + 1]]
  /\ sendq' = [p \in Paths |-> Older(sendq[p])]
  /\ mark' = [p \in Paths |-> Less(mark[p])]
  /\ guard' = Less(guard)
  /\ since' = IF since < Gap THEN since + 1 ELSE since
  /\ UNCHANGED <<sends, passes>>

Next ==
  \/ \E s \in ClientSegments : ClientSends(s)
  \/ \E p \in Paths : Receive(p)
  \/ Broadcast
  \/ \E p \in Paths : Write(p)
  \/ Tick

Spec == Init /\ [][Next]_vars

----------------------------------------------------------------------------
(* Properties.                                                             *)

\* No packet is under way.
Quiet == bcast = <<>> /\ \A p \in Paths : inbox[p] = <<>> /\ sendq[p] = <<>>

\* No copy the relay wrote, and no second copy of what a client sent, fans out
\* again, whichever networks the namespaces share and however the workers are
\* scheduled, as long as copies are back at the guard within its window.
NoSecondFanOut == passes <= sends

\* Retransmissions stay visible: every send that comes at least Gap after the
\* one before is relayed, not taken for an echo or a copy of the last one.
EverySendRelayed == Quiet => passes >= sends

----------------------------------------------------------------------------
(* The inductive invariants behind the two properties, and what they ask of *)
(* the windows.                                                            *)

\* A copy is back at the guard before the guard's entry expires.
CopiesReturnInTime == MaxDelay < Window

\* Clients send the payload again after both barriers have forgotten it: the
\* last send may pass MaxDelay later, and be written MaxDelay after that.
SendsAreApart == Gap >= Window + MaxDelay /\ Gap >= selfEchoWindow + 2 * MaxDelay

\* Some namespace is on the segment that a client sends on.
ClientsAreReached == \A s \in ClientSegments : \E p \in Paths : s \in SegmentsOf(p)

\* The ages of the packets under way.
Ages(q) == {q[i] : i \in DOMAIN q}
UnderWay ==
  {bcast[i].age : i \in DOMAIN bcast} \cup UNION {Ages(inbox[p]) \cup Ages(sendq[p]) : p \in Paths}

\* A packet under way meets the guard's entry, however late it is, unless a
\* client's send has yet to be relayed.
GuardCovers == passes < sends \/ \A age \in UnderWay : guard + age > MaxDelay

GuardInv == TypeOK /\ NoSecondFanOut /\ GuardCovers

\* The last send has not been relayed: a copy of it is under way, nothing else
\* is, and neither barrier remembers the payload.
NotYetRelayed ==
  /\ passes = sends - 1
  /\ guard = 0
  /\ \A p \in Paths : mark[p] = 0 /\ sendq[p] = <<>>
  /\ bcast # <<>> \/ \E p \in Paths : inbox[p] # <<>>
  /\ \A age \in UnderWay : since <= age

\* Every send has been relayed: what is under way, and what the barriers
\* remember, is no older than the last one, and is gone when the next may come.
Relayed ==
  /\ passes = sends
  /\ guard > 0 => since + guard <= Window + MaxDelay
  /\ \A p \in Paths : mark[p] > 0 => since + mark[p] <= selfEchoWindow + 2 * MaxDelay
  /\ \A age \in UnderWay : since <= age + MaxDelay /\ guard + age > MaxDelay

RelayedInv == TypeOK /\ (NotYetRelayed \/ Relayed)
============================================================================
