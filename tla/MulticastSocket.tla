-------------------------- MODULE MulticastSocket --------------------------
(***************************************************************************)
(* Self-echo suppression of internal/socket/multicast.go: one socket of an *)
(* instance, with its send worker in WriteToGroup and its receive loop in  *)
(* ReadFrom.  IP_MULTICAST_LOOP hands every copy the worker sends back to  *)
(* the socket's own receive buffer, among the packets of real clients.     *)
(*                                                                         *)
(* recentTx is one map behind an atomic pointer that only the worker       *)
(* stores: a load and a store are single steps, and time passes between    *)
(* them and the readings of the clock that go with them.  The map is kept  *)
(* as its domain (recent) and its values (expires).  Times are positive.   *)
(***************************************************************************)
EXTENDS Integers, Sequences

CONSTANTS
  Payloads,
  Interfaces,      \* egressInterfaceIndices()
  None,
  selfEchoWindow,
  MaxTime,         \* bound on the clock
  MaxWrites,       \* bound on WriteToGroup calls
  MaxClient        \* bound on clients' packets

ASSUME SocketAssumption ==
  /\ selfEchoWindow \in Nat \ {0}
  /\ MaxTime \in Nat /\ MaxWrites \in Nat /\ MaxClient \in Nat
  /\ None \notin Payloads

VARIABLES
  now,
  recent,     \* payloads in recentTx
  expires,    \* payload -> its expiry, meaningful for those in recent
  writing,    \* the payload in WriteToGroup, or None
  began,      \* the time markSent read before its store, 0 after the store
  left,       \* copies of it still to be written: <<how, interface>>
  inbox,      \* the socket's receive buffer
  reading,    \* the packet ReadFrom has taken and the expiry it loaded, or None
  writes, clients,   \* calls and client packets so far
  lastMark,   \* history: payload -> time of its last markSent, 0 if none
  lastRead    \* history: the last packet read, when, and what became of it

vars == <<now, recent, expires, writing, began, left, inbox, reading, writes,
          clients, lastMark, lastRead>>

\* A packet in the receive buffer; marked is the time of the markSent that an
\* echo comes from, 0 for a client's packet.
Message == [data : Payloads, echo : BOOLEAN, marked : Nat]

\* One that ReadFrom is looking at; exp is 0 if its payload was not in the map.
Reading == [data : Payloads, echo : BOOLEAN, marked : Nat, exp : Nat]

TypeOK ==
  /\ now \in Nat \ {0}
  /\ recent \subseteq Payloads
  /\ expires \in [Payloads -> Nat]
  /\ writing \in Payloads \cup {None}
  /\ began \in Nat
  /\ left \subseteq {"raw", "udp"} \X Interfaces
  /\ inbox \in Seq(Message)
  /\ reading \in Reading \cup {None}
  /\ writes \in Nat
  /\ clients \in Nat
  /\ lastMark \in [Payloads -> Nat]
  /\ lastRead \in [echo : BOOLEAN, marked : Nat, at : Nat, since : Nat,
                   kept : BOOLEAN]

Init ==
  /\ now = 1
  /\ recent = {}
  /\ expires = [d \in Payloads |-> 0]
  /\ writing = None
  /\ began = 0
  /\ left = {}
  /\ inbox = <<>>
  /\ reading = None
  /\ writes = 0
  /\ clients = 0
  /\ lastMark = [d \in Payloads |-> 0]
  /\ lastRead = [echo |-> FALSE, marked |-> 0, at |-> 0, since |-> 0, kept |-> TRUE]

Tick ==
  /\ now < MaxTime
  /\ now' = now + 1
  /\ UNCHANGED <<recent, expires, writing, began, left, inbox, reading, writes,
                 clients, lastMark, lastRead>>

----------------------------------------------------------------------------
(* WriteToGroup: mark the payload, then write it on every interface, first *)
(* from its original source if that is possible.                           *)

\* The send worker calls WriteToGroup, and markSent reads the clock.  Copies
\* from the original source need a raw socket and an IPv4 source.
WriteToGroup(d, hows) ==
  /\ writing = None
  /\ writes < MaxWrites
  /\ writes' = writes + 1
  /\ writing' = d
  /\ began' = now
  /\ left' = hows \X Interfaces
  /\ UNCHANGED <<now, recent, expires, inbox, reading, clients, lastMark, lastRead>>

\* Mutant: the cleanup forgets everything.
UnexpiredNone == {}

\* markSent's cleanup: exp.After(now)
Unexpired == {d \in recent : expires[d] > began}

\* markSent stores the new map.
markSent ==
  /\ began # 0
  /\ began' = 0
  /\ recent' = Unexpired \cup {writing}
  /\ expires' = [expires EXCEPT ![writing] = began + selfEchoWindow]
  /\ lastMark' = [lastMark EXCEPT ![writing] = began]
  /\ UNCHANGED <<now, writing, left, inbox, reading, writes, clients, lastRead>>

\* The raw copies go first.
IsNext(x) == x \in left /\ (x[1] = "udp" => \A y \in left : y[1] = "udp")

\* A write on one interface succeeds, and the copy loops back.
WriteCopy(x) ==
  /\ began = 0
  /\ IsNext(x)
  /\ left' = left \ {x}
  /\ inbox' = Append(inbox, [data |-> writing, echo |-> TRUE,
                             marked |-> lastMark[writing]])
  /\ UNCHANGED <<now, recent, expires, writing, began, reading, writes, clients,
                 lastMark, lastRead>>

\* It fails, or the write deadline has passed: on to the next.  When setting
\* the deadline or the TTL fails, WriteToGroup returns with all copies failed.
CopyFails(x) ==
  /\ began = 0
  /\ IsNext(x)
  /\ left' = left \ {x}
  /\ UNCHANGED <<now, recent, expires, writing, began, inbox, reading, writes,
                 clients, lastMark, lastRead>>

\* WriteToGroup returns, with an error if no copy was sent.
WriteReturns ==
  /\ writing # None
  /\ began = 0
  /\ left = {}
  /\ writing' = None
  /\ UNCHANGED <<now, recent, expires, began, left, inbox, reading, writes,
                 clients, lastMark, lastRead>>

----------------------------------------------------------------------------
\* External: a client in the namespace sends to the group.
ClientSends(d) ==
  /\ clients < MaxClient
  /\ clients' = clients + 1
  /\ inbox' = Append(inbox, [data |-> d, echo |-> FALSE, marked |-> 0])
  /\ UNCHANGED <<now, recent, expires, writing, began, left, reading, writes,
                 lastMark, lastRead>>

\* ReadFrom takes a packet from the buffer, and isSelfEcho loads the map.
ReadFrom ==
  /\ reading = None
  /\ inbox # <<>>
  /\ inbox' = Tail(inbox)
  /\ LET m == Head(inbox) IN
     reading' = [data |-> m.data, echo |-> m.echo, marked |-> m.marked,
                 exp |-> IF m.data \in recent THEN expires[m.data] ELSE 0]
  /\ UNCHANGED <<now, recent, expires, writing, began, left, writes, clients,
                 lastMark, lastRead>>

\* Mutant: a payload stays suppressed as long as its entry is there.
isSelfEchoIgnoresExpiry(m) == m.exp # 0

\* exp.After(now), with the clock read after the load
isSelfEcho(m) == m.exp > now

\* A self-echo is discarded, and ReadFrom's loop goes on; anything else is
\* returned to the receive loop.
ReadDecides ==
  /\ reading # None
  /\ reading' = None
  /\ lastRead' = [echo |-> reading.echo, marked |-> reading.marked, at |-> now,
                  since |-> lastMark[reading.data], kept |-> ~isSelfEcho(reading)]
  /\ UNCHANGED <<now, recent, expires, writing, began, left, inbox, writes,
                 clients, lastMark>>

Next ==
  \/ Tick
  \/ \E d \in Payloads, hows \in {{"raw", "udp"}, {"udp"}} : WriteToGroup(d, hows)
  \/ markSent
  \/ \E x \in {"raw", "udp"} \X Interfaces : WriteCopy(x)
  \/ \E x \in {"raw", "udp"} \X Interfaces : CopyFails(x)
  \/ WriteReturns
  \/ \E d \in Payloads : ClientSends(d)
  \/ ReadFrom
  \/ ReadDecides

Spec == Init /\ [][Next]_vars

----------------------------------------------------------------------------
(* Properties.                                                             *)

\* An echo read within the window of the markSent it comes from is discarded,
\* whatever was marked, cleaned up, written and read in between.
FreshEchoDiscarded ==
  lastRead.echo /\ lastRead.kept => lastRead.at >= lastRead.marked + selfEchoWindow

\* A packet is discarded only within the window of a markSent of its payload.
\* Echoes do not renew the window, so a client that repeats itself is heard
\* again once the relay has not sent the same payload for a window.
DiscardOnlyRecent ==
  ~lastRead.kept =>
    /\ lastRead.since # 0
    /\ lastRead.since <= lastRead.at
    /\ lastRead.at < lastRead.since + selfEchoWindow

----------------------------------------------------------------------------
(* The inductive invariant.                                                *)

\* The map holds the payloads marked within the window, with the expiry that
\* goes with their last mark.
RecentMatchesMarks ==
  /\ \A d \in Payloads : lastMark[d] <= now /\ (began # 0 => lastMark[d] <= began)
  /\ began <= now
  /\ \A d \in recent : lastMark[d] # 0 /\ expires[d] = lastMark[d] + selfEchoWindow
  /\ \A d \in Payloads \ recent :
       lastMark[d] = 0 \/ lastMark[d] + selfEchoWindow <= now

\* WriteToGroup writes copies only of a payload that it has marked.
WriterHasMarked ==
  /\ writing = None => left = {} /\ began = 0
  /\ writing # None /\ began = 0 => lastMark[writing] # 0

\* An echo in the buffer is no newer than its payload's last mark.
EchoesAreMarked ==
  \A n \in DOMAIN inbox : inbox[n].echo =>
    lastMark[inbox[n].data] # 0 /\ inbox[n].marked <= lastMark[inbox[n].data]

\* What ReadFrom has loaded may be stale, but it covers the window of the
\* echo, and is no later than the payload's last mark allows.
LoadCoversEcho ==
  reading # None =>
    /\ reading.echo => \/ reading.exp >= reading.marked + selfEchoWindow
                       \/ now >= reading.marked + selfEchoWindow
    /\ reading.exp # 0 => /\ lastMark[reading.data] # 0
                          /\ reading.exp <= lastMark[reading.data] + selfEchoWindow

IInv ==
  /\ TypeOK
  /\ RecentMatchesMarks
  /\ WriterHasMarked
  /\ EchoesAreMarked
  /\ LoadCoversEcho
  /\ FreshEchoDiscarded
  /\ DiscardOnlyRecent
============================================================================
