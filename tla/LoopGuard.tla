----------------------------- MODULE LoopGuard -----------------------------
(***************************************************************************)
(* internal/middleware/loop_guard.go, the one middleware of the chain that *)
(* relay.New installs.  broadcast calls Process for every packet it takes, *)
(* from one goroutine, so Process is one step; time passes between calls.  *)
(*                                                                         *)
(* The map from loopKey to expiry is kept as its domain (seen) and its     *)
(* values (expires).  Times are positive; 0 is the zero time.Time.         *)
(***************************************************************************)
EXTENDS Integers

CONSTANTS
  Payloads, GroupAddrs,  \* what loopKeyForPacket keeps of a packet
  Sources,               \* senders, which it ignores
  RequestedWindow,       \* the argument of NewLoopGuard
  DefaultLoopGuardWindow,
  MaxTime                \* bound on the clock

ASSUME LoopGuardAssumption ==
  /\ RequestedWindow \in Int
  /\ DefaultLoopGuardWindow \in Nat \ {0}
  /\ MaxTime \in Nat

VARIABLES
  now,
  seen,         \* keys in the map g.seen
  expires,      \* key -> its expiry, meaningful for the keys in seen
  nextCleanup,
  lastPass,     \* history: key -> time of its last pass, 0 if it has none
  prevPass,     \* history: key -> time of the pass before that
  lastDrop,     \* history: key -> time of the last drop since its last pass
  latest        \* history: time of the last pass of any key

guardVars == <<now, seen, expires, nextCleanup>>
vars == <<now, seen, expires, nextCleanup, lastPass, prevPass, lastDrop, latest>>

Packets == [data : Payloads, group : GroupAddrs, source : Sources]

\* loopKeyForPacket: the payload's hash and the group's address; not who sent
\* the packet, nor which namespace it came from.
Keys == Payloads \X GroupAddrs
loopKeyForPacket(pkt) == <<pkt.data, pkt.group>>

\* NewLoopGuard
Window == IF RequestedWindow <= 0 THEN DefaultLoopGuardWindow ELSE RequestedWindow

TypeOK ==
  /\ now \in Nat \ {0}
  /\ seen \subseteq Keys
  /\ expires \in [Keys -> Nat]
  /\ nextCleanup \in Nat
  /\ lastPass \in [Keys -> Nat]
  /\ prevPass \in [Keys -> Nat]
  /\ lastDrop \in [Keys -> Nat]
  /\ latest \in Nat

Init ==
  /\ now = 1
  /\ seen = {}
  /\ expires = [k \in Keys |-> 0]
  /\ nextCleanup = 0
  /\ lastPass = [k \in Keys |-> 0]
  /\ prevPass = [k \in Keys |-> 0]
  /\ lastDrop = [k \in Keys |-> 0]
  /\ latest = 0

Tick ==
  /\ now < MaxTime
  /\ now' = now + 1
  /\ UNCHANGED <<seen, expires, nextCleanup, lastPass, prevPass, lastDrop, latest>>

\* expires, ok := g.seen[key]; ok && now.Before(expires)
IsCopy(k) == k \in seen /\ now < expires[k]

CleanupDue == nextCleanup = 0 \/ now >= nextCleanup

\* Mutants: the cleanup empties the map; the cleanup leaves it as it is.
AfterCleanupEmpty == IF CleanupDue THEN {} ELSE seen
AfterCleanupKeeps == seen

\* What the cleanup, when it is due, leaves of the map.
AfterCleanup == IF CleanupDue THEN {k \in seen : now < expires[k]} ELSE seen

\* Mutant: every copy extends the window.
ProcessDropsExtends(pkt) ==
  LET key == loopKeyForPacket(pkt) IN
  /\ IsCopy(key)
  /\ expires' = [expires EXCEPT ![key] = now + Window]
  /\ lastDrop' = [lastDrop EXCEPT ![key] = now]
  /\ UNCHANGED <<now, seen, nextCleanup, lastPass, prevPass, latest>>

\* Process drops a copy; the entry's expiry is not extended.
ProcessDrops(pkt) ==
  LET key == loopKeyForPacket(pkt) IN
  /\ IsCopy(key)
  /\ lastDrop' = [lastDrop EXCEPT ![key] = now]
  /\ UNCHANGED <<guardVars, lastPass, prevPass, latest>>

\* Mutant: the expiry is computed backwards.
ProcessPassesBackwards(pkt) ==
  LET key == loopKeyForPacket(pkt) IN
  /\ ~IsCopy(key)
  /\ nextCleanup' = IF CleanupDue THEN now + Window ELSE nextCleanup
  /\ seen' = AfterCleanup \cup {key}
  /\ expires' = [expires EXCEPT ![key] = now - Window]
  /\ lastPass' = [lastPass EXCEPT ![key] = now]
  /\ prevPass' = [prevPass EXCEPT ![key] = lastPass[key]]
  /\ lastDrop' = [lastDrop EXCEPT ![key] = 0]
  /\ latest' = now
  /\ UNCHANGED now

\* Process lets a packet through and remembers it.
ProcessPasses(pkt) ==
  LET key == loopKeyForPacket(pkt) IN
  /\ ~IsCopy(key)
  /\ nextCleanup' = IF CleanupDue THEN now + Window ELSE nextCleanup
  /\ seen' = AfterCleanup \cup {key}
  /\ expires' = [expires EXCEPT ![key] = now + Window]
  /\ lastPass' = [lastPass EXCEPT ![key] = now]
  /\ prevPass' = [prevPass EXCEPT ![key] = lastPass[key]]
  /\ lastDrop' = [lastDrop EXCEPT ![key] = 0]
  /\ latest' = now
  /\ UNCHANGED now

Process(pkt) == ProcessDrops(pkt) \/ ProcessPasses(pkt)

Next == Tick \/ \E pkt \in Packets : Process(pkt)

Spec == Init /\ [][Next]_vars

----------------------------------------------------------------------------
(* Properties.                                                             *)

\* Whatever other packets and cleanups come in between, two packets with the
\* same payload and group that both get through are at least a window apart:
\* a copy that returns within the window never fans out again.
OncePerWindow ==
  \A k \in Keys : prevPass[k] # 0 => lastPass[k] >= prevPass[k] + Window

\* A packet is dropped only if the same payload got through to the same group
\* less than a window before.  Copies do not extend the window: a client that
\* repeats itself at mDNS intervals is never suppressed by a loop's copies.
DropOnlyRecent ==
  \A k \in Keys : lastDrop[k] # 0 =>
    lastPass[k] # 0 /\ lastPass[k] <= lastDrop[k] /\ lastDrop[k] < lastPass[k] + Window

\* The map does not grow with the traffic's history: at the last pass every
\* entry it holds had expired less than a window before, if at all.
SeenBounded ==
  \A k \in seen : latest < lastPass[k] + 2 * Window

----------------------------------------------------------------------------
(* The inductive invariant.                                                *)

\* An entry's expiry is its key's last pass plus the window; a key without an
\* entry has no pass in the last window.
SeenMatchesPasses ==
  /\ \A k \in Keys : lastPass[k] <= latest /\ lastDrop[k] <= now
  /\ latest <= now
  /\ \A k \in seen : lastPass[k] # 0 /\ expires[k] = lastPass[k] + Window
  /\ \A k \in Keys \ seen : lastPass[k] = 0 \/ lastPass[k] + Window <= now

\* The next cleanup is at most a window away, and comes before any entry has
\* been expired for a whole window.
CleanupInTime ==
  /\ nextCleanup <= now + Window
  /\ nextCleanup = 0 => seen = {}
  /\ \A k \in seen : nextCleanup < expires[k] + Window

IInv ==
  /\ TypeOK
  /\ SeenMatchesPasses
  /\ CleanupInTime
  /\ OncePerWindow
  /\ DropOnlyRecent
  /\ SeenBounded
============================================================================
