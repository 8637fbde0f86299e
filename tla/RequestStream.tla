--------------------------- MODULE RequestStream ---------------------------
(***************************************************************************)
(* REQUEST_STREAM and its consumer group, as JobConsumer of                *)
(* crates/inference-streams uses them: what each command does to them.     *)
(***************************************************************************)
EXTENDS Naturals, Sequences, FiniteSets

CONSTANTS
  Requests,    \* the requests clients send; one request id each
  ScanLimit    \* pending entries one XAUTOCLAIM looks at; Valkey's is 10 for COUNT 1

ASSUME ScanLimitAssumption == ScanLimit \in Nat \ {0}

VARIABLES
  queue,       \* the stream, append-only: the requests in XADD order
  delivered,   \* the consumer group's last-delivered position in queue
  pel,         \* the group's pending entries: delivered, not acknowledged
  stale        \* the pending entries idle for at least reclaim_idle

queueVars == <<queue, delivered, pel, stale>>

QueueInit == queue = <<>> /\ delivered = 0 /\ pel = {} /\ stale = {}

\* publish_generation: XADD.
Enqueue(r) ==
  /\ queue' = Append(queue, r)
  /\ UNCHANGED <<delivered, pel, stale>>

\* JobConsumer::next, XREADGROUP ">": the next entry becomes pending.
Undelivered(r) == delivered < Len(queue) /\ r = queue[delivered + 1]

Deliver(r) ==
  /\ delivered' = delivered + 1
  /\ pel' = pel \cup {r}
  /\ UNCHANGED <<queue, stale>>

(***************************************************************************)
(* reclaim_stale, XAUTOCLAIM with COUNT 1: it starts at 0-0 every time and *)
(* looks at the first ScanLimit pending entries, here their positions.     *)
(***************************************************************************)
PendingBefore(i) == {j \in 1..(i - 1) : queue[j] \in pel}
Scanned == {i \in 1..delivered : queue[i] \in pel /\ Cardinality(PendingBefore(i)) < ScanLimit}

\* The first stale entry it comes to, and no entry at all.
FirstStale(r) ==
  /\ r \in stale
  /\ \E i \in Scanned : r = queue[i] /\ \A j \in PendingBefore(i) : queue[j] \notin stale

NoneStale == \A i \in Scanned : queue[i] \notin stale

\* Claiming an entry restarts its idle time.
Claim(r) ==
  /\ stale' = stale \ {r}
  /\ UNCHANGED <<queue, delivered, pel>>

\* Mutant: the entry's idle time outlives it.
RemoveStale(r) ==
  /\ pel' = pel \ {r}
  /\ UNCHANGED <<queue, delivered, stale>>

\* XACK removes the entry whichever consumer it was last delivered to.
Remove(r) ==
  /\ pel' = pel \ {r}
  /\ stale' = stale \ {r}
  /\ UNCHANGED <<queue, delivered>>

\* A pending entry reaches reclaim_idle.
Age(r) ==
  /\ r \in pel \ stale
  /\ stale' = stale \cup {r}
  /\ UNCHANGED <<queue, delivered, pel>>

\* r was delivered and is no longer pending: no engine will see it again.
Acked(r) == (\E i \in 1..delivered : queue[i] = r) /\ r \notin pel
=============================================================================
