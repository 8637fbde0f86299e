----------------------------- MODULE ResultLog -----------------------------
(***************************************************************************)
(* What the data plane promises about a request's result stream, whatever  *)
(* happens to leases and engines: events are only appended, and a          *)
(* completed event follows every chunk of its attempt.  Attempts may       *)
(* interleave.  The promise ends when the stream expires: a late engine    *)
(* may write to it again, and it may expire again.                         *)
(***************************************************************************)
EXTENDS Naturals, Sequences

CONSTANTS
  Requests,
  Attempts,   \* attempt ids, positive numbers; 0 is no attempt's id
  Chunks      \* the largest number of chunks of an attempt

ASSUME ChunksAssumption == Chunks \in Nat

Kinds    == {"started", "token", "completed", "failed"}
Terminal == {"completed", "failed"}
Events   == [kind : Kinds, attempt : Attempts \cup {0}, n : 0..Chunks]

VARIABLES
  log,        \* each request's events
  closed      \* the requests whose log ever expired

logVars == <<log, closed>>

LogInit ==
  /\ log = [r \in Requests |-> <<>>]
  /\ closed = {}

HasChunks(s, attempt, n) ==
  \A m \in 1..n : \E i \in 1..Len(s) :
    s[i] = [kind |-> "token", attempt |-> attempt, n |-> m]

\* Mutant: an attempt completes although the append of a chunk failed.
WriteAnyway(r, event) ==
  /\ log' = [log EXCEPT ![r] = Append(@, event)]
  /\ UNCHANGED closed

Write(r, event) ==
  /\ log' = [log EXCEPT ![r] = Append(@, event)]
  /\ UNCHANGED closed
  /\ r \notin closed /\ event.kind = "completed" => HasChunks(log[r], event.attempt, event.n)

Expire(r) ==
  /\ closed' = closed \cup {r}
  /\ log' = [log EXCEPT ![r] = <<>>]

StreamNext ==
  \E r \in Requests : Expire(r) \/ \E event \in Events : Write(r, event)

StreamSpec == LogInit /\ [][StreamNext]_logVars
=============================================================================
