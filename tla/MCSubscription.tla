--------------------------- MODULE MCSubscription ---------------------------
(***************************************************************************)
(* Small instances of Subscription for TLC.  The streams are what engines  *)
(* write: an attempt starts, adds its chunks in order and ends, and two    *)
(* attempts interleave in any way.                                         *)
(***************************************************************************)
EXTENDS Subscription, FiniteSets

CONSTANTS
  MaxEvents,     \* bound: events added to a stream
  MaxLate        \* bound: events in a stream that expired before

Of(s, attempt, kinds) == {i \in 1..Len(s) : s[i].attempt = attempt /\ s[i].kind \in kinds}

\* The count that a failure carries is not looked at.
InTurn(s, event) ==
  LET starts == Of(s, event.attempt, {"started"})
      chunks == Of(s, event.attempt, {"token"})
      ends   == Of(s, event.attempt, Terminal)
  IN IF event.attempt = 0 THEN event.kind = "failed" /\ event.n = 0
     ELSE /\ ends = {}
          /\ event.kind # "failed" => (starts = {} <=> event.kind = "started")
          /\ event.kind \in {"started", "failed"} => event.n = 0
          /\ event.kind = "token"   => event.n = Cardinality(chunks) + 1

\* Of an event written after the stream expired only whether it is the last matters.
LateEvents == [kind : {"token", "failed"}, attempt : {0}, n : {0}]

Bounded(r) ==
  hist'[r] # hist[r] =>
    LET event == hist'[r][Len(hist'[r])] IN
    /\ Len(hist'[r]) <= MaxEvents
    /\ IF r \in closed THEN Len(log'[r]) <= MaxLate /\ event \in LateEvents
                       ELSE InTurn(log[r], event)

BoundedProduce == Produce /\ \A r \in Requests : Bounded(r)

BoundedNext == BoundedProduce \/ \E r \in Requests : Status(r) \/ Calls(r)

BoundedSpec == Init /\ [][BoundedNext]_vars /\ Fairness
=============================================================================
