---------------------------- MODULE QuotaLedger ----------------------------
(***************************************************************************)
(* The per-minute quota of crates/inference-streams: reserve_quota,        *)
(* reconcile_quota and cancel_quota, three Lua scripts over one hash per   *)
(* reservation and three counters per API key and minute.                  *)
(*                                                                         *)
(* The client picks the minute (the bucket) from its own clock, before it  *)
(* sends the script; the broker runs the script up to MaxLag later.        *)
(* Counters and reservations carry their own expirations, and DECRBY on an *)
(* expired counter would create it again: negative and with no expiration. *)
(***************************************************************************)
EXTENDS Integers, Totals

CONSTANTS
  Keys,        \* API keys
  Ids,         \* reservation ids
  Window,      \* ticks in a minute
  Ttl,         \* ticks until a counter or a reservation expires (120 s)
  MaxLag,      \* ticks between choosing the bucket and running the script
  Limit,       \* Limit[d]: quota per minute in dimension d
  MaxPrompt,   \* bound: prompt tokens of a request (at least one is counted)
  MaxOutput,   \* bound: output tokens a request reserves
  MaxTime      \* bound: ticks the model runs

Dims == {"requests", "prompt", "generated"}

ASSUME ClockAssumption ==
  /\ Window \in Nat \ {0} /\ Ttl \in Nat /\ MaxLag \in Nat /\ MaxTime \in Nat
  /\ Window + MaxLag <= Ttl
ASSUME LimitAssumption == Limit \in [Dims -> Nat] /\ MaxPrompt \in Nat /\ MaxOutput \in Nat
ASSUME KeysAssumption == Keys # {} /\ IsFiniteSet(Ids)

VARIABLES
  now,
  counter,     \* counter[k, b, d]: value, expiration, whether it has none
  rv           \* rv[id]: the request that draws id, and its reservation hash

vars == <<now, counter, rv>>

Buckets == 0..(MaxTime \div Window)
Cells   == Keys \X Buckets \X Dims
States  == {"none", "asked", "refused", "reserved", "reconciled", "cancelled"}

\* The quota script admitted the request.
Admitted == {"reserved", "reconciled", "cancelled"}

Init ==
  /\ now = 0
  /\ counter = [c \in Cells |-> [value |-> 0, dies |-> 0, persistent |-> FALSE]]
  /\ rv = [id \in Ids |->
             [status |-> "none", key |-> CHOOSE k \in Keys : TRUE, bucket |-> 0,
              asked |-> 0, prompt |-> 0, generated |-> 0, refund |-> 0, dies |-> 0]]

-----------------------------------------------------------------------------
(* The broker's commands on a counter.                                     *)

Exists(c) == counter[c].persistent \/ now < counter[c].dies

Get(c) == IF Exists(c) THEN counter[c].value ELSE 0

\* INCRBY / DECRBY: a missing key is created, with no expiration.
Incr(c, n) ==
  IF Exists(c) THEN [counter[c] EXCEPT !.value = @ + n]
  ELSE [value |-> n, dies |-> 0, persistent |-> TRUE]

\* Mutant: EXPIRE after one minute.
IncrExpireMinute(c, n) ==
  [value |-> Get(c) + n, dies |-> now + Window, persistent |-> FALSE]

\* Mutant: EXPIRE only when the counter is created.
IncrExpireOnce(c, n) ==
  [value |-> Get(c) + n, dies |-> IF Exists(c) THEN counter[c].dies ELSE now + Ttl,
   persistent |-> FALSE]

\* INCRBY followed by EXPIRE.
IncrExpire(c, n) ==
  [value |-> Get(c) + n, dies |-> now + Ttl, persistent |-> FALSE]

Amount(d, prompt, generated) ==
  CASE d = "requests" -> 1 [] d = "prompt" -> prompt [] d = "generated" -> generated

\* Mutant: a reservation can be closed again after it was reconciled.
OpenAgain(id) == rv[id].status \in {"reserved", "reconciled"} /\ now < rv[id].dies

\* The reservation hash is there and says "reserved".
Open(id) == rv[id].status = "reserved" /\ now < rv[id].dies

CellOf(id, d) == <<rv[id].key, rv[id].bucket, d>>

-----------------------------------------------------------------------------
(* The operations.                                                         *)

\* reserve_quota up to the script: the bucket comes from the client's clock.
Ask(id, k) ==
  /\ rv[id].status = "none"
  /\ rv' = [rv EXCEPT ![id].status = "asked", ![id].key = k,
                      ![id].bucket = now \div Window, ![id].asked = now]
  /\ UNCHANGED <<now, counter>>

Fits(id, prompt, generated) ==
  \A d \in Dims : Get(CellOf(id, d)) + Amount(d, prompt, generated) <= Limit[d]

\* RESERVE_QUOTA_LUA.
Reserve(id, prompt, generated) ==
  /\ rv[id].status = "asked"
  /\ now <= rv[id].asked + MaxLag
  /\ IF Fits(id, prompt, generated)
       THEN /\ counter' = [c \in Cells |->
                 IF c[1] = rv[id].key /\ c[2] = rv[id].bucket
                   THEN IncrExpire(c, Amount(c[3], prompt, generated))
                   ELSE counter[c]]
            /\ rv' = [rv EXCEPT ![id].status = "reserved", ![id].prompt = prompt,
                                ![id].generated = generated, ![id].dies = now + Ttl]
       ELSE /\ rv' = [rv EXCEPT ![id].status = "refused"]
            /\ UNCHANGED counter
  /\ UNCHANGED now

\* Mutant: the refund is not cut off at 0.
ReconcileSigned(id, actual) ==
  LET refund == rv[id].generated - actual
      c == CellOf(id, "generated")
  IN /\ Open(id)
     /\ counter' = [counter EXCEPT ![c] = Incr(c, -refund)]
     /\ rv' = [rv EXCEPT ![id].status = "reconciled", ![id].refund = refund]
     /\ UNCHANGED now

\* RECONCILE_QUOTA_LUA: gives back what was reserved and not generated.
Reconcile(id, actual) ==
  LET refund == IF rv[id].generated > actual THEN rv[id].generated - actual ELSE 0
      c == CellOf(id, "generated")
  IN /\ Open(id)
     /\ counter' = IF refund > 0 THEN [counter EXCEPT ![c] = Incr(c, -refund)] ELSE counter
     /\ rv' = [rv EXCEPT ![id].status = "reconciled", ![id].refund = refund]
     /\ UNCHANGED now

\* CANCEL_QUOTA_LUA: gives back everything, the request itself included.
Cancel(id) ==
  /\ Open(id)
  /\ counter' = [c \in Cells |->
       IF c[1] = rv[id].key /\ c[2] = rv[id].bucket
         THEN Incr(c, -Amount(c[3], rv[id].prompt, rv[id].generated))
         ELSE counter[c]]
  /\ rv' = [rv EXCEPT ![id].status = "cancelled"]
  /\ UNCHANGED now

\* Either script on a reservation that is closed or has expired.
NothingToClose(id) ==
  /\ rv[id].status \in Admitted
  /\ ~ Open(id)
  /\ UNCHANGED vars

Tick ==
  /\ now < MaxTime
  /\ now' = now + 1
  /\ UNCHANGED <<counter, rv>>

Next ==
  \/ Tick
  \/ \E id \in Ids :
       \/ \E k \in Keys : Ask(id, k)
       \/ \E prompt \in 1..MaxPrompt, generated \in 0..MaxOutput : Reserve(id, prompt, generated)
       \/ \E actual \in 0..(MaxOutput + 1) : Reconcile(id, actual)
       \/ Cancel(id)
       \/ NothingToClose(id)

Spec == Init /\ [][Next]_vars

-----------------------------------------------------------------------------
Reservation ==
  [status : States, key : Keys, bucket : Nat, asked : Nat, prompt : Nat,
   generated : Nat, refund : Nat, dies : Nat]

Counter == [value : Int, dies : Nat, persistent : BOOLEAN]

TypeOK ==
  /\ now \in Nat
  /\ counter \in [Cells -> Counter]
  /\ rv \in [Ids -> Reservation]

\* What id's admission still costs in dimension d.
Charge(id, d) ==
  IF rv[id].status \in {"reserved", "reconciled"}
    THEN Amount(d, rv[id].prompt, rv[id].generated - rv[id].refund)
    ELSE 0

\* What each id's admission still costs the cell c.
Costs(c) ==
  [id \in Ids |->
     IF rv[id].key = c[1] /\ rv[id].bucket = c[2] THEN Charge(id, c[3]) ELSE 0]

(***************************************************************************)
(* The counters are exact: while it exists, a counter is the sum of what   *)
(* its key's admissions of that minute still cost, after any mix of        *)
(* reconciliations and cancellations.  In particular it is not negative.   *)
(***************************************************************************)
CountersExact == \A c \in Cells : Exists(c) => counter[c].value = Total(Costs(c))

(***************************************************************************)
(* No key is admitted for more than its limit in one minute, although the  *)
(* counter expires by itself and the bucket may be stale when the script   *)
(* runs.                                                                   *)
(***************************************************************************)
WithinLimit == \A c \in Cells : Total(Costs(c)) <= Limit[c[3]]

(***************************************************************************)
(* A refund never brings an expired counter back: no counter is left       *)
(* without an expiration.                                                  *)
(***************************************************************************)
NoImmortalCounter == \A c \in Cells : ~ counter[c].persistent
=============================================================================
