--------------------------- MODULE MemoryLimiter ---------------------------
(***************************************************************************)
(* crates/generation-quota-limiter: InMemoryQuotaLimiter.  Its calls are   *)
(* asynchronous and share two mutexes.  reserve reads the clock first and  *)
(* then waits for the state mutex, which it keeps until the reservation is *)
(* inserted; reconcile takes the reservation out under the other mutex and *)
(* then waits for the state mutex.  The reservations mutex is never kept   *)
(* across an await, so what happens under it is one step.                  *)
(***************************************************************************)
EXTENDS Naturals, Totals

CONSTANTS
  Keys,        \* API keys
  Ids,         \* reservation ids; each call of reserve draws a fresh one
  Limit,       \* Limit[d]: limit per minute in dimension d
  MaxPrompt,   \* bound: prompt tokens of a request
  MaxOutput,   \* bound: output tokens a request reserves
  MaxMinute,   \* bound: the last minute of the run
  Free         \* nobody holds the state mutex

Dims == {"requests", "prompt", "generated"}

ASSUME LimiterAssumption ==
  /\ Limit \in [Dims -> Nat] /\ MaxPrompt \in Nat /\ MaxOutput \in Nat /\ MaxMinute \in Nat
  /\ Free \notin Ids /\ IsFiniteSet(Ids) /\ Keys # {}

VARIABLES
  now,         \* epoch_minute()
  state,       \* the WindowCounters of each key
  holder,      \* the call that holds the state mutex
  rv           \* each call of reserve, its reservation, and the call that closes it

vars == <<now, state, holder, rv>>

(***************************************************************************)
(* rv[id].at: "none" not called; "reserving" the clock was read;           *)
(* "counted" the counters were raised, the mutex is held; "open" in the    *)
(* reservations map; "refunding" taken out of the map, the refund is       *)
(* waiting for the state mutex; "closed" refunded; "refused"; "lost": the  *)
(* future was dropped and what was counted cannot be given back.           *)
(***************************************************************************)
Empty(minute) == [window |-> minute, requests |-> 0, prompt |-> 0, generated |-> 0]

Init ==
  /\ now = 0
  /\ state = [k \in Keys |-> Empty(0)]
  /\ holder = Free
  /\ rv = [id \in Ids |-> [at |-> "none", key |-> CHOOSE k \in Keys : TRUE, minute |-> 0,
                           prompt |-> 0, generated |-> 0, refund |-> 0]]

-----------------------------------------------------------------------------
\* reserve, up to its first await.
ReadClock(id, k, prompt, generated) ==
  /\ rv[id].at = "none"
  /\ rv' = [rv EXCEPT ![id] = [at |-> "reserving", key |-> k, minute |-> now,
                               prompt |-> prompt, generated |-> generated, refund |-> 0]]
  /\ UNCHANGED <<now, state, holder>>

\* Mutant: the counters are kept when the window changes.
WindowKept(id) == [state[rv[id].key] EXCEPT !.window = rv[id].minute]

\* The key's counters, begun anew when they are not those of the call's minute.
Window(id) ==
  IF state[rv[id].key].window = rv[id].minute THEN state[rv[id].key] ELSE Empty(rv[id].minute)

\* Mutant: the output tokens are not compared with their limit.
WithinUnchecked(id) ==
  /\ Window(id).requests < Limit["requests"]
  /\ Window(id).prompt + rv[id].prompt <= Limit["prompt"]

Within(id) ==
  /\ Window(id).requests < Limit["requests"]
  /\ Window(id).prompt + rv[id].prompt <= Limit["prompt"]
  /\ Window(id).generated + rv[id].generated <= Limit["generated"]

\* The state mutex is taken.  A refused call leaves the new window behind.
Count(id) ==
  /\ rv[id].at = "reserving"
  /\ holder = Free
  /\ IF Within(id)
       THEN /\ state' = [state EXCEPT ![rv[id].key] =
                 [Window(id) EXCEPT !.requests = @ + 1, !.prompt = @ + rv[id].prompt,
                                    !.generated = @ + rv[id].generated]]
            /\ rv' = [rv EXCEPT ![id].at = "counted"]
            /\ holder' = id
       ELSE /\ state' = [state EXCEPT ![rv[id].key] = Window(id)]
            /\ rv' = [rv EXCEPT ![id].at = "refused"]
            /\ UNCHANGED holder
  /\ UNCHANGED now

\* The reservation is inserted, and both mutexes released.
Insert(id) ==
  /\ rv[id].at = "counted"
  /\ rv' = [rv EXCEPT ![id].at = "open"]
  /\ holder' = Free
  /\ UNCHANGED <<now, state>>

\* Mutant: the reservation is looked up and stays in the map.
RemoveNot(id, actual) ==
  LET refund == IF rv[id].generated > actual THEN rv[id].generated - actual ELSE 0
  IN /\ rv[id].at \in {"open", "closed"}
     /\ rv' = [rv EXCEPT ![id].at = IF refund = 0 THEN "closed" ELSE "refunding",
                         ![id].refund = refund]
     /\ UNCHANGED <<now, state, holder>>

\* reconcile up to its second await; cancel is reconcile with 0.
Remove(id, actual) ==
  LET refund == IF rv[id].generated > actual THEN rv[id].generated - actual ELSE 0
  IN /\ rv[id].at = "open"
     /\ rv' = [rv EXCEPT ![id].at = IF refund = 0 THEN "closed" ELSE "refunding",
                         ![id].refund = refund]
     /\ UNCHANGED <<now, state, holder>>

\* The refund goes to whatever window the key has now.
Refund(id) ==
  /\ rv[id].at = "refunding"
  /\ holder = Free
  /\ state' = [state EXCEPT ![rv[id].key].generated =
                 IF @ > rv[id].refund THEN @ - rv[id].refund ELSE 0]
  /\ rv' = [rv EXCEPT ![id].at = "closed"]
  /\ UNCHANGED <<now, holder>>

\* The caller goes away at an await: reserve is counted but not inserted, or reconcile has
\* removed the reservation and not refunded it.  The guard of the mutex is dropped too.
Dropped(id) ==
  /\ rv[id].at \in {"reserving", "counted", "refunding"}
  /\ rv' = [rv EXCEPT ![id].at = IF @ = "reserving" THEN "refused" ELSE "lost"]
  /\ holder' = IF holder = id THEN Free ELSE holder
  /\ UNCHANGED <<now, state>>

Tick ==
  /\ now < MaxMinute
  /\ now' = now + 1
  /\ UNCHANGED <<state, holder, rv>>

Next ==
  \/ Tick
  \/ \E id \in Ids :
       \/ \E k \in Keys, prompt \in 1..MaxPrompt, generated \in 0..MaxOutput :
            ReadClock(id, k, prompt, generated)
       \/ Count(id) \/ Insert(id)
       \/ \E actual \in 0..(MaxOutput + 1) : Remove(id, actual)
       \/ Refund(id) \/ Dropped(id)

Spec == Init /\ [][Next]_vars

-----------------------------------------------------------------------------
\* What the reservation id costs in dimension d.
Charge(id, d) ==
  IF rv[id].at \in {"none", "reserving", "refused"} THEN 0
  ELSE CASE d = "requests"  -> 1
         [] d = "prompt"    -> rv[id].prompt
         [] d = "generated" -> rv[id].generated - (IF rv[id].at = "closed" THEN rv[id].refund ELSE 0)

\* What the calls of key k that began in a minute cost.
Costs(k, minute, d) ==
  [id \in Ids |-> IF rv[id].key = k /\ rv[id].minute = minute THEN Charge(id, d) ELSE 0]

Used(k, minute, d) == Total(Costs(k, minute, d))

(***************************************************************************)
(* The counters a key is refused by are never above the limits, whatever   *)
(* calls interleave and however windows change under them.                 *)
(***************************************************************************)
CountersWithinLimit ==
  \A k \in Keys :
    /\ state[k].requests <= Limit["requests"]
    /\ state[k].prompt <= Limit["prompt"]
    /\ state[k].generated <= Limit["generated"]

(***************************************************************************)
(* Within one minute the limiter is exact: until the clock moves, a key's  *)
(* counters are what its reservations cost, with every refund given once,  *)
(* although counting, inserting and refunding are separate steps.  A call  *)
(* whose future is dropped between two of them costs all it reserved.      *)
(***************************************************************************)
ExactWithinMinute ==
  now = 0 => \A k \in Keys, d \in Dims : state[k][d] = Used(k, 0, d)

(***************************************************************************)
(* A key is never refused for usage it does not have: although a late call *)
(* starts an old window again and refunds go to whatever window there is,  *)
(* a counter is at most what the calls of its window cost.                 *)
(***************************************************************************)
CountersJustified ==
  \A k \in Keys, d \in Dims : state[k][d] <= Used(k, state[k].window, d)

(***************************************************************************)
(* ARCHITECTURE.md: "Requests-per-minute limits": no key is admitted more  *)
(* often than its limit in one minute.                                     *)
(***************************************************************************)
RequestsPerMinute ==
  \A k \in Keys, minute \in 0..MaxMinute : Used(k, minute, "requests") <= Limit["requests"]
=============================================================================
