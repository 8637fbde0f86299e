------------------------ MODULE MemoryLimiterProofs ------------------------
(***************************************************************************)
(* InMemoryQuotaLimiter, for every number of keys, calls and minutes and   *)
(* all limits.  Each property is inductive once it is known which windows  *)
(* and minutes there can be (none is ahead of the clock) and that a refund *)
(* is at most what was reserved.                                           *)
(***************************************************************************)
EXTENDS MemoryLimiter, TotalsProofs

\* The counters of one key, the places a call can be at, and a call.
Counters == [window : Nat, requests : Nat, prompt : Nat, generated : Nat]

Positions == {"none", "reserving", "counted", "open", "refunding", "closed", "refused",
              "lost"}

Call == [at : Positions, key : Keys, minute : Nat, prompt : Nat, generated : Nat, refund : Nat]

\* Types; no window and no minute is ahead of the clock, no refund above what was reserved.
LimiterType ==
  /\ now \in Nat
  /\ state \in [Keys -> Counters]
  /\ rv \in [Ids -> Call]
  /\ \A id \in Ids : rv[id].refund <= rv[id].generated /\ rv[id].minute <= now
  /\ \A k \in Keys : state[k].window <= now

\* CountersJustified, with a name for the window.
Justified ==
  \A k \in Keys, d \in Dims, minute \in Nat :
    state[k].window = minute => state[k][d] <= Used(k, minute, d)

\* The inductive invariant.
LimiterInv ==
  /\ LimiterType
  /\ CountersWithinLimit
  /\ Justified
  /\ ExactWithinMinute

\* The counted positions: the call was admitted.
Counted(id) == rv[id].at \notin {"none", "reserving", "refused"}

-----------------------------------------------------------------------------
\* What each call costs a window is a natural number.
LEMMA CostsType ==
  ASSUME LimiterType, NEW k, NEW minute, NEW d \in Dims
  PROVE  Costs(k, minute, d) \in [Ids -> Nat]
<1>1. ASSUME NEW id \in Ids PROVE Charge(id, d) \in Nat
  <2>1. rv[id] \in Call /\ rv[id].refund <= rv[id].generated
    BY DEF LimiterType
  <2> QED BY <2>1 DEF Call, Charge, Dims
<1> QED BY <1>1 DEF Costs

\* The same in the next state.
LEMMA CostsTypeNext ==
  ASSUME LimiterType', NEW k, NEW minute, NEW d \in Dims
  PROVE  Costs(k, minute, d)' \in [Ids -> Nat]
<1>1. ASSUME NEW id \in Ids PROVE Charge(id, d)' \in Nat
  <2>1. rv'[id] \in Call /\ rv'[id].refund <= rv'[id].generated
    BY DEF LimiterType
  <2> QED BY <2>1 DEF Call, Charge, Dims
<1> QED BY <1>1 DEF Costs

\* And so is their sum.
LEMMA UsedType ==
  ASSUME LimiterType, NEW k, NEW minute, NEW d \in Dims
  PROVE  Used(k, minute, d) \in Nat
BY CostsType, LimiterAssumption, UnitsFinite, FS_CardinalityType DEF Used, Total

\* A step of one call changes what its key used by what the call costs.
LEMMA UsedChanges ==
  ASSUME LimiterType, LimiterType', NEW id \in Ids, \A j \in Ids \ {id} : rv'[j] = rv[j],
         NEW k, NEW minute, NEW d \in Dims
  PROVE  /\ Used(k, minute, d) \in Nat /\ Used(k, minute, d)' \in Nat
         /\ Costs(k, minute, d)[id] \in Nat /\ Costs(k, minute, d)'[id] \in Nat
         /\ Used(k, minute, d)' =
              Used(k, minute, d) - Costs(k, minute, d)[id] + Costs(k, minute, d)'[id]
<1>1. Costs(k, minute, d) \in [Ids -> Nat] /\ Costs(k, minute, d)' \in [Ids -> Nat]
  BY CostsType, CostsTypeNext
<1>2. \A j \in Ids \ {id} : Costs(k, minute, d)'[j] = Costs(k, minute, d)[j]
  <2>1. \A j \in Ids \ {id} : Charge(j, d)' = Charge(j, d)
    BY DEF Charge, Dims
  <2> QED BY <2>1 DEF Costs
<1> QED BY <1>1, <1>2, LimiterAssumption, TotalChanges DEF Used

\* A step of one call that leaves what it costs alone.
LEMMA UsedSame ==
  ASSUME LimiterType, LimiterType', NEW id \in Ids, \A j \in Ids \ {id} : rv'[j] = rv[j],
         \/ ~ Counted(id) /\ ~ Counted(id)'
         \/ /\ rv'[id].key = rv[id].key /\ rv'[id].minute = rv[id].minute
            /\ \A d \in Dims : Charge(id, d)' = Charge(id, d),
         NEW k, NEW minute, NEW d \in Dims
  PROVE  Used(k, minute, d)' = Used(k, minute, d)
<1>1. Costs(k, minute, d)'[id] = Costs(k, minute, d)[id]
  <2>1. CASE ~ Counted(id) /\ ~ Counted(id)'
    BY <2>1 DEF Counted, Costs, Charge
  <2>2. CASE /\ rv'[id].key = rv[id].key /\ rv'[id].minute = rv[id].minute
             /\ \A e \in Dims : Charge(id, e)' = Charge(id, e)
    BY <2>2 DEF Costs
  <2> QED BY <2>1, <2>2
<1> QED BY <1>1, UsedChanges

\* Where neither the counters nor what is used change, the invariant stays.
LEMMA QuietStep ==
  ASSUME LimiterInv, LimiterType', state' = state, now' = now,
         \A k \in Keys, minute \in Nat, d \in Dims : Used(k, minute, d)' = Used(k, minute, d)
  PROVE  LimiterInv'
<1>1. CountersWithinLimit'
  BY DEF LimiterInv, CountersWithinLimit
<1>2. Justified'
  BY DEF LimiterInv, LimiterType, Counters, Justified
<1>3. ExactWithinMinute'
  BY DEF LimiterInv, ExactWithinMinute
<1> QED BY <1>1, <1>2, <1>3 DEF LimiterInv

-----------------------------------------------------------------------------
(* The steps.                                                              *)

\* reserve reads the clock before it takes the lock: nothing is counted yet.
LEMMA ReadClockStep ==
  ASSUME LimiterInv, NEW id \in Ids, NEW k \in Keys, NEW prompt \in 1..MaxPrompt,
         NEW generated \in 0..MaxOutput, ReadClock(id, k, prompt, generated)
  PROVE  LimiterInv'
<1>a. /\ rv \in [Ids -> Call] /\ now \in Nat /\ prompt \in Nat /\ generated \in Nat
      /\ now' = now /\ state' = state /\ rv[id].at = "none"
      /\ rv' = [rv EXCEPT ![id] = [at |-> "reserving", key |-> k, minute |-> now,
                                   prompt |-> prompt, generated |-> generated, refund |-> 0]]
  BY LimiterAssumption DEF LimiterInv, LimiterType, ReadClock
<1>b. /\ rv' \in [Ids -> Call] /\ \A j \in Ids \ {id} : rv'[j] = rv[j]
      /\ rv'[id].at = "reserving" /\ rv'[id].refund <= rv'[id].generated /\ rv'[id].minute = now
  BY <1>a DEF Call, Positions
<1>1. LimiterType'
  BY <1>a, <1>b DEF LimiterInv, LimiterType
<1>2. \A q \in Keys, minute \in Nat, d \in Dims : Used(q, minute, d)' = Used(q, minute, d)
  BY <1>a, <1>b, <1>1, UsedSame DEF LimiterInv, Counted
<1> QED BY <1>a, <1>1, <1>2, QuietStep

\* The steps that move a counted call without counters.
LEMMA MoveStep ==
  ASSUME LimiterInv, NEW id \in Ids, NEW at \in {"open", "refunding", "closed", "lost"},
         NEW refund \in Nat, rv[id].at \in {"counted", "open", "refunding"},
         refund <= rv[id].generated,
         at = "closed" => refund = 0,
         rv' = [rv EXCEPT ![id].at = at, ![id].refund = refund], UNCHANGED <<now, state>>
  PROVE  LimiterInv'
<1>a. rv \in [Ids -> Call] /\ rv[id] \in Call
  BY DEF LimiterInv, LimiterType
<1>b. /\ rv' \in [Ids -> Call] /\ \A j \in Ids \ {id} : rv'[j] = rv[j]
      /\ rv'[id].at = at /\ rv'[id].refund = refund /\ rv'[id].generated = rv[id].generated
      /\ rv'[id].key = rv[id].key /\ rv'[id].minute = rv[id].minute
      /\ rv'[id].prompt = rv[id].prompt
  BY <1>a DEF Call, Positions
<1>1. LimiterType'
  BY <1>a, <1>b DEF LimiterInv, LimiterType
<1>2. \A d \in Dims : Charge(id, d)' = Charge(id, d)
  BY <1>a, <1>b DEF Charge, Dims, Call
<1>3. \A q \in Keys, minute \in Nat, d \in Dims : Used(q, minute, d)' = Used(q, minute, d)
  BY <1>b, <1>1, <1>2, UsedSame DEF LimiterInv
<1> QED BY <1>1, <1>3, QuietStep

\* reserve's insertion of the reservation leaves the counters alone.
LEMMA InsertStep ==
  ASSUME LimiterInv, NEW id \in Ids, Insert(id)
  PROVE  LimiterInv'
<1> DEFINE at == "open"
           refund == rv[id].refund
<1>1. rv \in [Ids -> Call] /\ rv[id] \in Call
  BY DEF LimiterInv, LimiterType
<1>2. refund \in Nat /\ refund <= rv[id].generated
  BY <1>1 DEF LimiterInv, LimiterType, Call
<1>3. rv' = [rv EXCEPT ![id].at = at, ![id].refund = refund] /\ rv[id].at = "counted"
      /\ UNCHANGED <<now, state>>
  BY <1>1 DEF Insert, Call
<1>4. at \in {"open", "refunding", "closed", "lost"} /\ (at = "closed" => refund = 0)
  OBVIOUS
<1> HIDE DEF at, refund
<1> QED BY <1>2, <1>3, <1>4, MoveStep

\* A dropped future leaves the counters as they are, and its cost with them.
LEMMA DroppedStep ==
  ASSUME LimiterInv, NEW id \in Ids, Dropped(id)
  PROVE  LimiterInv'
<1> DEFINE refund == rv[id].refund
<1>1. rv \in [Ids -> Call] /\ rv[id] \in Call /\ UNCHANGED <<now, state>>
  BY DEF LimiterInv, LimiterType, Dropped
<1>2. refund \in Nat /\ refund <= rv[id].generated
  BY <1>1 DEF LimiterInv, LimiterType, Call
<1>3. CASE rv[id].at = "reserving"
  <2>1. rv' = [rv EXCEPT ![id].at = "refused"]
    BY <1>1, <1>3 DEF Dropped
  <2>2. /\ rv' \in [Ids -> Call] /\ \A j \in Ids \ {id} : rv'[j] = rv[j]
        /\ rv'[id].at = "refused" /\ rv'[id].minute = rv[id].minute
        /\ rv'[id].refund = rv[id].refund /\ rv'[id].generated = rv[id].generated
    BY <1>1, <2>1 DEF Call, Positions
  <2>3. LimiterType'
    BY <1>1, <2>2 DEF LimiterInv, LimiterType
  <2>4. \A q \in Keys, minute \in Nat, d \in Dims : Used(q, minute, d)' = Used(q, minute, d)
    BY <1>3, <2>2, <2>3, UsedSame DEF LimiterInv, Counted
  <2> QED BY <1>1, <2>3, <2>4, QuietStep
<1>4. CASE rv[id].at \in {"counted", "refunding"}
  <2>1. rv' = [rv EXCEPT ![id].at = "lost", ![id].refund = refund]
    BY <1>1, <1>4 DEF Dropped, Call
  <2> HIDE DEF refund
  <2> QED BY <1>1, <1>2, <1>4, <2>1, MoveStep
<1> QED BY <1>3, <1>4 DEF Dropped

\* reconcile and cancel take the reservation out; the refund is yet to be made.
LEMMA RemoveStep ==
  ASSUME LimiterInv, NEW id \in Ids, NEW actual \in 0..(MaxOutput + 1), Remove(id, actual)
  PROVE  LimiterInv'
<1> DEFINE refund == IF rv[id].generated > actual THEN rv[id].generated - actual ELSE 0
           at == IF refund = 0 THEN "closed" ELSE "refunding"
<1>1. rv[id] \in Call /\ actual \in Nat
  BY LimiterAssumption DEF LimiterInv, LimiterType
<1>2. refund \in Nat /\ refund <= rv[id].generated
  BY <1>1 DEF Call
<1>3. rv' = [rv EXCEPT ![id].at = at, ![id].refund = refund] /\ rv[id].at = "open"
      /\ UNCHANGED <<now, state>>
  BY DEF Remove
<1>4. at \in {"open", "refunding", "closed", "lost"} /\ (at = "closed" => refund = 0)
  OBVIOUS
<1> HIDE DEF at, refund
<1> QED BY <1>2, <1>3, <1>4, MoveStep

\* When the clock moves, no counter is of the current minute.
LEMMA TickStep ==
  ASSUME LimiterInv, Tick
  PROVE  LimiterInv'
<1>1. now \in Nat /\ now' = now + 1 /\ state' = state /\ rv' = rv
  BY DEF LimiterInv, LimiterType, Tick
<1>2. LimiterType'
  BY <1>1 DEF LimiterInv, LimiterType, Call, Counters
<1>3. \A k \in Keys, minute \in Nat, d \in Dims : Used(k, minute, d)' = Used(k, minute, d)
  BY <1>1 DEF Used, Costs, Charge
<1>4. CountersWithinLimit' /\ Justified'
  BY <1>1, <1>3 DEF LimiterInv, LimiterType, Counters, CountersWithinLimit, Justified
<1>5. ExactWithinMinute'
  BY <1>1 DEF ExactWithinMinute
<1> QED BY <1>2, <1>4, <1>5 DEF LimiterInv

\* What reserve finds under the mutex: the counters of the call's minute, or new ones.
LEMMA WindowFacts ==
  ASSUME LimiterInv, NEW id \in Ids
  PROVE  /\ rv[id] \in Call /\ Window(id) \in Counters /\ Window(id).window = rv[id].minute
         /\ \A d \in Dims : Window(id)[d] \in Nat
                            /\ Window(id)[d] <= Used(rv[id].key, rv[id].minute, d)
         /\ \A d \in Dims : Window(id)[d] <= Limit[d]
         /\ now = 0 => Window(id) = state[rv[id].key] /\ rv[id].minute = 0
<1> DEFINE k == rv[id].key
<1>1. /\ rv[id] \in Call /\ k \in Keys /\ state[k] \in Counters /\ now \in Nat
      /\ rv[id].minute \in Nat /\ rv[id].minute <= now /\ state[k].window <= now
  BY DEF LimiterInv, LimiterType, Call
<1>2. \A d \in Dims : Limit[d] \in Nat /\ Used(k, rv[id].minute, d) \in Nat
  BY LimiterAssumption, UsedType DEF LimiterInv
<1>3. Window(id) \in Counters /\ Window(id).window = rv[id].minute
  BY <1>1 DEF Window, Empty, Counters
<1>4. CASE state[k].window = rv[id].minute
  <2>1. Window(id) = state[k]
    BY <1>4 DEF Window
  <2>2. \A d \in Dims : state[k][d] <= Used(k, rv[id].minute, d)
    BY <1>1, <1>4 DEF LimiterInv, Justified
  <2>3. \A d \in Dims : state[k][d] \in Nat /\ state[k][d] <= Limit[d]
    BY <1>1 DEF LimiterInv, CountersWithinLimit, Counters, Dims
  <2> QED BY <1>1, <1>3, <2>1, <2>2, <2>3
<1>5. CASE state[k].window # rv[id].minute
  <2>1. Window(id) = Empty(rv[id].minute)
    BY <1>5 DEF Window
  <2>2. \A d \in Dims : Window(id)[d] = 0
    BY <2>1 DEF Empty, Dims
  <2>3. now # 0
    BY <1>1, <1>5 DEF Counters
  <2> QED BY <1>1, <1>2, <1>3, <2>2, <2>3
<1> QED BY <1>4, <1>5

\* reserve refuses: the window it began stays.
LEMMA RefuseStep ==
  ASSUME LimiterInv, NEW id \in Ids, Count(id), ~ Within(id)
  PROVE  LimiterInv'
<1> DEFINE k == rv[id].key
<1>a. /\ rv \in [Ids -> Call] /\ rv[id] \in Call /\ k \in Keys /\ state \in [Keys -> Counters]
      /\ rv[id].at = "reserving" /\ now' = now
      /\ state' = [state EXCEPT ![k] = Window(id)] /\ rv' = [rv EXCEPT ![id].at = "refused"]
  BY DEF LimiterInv, LimiterType, Count, Call
<1>b. /\ rv' \in [Ids -> Call] /\ \A j \in Ids \ {id} : rv'[j] = rv[j]
      /\ rv'[id].at = "refused" /\ rv'[id].refund = rv[id].refund
      /\ rv'[id].generated = rv[id].generated /\ rv'[id].minute = rv[id].minute
  BY <1>a DEF Call, Positions
<1>c. /\ Window(id) \in Counters /\ Window(id).window = rv[id].minute
      /\ state'[k] = Window(id) /\ \A q \in Keys \ {k} : state'[q] = state[q]
  BY <1>a, WindowFacts
<1>1. LimiterType'
  <2>1. state' \in [Keys -> Counters]
    BY <1>a, <1>c
  <2>2. \A q \in Keys : state'[q].window <= now
    BY <1>c DEF LimiterInv, LimiterType
  <2> QED BY <1>a, <1>b, <2>1, <2>2 DEF LimiterInv, LimiterType
<1>2. \A q \in Keys, minute \in Nat, d \in Dims : Used(q, minute, d)' = Used(q, minute, d)
  BY <1>a, <1>b, <1>1, UsedSame DEF LimiterInv, Counted
<1>3. CountersWithinLimit'
  <2>1. ASSUME NEW q \in Keys, NEW d \in Dims PROVE state'[q][d] <= Limit[d]
    <3>1. CASE q = k
      BY <1>c, <3>1, WindowFacts
    <3>2. CASE q # k
      BY <1>c, <3>2 DEF LimiterInv, CountersWithinLimit, Dims
    <3> QED BY <3>1, <3>2
  <2>2. \A q \in Keys : /\ state'[q]["requests"] <= Limit["requests"]
                        /\ state'[q]["prompt"] <= Limit["prompt"]
                        /\ state'[q]["generated"] <= Limit["generated"]
    BY <2>1 DEF Dims
  <2> QED BY <2>2 DEF CountersWithinLimit
<1>4. Justified'
  <2>1. ASSUME NEW q \in Keys, NEW d \in Dims, NEW minute \in Nat, state'[q].window = minute
        PROVE  state'[q][d] <= Used(q, minute, d)'
    <3>1. Used(q, minute, d)' = Used(q, minute, d)
      BY <1>2
    <3>2. CASE q = k
      BY <1>c, <2>1, <3>1, <3>2, WindowFacts
    <3>3. CASE q # k
      BY <1>c, <2>1, <3>1, <3>3 DEF LimiterInv, Justified
    <3> QED BY <3>2, <3>3
  <2> QED BY <2>1 DEF Justified
<1>5. ExactWithinMinute'
  <2>1. ASSUME now = 0, NEW q \in Keys, NEW d \in Dims PROVE state'[q][d] = Used(q, 0, d)'
    <3>1. state'[q] = state[q]
      BY <1>c, <2>1, WindowFacts
    <3> QED BY <1>2, <2>1, <3>1 DEF LimiterInv, ExactWithinMinute
  <2> QED BY <1>a, <2>1 DEF ExactWithinMinute
<1> QED BY <1>1, <1>3, <1>4, <1>5 DEF LimiterInv

\* reserve admits: every counter grows by what the call costs.
LEMMA AdmitStep ==
  ASSUME LimiterInv, NEW id \in Ids, Count(id), Within(id)
  PROVE  LimiterInv'
<1> DEFINE k == rv[id].key
           m == rv[id].minute
<1>a. /\ rv \in [Ids -> Call] /\ rv[id] \in Call /\ k \in Keys /\ m \in Nat /\ now' = now
      /\ state \in [Keys -> Counters] /\ rv[id].at = "reserving"
      /\ state' = [state EXCEPT ![k] =
                     [Window(id) EXCEPT !.requests = @ + 1, !.prompt = @ + rv[id].prompt,
                                        !.generated = @ + rv[id].generated]]
      /\ rv' = [rv EXCEPT ![id].at = "counted"]
  BY DEF LimiterInv, LimiterType, Count, Call
<1>b. /\ rv' \in [Ids -> Call] /\ \A j \in Ids \ {id} : rv'[j] = rv[j]
      /\ rv'[id].at = "counted" /\ rv'[id].refund = rv[id].refund
      /\ rv'[id].generated = rv[id].generated /\ rv'[id].prompt = rv[id].prompt
      /\ rv'[id].key = k /\ rv'[id].minute = m
  BY <1>a DEF Call, Positions
<1>c. /\ Window(id) \in Counters /\ Window(id).window = m
      /\ \A d \in Dims : Window(id)[d] \in Nat /\ Window(id)[d] <= Used(k, m, d)
      /\ now = 0 => Window(id) = state[k] /\ m = 0
  BY WindowFacts
<1>d. /\ state'[k] \in Counters /\ state'[k].window = m
      /\ state'[k].requests = Window(id).requests + 1
      /\ state'[k].prompt = Window(id).prompt + rv[id].prompt
      /\ state'[k].generated = Window(id).generated + rv[id].generated
      /\ \A q \in Keys \ {k} : state'[q] = state[q]
  <2> DEFINE a == Window(id).requests + 1
             b == Window(id).prompt + rv[id].prompt
             c == Window(id).generated + rv[id].generated
             w == [Window(id) EXCEPT !.requests = a, !.prompt = b, !.generated = c]
  <2>1. a \in Nat /\ b \in Nat /\ c \in Nat /\ Window(id) \in Counters /\ Window(id).window = m
    <3>1. rv[id].prompt \in Nat /\ rv[id].generated \in Nat
      BY <1>a DEF Call
    <3> QED BY <1>c, <3>1 DEF Counters
  <2>2. /\ w \in Counters /\ w.window = m /\ w.requests = a /\ w.prompt = b /\ w.generated = c
    <3> HIDE DEF a, b, c
    <3> DEFINE u  == Window(id)
               v1 == [u EXCEPT !.requests = a]
               v2 == [v1 EXCEPT !.prompt = b]
               v3 == [v2 EXCEPT !.generated = c]
    <3>1. w = v3
      BY <2>1 DEF Counters
    <3>2. u \in Counters /\ u.window = m
      BY <2>1
    <3> HIDE DEF u, w, m
    <3>3. v1 \in Counters /\ v1.window = m /\ v1.requests = a
      BY <2>1, <3>2 DEF Counters
    <3> HIDE DEF v1
    <3>4. v2 \in Counters /\ v2.window = m /\ v2.requests = a /\ v2.prompt = b
      BY <2>1, <3>3 DEF Counters
    <3> HIDE DEF v2
    <3>5. /\ v3 \in Counters /\ v3.window = m /\ v3.requests = a /\ v3.prompt = b
          /\ v3.generated = c
      BY <2>1, <3>4 DEF Counters
    <3> QED BY <3>1, <3>5
  <2>3. state' = [state EXCEPT ![k] = w]
    BY <1>a
  <2> HIDE DEF w
  <2> QED BY <1>a, <2>2, <2>3
<1>e. ASSUME NEW d \in Dims
      PROVE  Charge(id, d)' \in Nat /\ state'[k][d] = Window(id)[d] + Charge(id, d)'
  <2>1. rv[id].prompt \in Nat /\ rv[id].generated \in Nat
    BY <1>a DEF Call
  <2>2. /\ d = "requests" => Charge(id, d)' = 1
        /\ d = "prompt" => Charge(id, d)' = rv[id].prompt
        /\ d = "generated" => Charge(id, d)' = rv[id].generated
    BY <1>b, <2>1 DEF Charge
  <2> QED BY <1>d, <2>1, <2>2 DEF Dims
<1>f. ASSUME NEW d \in Dims PROVE state'[k][d] <= Limit[d]
  <2>1. Limit["requests"] \in Nat /\ Window(id).requests \in Nat
    BY <1>c, LimiterAssumption DEF Dims, Counters
  <2> QED BY <1>d, <2>1 DEF Dims, Within
<1> HIDE DEF k, m
<1>1. LimiterType'
  <2>1. state' \in [Keys -> Counters]
    BY <1>a, <1>d
  <2>2. \A q \in Keys : state'[q].window <= now
    BY <1>d DEF LimiterInv, LimiterType, m
  <2>3. \A j \in Ids : rv'[j].refund <= rv'[j].generated /\ rv'[j].minute <= now
    BY <1>b DEF LimiterInv, LimiterType, m
  <2> QED BY <1>a, <1>b, <2>1, <2>2, <2>3 DEF LimiterInv, LimiterType
<1>2. ASSUME NEW q \in Keys, NEW minute \in Nat, NEW d \in Dims
      PROVE  /\ Used(q, minute, d) \in Nat
             /\ Used(q, minute, d)' = Used(q, minute, d)
                  + (IF q = k /\ minute = m THEN Charge(id, d)' ELSE 0)
  <2>1. /\ Used(q, minute, d) \in Nat
        /\ Used(q, minute, d)' =
             Used(q, minute, d) - Costs(q, minute, d)[id] + Costs(q, minute, d)'[id]
    BY <1>b, <1>1, UsedChanges DEF LimiterInv
  <2>2. Costs(q, minute, d)[id] = 0
    BY <1>a DEF Costs, Charge
  <2>3. Costs(q, minute, d)'[id] = IF q = k /\ minute = m THEN Charge(id, d)' ELSE 0
    BY <1>b DEF Costs
  <2> QED BY <1>e, <2>1, <2>2, <2>3
<1>3. CountersWithinLimit'
  <2>1. ASSUME NEW q \in Keys, NEW d \in Dims PROVE state'[q][d] <= Limit[d]
    <3>1. CASE q = k
      BY <1>f, <3>1
    <3>2. CASE q # k
      BY <1>d, <3>2 DEF LimiterInv, CountersWithinLimit, Dims
    <3> QED BY <3>1, <3>2
  <2>2. \A q \in Keys : /\ state'[q]["requests"] <= Limit["requests"]
                        /\ state'[q]["prompt"] <= Limit["prompt"]
                        /\ state'[q]["generated"] <= Limit["generated"]
    BY <2>1 DEF Dims
  <2> QED BY <2>2 DEF CountersWithinLimit
<1>4. Justified'
  <2>1. ASSUME NEW q \in Keys, NEW d \in Dims, NEW minute \in Nat, state'[q].window = minute
        PROVE  state'[q][d] <= Used(q, minute, d)'
    <3>1. CASE q = k
      <4>1. minute = m
        BY <1>d, <2>1, <3>1
      <4>2. /\ Used(q, minute, d)' = Used(q, minute, d) + Charge(id, d)'
            /\ Used(q, minute, d) \in Nat
        BY <1>2, <3>1, <4>1
      <4>3. Window(id)[d] \in Nat /\ Window(id)[d] <= Used(q, minute, d)
        BY <1>c, <3>1, <4>1
      <4> QED BY <1>e, <3>1, <4>2, <4>3
    <3>2. CASE q # k
      <4>1. Used(q, minute, d)' = Used(q, minute, d)
        BY <1>2, <3>2
      <4> QED BY <1>d, <2>1, <3>2, <4>1 DEF LimiterInv, Justified
    <3> QED BY <3>1, <3>2
  <2> QED BY <2>1 DEF Justified
<1>5. ExactWithinMinute'
  <2>1. ASSUME now = 0, NEW q \in Keys, NEW d \in Dims PROVE state'[q][d] = Used(q, 0, d)'
    <3>1. state[q][d] = Used(q, 0, d)
      BY <2>1 DEF LimiterInv, ExactWithinMinute
    <3>2. CASE q = k
      BY <1>c, <1>e, <1>2, <2>1, <3>1, <3>2
    <3>3. CASE q # k
      BY <1>d, <1>2, <2>1, <3>1, <3>3
    <3> QED BY <3>2, <3>3
  <2> QED BY <1>a, <2>1 DEF ExactWithinMinute
<1> QED BY <1>1, <1>3, <1>4, <1>5 DEF LimiterInv

\* The refund, to whatever window the key has.
LEMMA RefundStep ==
  ASSUME LimiterInv, NEW id \in Ids, Refund(id)
  PROVE  LimiterInv'
<1> DEFINE k == rv[id].key
           m == rv[id].minute
           r == rv[id].refund
<1>a. /\ rv \in [Ids -> Call] /\ rv[id] \in Call /\ k \in Keys /\ m \in Nat /\ now' = now
      /\ state \in [Keys -> Counters] /\ rv[id].at = "refunding"
      /\ state' = [state EXCEPT ![k].generated = IF @ > r THEN @ - r ELSE 0]
      /\ rv' = [rv EXCEPT ![id].at = "closed"] /\ r \in Nat /\ r <= rv[id].generated
  BY DEF LimiterInv, LimiterType, Refund, Call
<1>b. /\ rv' \in [Ids -> Call] /\ \A j \in Ids \ {id} : rv'[j] = rv[j]
      /\ rv'[id].at = "closed" /\ rv'[id].refund = r
      /\ rv'[id].generated = rv[id].generated /\ rv'[id].prompt = rv[id].prompt
      /\ rv'[id].key = k /\ rv'[id].minute = m
  BY <1>a DEF Call, Positions
<1>c. /\ state'[k] \in Counters /\ state'[k].window = state[k].window
      /\ state'[k].requests = state[k].requests /\ state'[k].prompt = state[k].prompt
      /\ state'[k].generated =
           IF state[k].generated > r THEN state[k].generated - r ELSE 0
      /\ \A q \in Keys \ {k} : state'[q] = state[q]
  BY <1>a DEF Counters
<1>d. /\ Charge(id, "requests")' = Charge(id, "requests")
      /\ Charge(id, "prompt")' = Charge(id, "prompt")
      /\ Charge(id, "generated") = rv[id].generated /\ rv[id].generated \in Nat
      /\ Charge(id, "generated")' = rv[id].generated - r
  BY <1>a, <1>b DEF Charge, Call
<1> HIDE DEF k, m, r
<1>1. LimiterType'
  <2>1. state' \in [Keys -> Counters] /\ \A q \in Keys : state'[q].window <= now
    BY <1>a, <1>c DEF LimiterInv, LimiterType
  <2>2. \A j \in Ids : rv'[j].refund <= rv'[j].generated /\ rv'[j].minute <= now
    BY <1>a, <1>b DEF LimiterInv, LimiterType, m
  <2> QED BY <1>a, <1>b, <2>1, <2>2 DEF LimiterInv, LimiterType
<1>2. ASSUME NEW q \in Keys, NEW minute \in Nat, NEW d \in Dims
      PROVE  /\ Used(q, minute, d) \in Nat /\ Used(q, minute, d)' \in Nat
             /\ Used(q, minute, d)' = Used(q, minute, d)
                  - (IF q = k /\ minute = m /\ d = "generated" THEN r ELSE 0)
  <2>1. /\ Used(q, minute, d) \in Nat /\ Used(q, minute, d)' \in Nat
        /\ Costs(q, minute, d)[id] \in Nat
        /\ Used(q, minute, d)' =
             Used(q, minute, d) - Costs(q, minute, d)[id] + Costs(q, minute, d)'[id]
    BY <1>b, <1>1, UsedChanges DEF LimiterInv
  <2>2. CASE q = k /\ minute = m
    <3>1. Costs(q, minute, d)[id] = Charge(id, d) /\ Costs(q, minute, d)'[id] = Charge(id, d)'
      BY <1>b, <2>2 DEF Costs, k, m
    <3> QED BY <1>a, <1>d, <2>1, <2>2, <3>1 DEF Dims
  <2>3. CASE ~ (q = k /\ minute = m)
    <3>1. Costs(q, minute, d)[id] = 0 /\ Costs(q, minute, d)'[id] = 0
      BY <1>b, <2>3 DEF Costs, k, m
    <3> QED BY <2>1, <2>3, <3>1
  <2> QED BY <2>2, <2>3
<1>3. CountersWithinLimit'
  <2>1. \A q \in Keys : state[q] \in Counters
    BY <1>a
  <2> QED BY <1>a, <1>c, <2>1, LimiterAssumption DEF LimiterInv, CountersWithinLimit, Counters, Dims
<1>4. Justified'
  <2>1. ASSUME NEW q \in Keys, NEW d \in Dims, NEW minute \in Nat, state'[q].window = minute
        PROVE  state'[q][d] <= Used(q, minute, d)'
    <3>1. /\ state[q].window = minute /\ state[q] \in Counters
          /\ state[q][d] <= Used(q, minute, d)
      BY <1>a, <1>c, <2>1 DEF LimiterInv, Justified
    <3>2. /\ Used(q, minute, d) \in Nat /\ Used(q, minute, d)' \in Nat
          /\ Used(q, minute, d)' = Used(q, minute, d)
               - (IF q = k /\ minute = m /\ d = "generated" THEN r ELSE 0)
      BY <1>2
    <3>3. CASE q = k /\ d = "generated"
      <4>1. /\ state'[q][d] = IF state[q][d] > r THEN state[q][d] - r ELSE 0
            /\ state[q][d] \in Nat
        BY <1>c, <3>1, <3>3 DEF Counters
      <4> QED BY <1>a, <3>1, <3>2, <4>1
    <3>4. CASE ~ (q = k /\ d = "generated")
      <4>1. state'[q][d] = state[q][d]
        BY <1>c, <3>4 DEF Dims
      <4> QED BY <3>1, <3>2, <3>4, <4>1
    <3> QED BY <3>3, <3>4
  <2> QED BY <2>1 DEF Justified
<1>5. ExactWithinMinute'
  <2>1. ASSUME now = 0, NEW q \in Keys, NEW d \in Dims PROVE state'[q][d] = Used(q, 0, d)'
    <3>1. state[q][d] = Used(q, 0, d) /\ m = 0
      BY <1>a, <2>1 DEF LimiterInv, LimiterType, ExactWithinMinute, m
    <3>2. /\ Used(q, 0, d) \in Nat
          /\ Used(q, 0, d)' = Used(q, 0, d) - (IF q = k /\ d = "generated" THEN r ELSE 0)
      BY <1>2, <3>1
    <3>3. CASE q = k /\ d = "generated"
      <4>1. state'[q][d] = IF state[q][d] > r THEN state[q][d] - r ELSE 0
        BY <1>c, <3>3
      <4>2. r <= Used(q, 0, d)
        <5>1. Costs(q, 0, d)[id] = rv[id].generated
          BY <1>d, <3>1, <3>3 DEF Costs, k, m
        <5>2. Costs(q, 0, d)[id] <= Used(q, 0, d)
          BY CostsType, LimiterAssumption, TotalAtLeast DEF LimiterInv, Used
        <5> QED BY <1>a, <1>d, <3>2, <5>1, <5>2
      <4> QED BY <1>a, <3>1, <3>2, <3>3, <4>1, <4>2
    <3>4. CASE ~ (q = k /\ d = "generated")
      <4>1. state'[q][d] = state[q][d]
        BY <1>c, <3>4 DEF Dims
      <4> QED BY <3>1, <3>2, <3>4, <4>1
    <3> QED BY <3>3, <3>4
  <2> QED BY <1>a, <2>1 DEF ExactWithinMinute
<1> QED BY <1>1, <1>3, <1>4, <1>5 DEF LimiterInv

-----------------------------------------------------------------------------
(***************************************************************************)
(* The inductive invariant holds in every reachable state.                 *)
(***************************************************************************)
THEOREM LimiterInvariant == Spec => []LimiterInv
<1>1. Init => LimiterInv
  <2> SUFFICES ASSUME Init PROVE LimiterInv
    OBVIOUS
  <2>1. (CHOOSE k \in Keys : TRUE) \in Keys
    BY LimiterAssumption
  <2>2. /\ LimiterType /\ \A id \in Ids : rv[id].at = "none"
        /\ \A k \in Keys : state[k] = Empty(0)
    BY <2>1 DEF Init, LimiterType, Call, Positions, Counters, Empty
  <2>3. ASSUME NEW k \in Keys, NEW d \in Dims PROVE Limit[d] \in Nat /\ state[k][d] = 0
    BY <2>2, LimiterAssumption DEF Empty, Dims
  <2>4. ASSUME NEW k \in Keys, NEW minute \in Nat, NEW d \in Dims PROVE Used(k, minute, d) = 0
    <3>1. \A id \in Ids : Costs(k, minute, d)[id] = 0
      BY <2>2 DEF Costs, Charge
    <3> QED BY <2>2, <3>1, CostsType, TotalZero DEF Used
  <2>5. CountersWithinLimit
    <3>1. \A k \in Keys : /\ state[k]["requests"] <= Limit["requests"]
                          /\ state[k]["prompt"] <= Limit["prompt"]
                          /\ state[k]["generated"] <= Limit["generated"]
      BY <2>3 DEF Dims
    <3> QED BY <3>1 DEF CountersWithinLimit
  <2>6. Justified /\ ExactWithinMinute
    BY <2>3, <2>4 DEF Justified, ExactWithinMinute
  <2> QED BY <2>2, <2>5, <2>6 DEF LimiterInv
<1>2. LimiterInv /\ [Next]_vars => LimiterInv'
  <2> SUFFICES ASSUME LimiterInv, [Next]_vars PROVE LimiterInv'
    OBVIOUS
  <2>1. CASE Tick
    BY <2>1, TickStep
  <2>2. ASSUME NEW id \in Ids, NEW k \in Keys, NEW prompt \in 1..MaxPrompt,
               NEW generated \in 0..MaxOutput, ReadClock(id, k, prompt, generated)
        PROVE  LimiterInv'
    BY <2>2, ReadClockStep
  <2>3. ASSUME NEW id \in Ids, Count(id) PROVE LimiterInv'
    BY <2>3, AdmitStep, RefuseStep
  <2>4. ASSUME NEW id \in Ids, Insert(id) PROVE LimiterInv'
    BY <2>4, InsertStep
  <2>5. ASSUME NEW id \in Ids, NEW actual \in 0..(MaxOutput + 1), Remove(id, actual)
        PROVE  LimiterInv'
    BY <2>5, RemoveStep
  <2>6. ASSUME NEW id \in Ids, Refund(id) PROVE LimiterInv'
    BY <2>6, RefundStep
  <2>7. ASSUME NEW id \in Ids, Dropped(id) PROVE LimiterInv'
    BY <2>7, DroppedStep
  <2>8. CASE UNCHANGED vars
    <3>1. now' = now /\ state' = state /\ rv' = rv
      BY <2>8 DEF vars
    <3>2. LimiterType'
      BY <3>1 DEF LimiterInv, LimiterType
    <3>3. \A k \in Keys, minute \in Nat, d \in Dims : Used(k, minute, d)' = Used(k, minute, d)
      BY <3>1 DEF Used, Costs, Charge
    <3> QED BY <3>1, <3>2, <3>3, QuietStep
  <2> QED BY <2>1, <2>2, <2>3, <2>4, <2>5, <2>6, <2>7, <2>8 DEF Next
<1> QED BY <1>1, <1>2, PTL DEF Spec

\* No counter of InMemoryQuotaLimiter is ever above its limit.
THEOREM LimiterWithinLimit == Spec => []CountersWithinLimit
<1>1. LimiterInv => CountersWithinLimit
  BY DEF LimiterInv
<1> QED BY <1>1, LimiterInvariant, PTL

\* Until the clock moves, the counters of reserve and reconcile are exact.
THEOREM LimiterExact == Spec => []ExactWithinMinute
<1>1. LimiterInv => ExactWithinMinute
  BY DEF LimiterInv
<1> QED BY <1>1, LimiterInvariant, PTL

\* However windows change, no counter holds more than the calls of its window cost.
THEOREM LimiterJustified == Spec => []CountersJustified
<1>1. LimiterInv => CountersJustified
  BY DEF LimiterInv, LimiterType, Counters, Justified, CountersJustified
<1> QED BY <1>1, LimiterInvariant, PTL
=============================================================================
