------------------------- MODULE QuotaLedgerProofs -------------------------
(***************************************************************************)
(* The quota scripts, for every number of keys, reservations and ticks,    *)
(* every limit and every lag the counters' lifetime allows for.            *)
(*                                                                         *)
(* The argument: two requests with the same bucket were asked for less     *)
(* than a minute apart, so when a script runs, at most MaxLag late, every  *)
(* reservation of its minute is younger than Ttl; a counter lives at least *)
(* as long as each reservation it was raised for.  Hence a script never    *)
(* finds a counter gone that still has something to count.                 *)
(***************************************************************************)
EXTENDS QuotaLedger, TotalsProofs

\* No counter the reservation was counted in dies before it.
Covered(id) == \A d \in Dims : rv[id].dies <= counter[CellOf(id, d)].dies

\* A reservation's bucket is the minute it was asked in, it gives back no more than it took,
\* and while it counts it lives Ttl from then at least, and its counters outlive it.
Entry(id) ==
  /\ rv[id].bucket \in Buckets
  /\ rv[id].asked <= now
  /\ rv[id].refund <= rv[id].generated
  /\ rv[id].status # "reconciled" => rv[id].refund = 0
  /\ rv[id].status # "none" => rv[id].bucket = rv[id].asked \div Window
  /\ rv[id].status \in Admitted => rv[id].asked + Ttl <= rv[id].dies /\ Covered(id)

\* The inductive invariant: the properties, and what Entry and the clock bound.
LedgerInv ==
  /\ TypeOK
  /\ now <= MaxTime
  /\ \A id \in Ids : Entry(id)
  /\ \A c \in Cells : counter[c].dies <= now + Ttl
  /\ NoImmortalCounter
  /\ CountersExact
  /\ WithinLimit

-----------------------------------------------------------------------------
\* Two times in the same minute are less than a minute apart.
LEMMA SameMinute ==
  ASSUME NEW a \in Nat, NEW b \in Nat, a \div Window = b \div Window
  PROVE  a < b + Window
BY ClockAssumption

\* The minutes of the run are buckets.
LEMMA MinuteIsBucket ==
  ASSUME NEW t \in Nat, t <= MaxTime
  PROVE  t \div Window \in Buckets /\ t \div Window \in Nat
BY ClockAssumption DEF Buckets

\* A reservation is counted in a counter of the ledger.
LEMMA CellOfType ==
  ASSUME TypeOK, NEW id \in Ids, Entry(id), NEW d \in Dims
  PROVE  CellOf(id, d) \in Cells
BY DEF TypeOK, Reservation, Entry, CellOf, Cells

\* What each reservation costs a counter is a natural number: no refund exceeds it.
LEMMA CostsType ==
  ASSUME TypeOK, \A id \in Ids : Entry(id), NEW c \in Cells
  PROVE  Costs(c) \in [Ids -> Nat]
<1>1. ASSUME NEW id \in Ids, NEW d \in Dims PROVE Charge(id, d) \in Nat
  <2>1. rv[id] \in Reservation /\ Entry(id)
    BY DEF TypeOK
  <2> QED BY <2>1 DEF Reservation, Entry, Charge, Amount, Dims
<1> QED BY <1>1 DEF Costs, Cells

\* A step of one reservation changes what a cell is charged by what that reservation costs.
LEMMA CostsChange ==
  ASSUME TypeOK, \A j \in Ids : Entry(j), TypeOK', \A j \in Ids : Entry(j)',
         NEW id \in Ids, \A j \in Ids \ {id} : rv'[j] = rv[j], NEW c \in Cells
  PROVE  /\ Total(Costs(c)) \in Nat /\ Total(Costs(c))' \in Nat
         /\ Costs(c)[id] \in Nat /\ Costs(c)'[id] \in Nat
         /\ Total(Costs(c))' = Total(Costs(c)) - Costs(c)[id] + Costs(c)'[id]
<1>1. Costs(c) \in [Ids -> Nat]
  BY CostsType
<1>2. Costs(c)' \in [Ids -> Nat]
  <2>1. ASSUME NEW j \in Ids, NEW d \in Dims PROVE Charge(j, d)' \in Nat
    <3>1. rv'[j] \in Reservation /\ Entry(j)'
      BY DEF TypeOK
    <3> QED BY <3>1 DEF Reservation, Entry, Charge, Amount, Dims
  <2> QED BY <2>1 DEF Costs, Cells
<1>3. \A j \in Ids \ {id} : Costs(c)'[j] = Costs(c)[j]
  <2>1. \A j \in Ids \ {id} : Charge(j, c[3])' = Charge(j, c[3])
    BY DEF Charge
  <2> QED BY <2>1 DEF Costs
<1> QED BY <1>1, <1>2, <1>3, KeysAssumption, TotalChanges

\* A step of a request that is not admitted and will not be costs nothing.
LEMMA CostsSame ==
  ASSUME NEW id \in Ids, \A j \in Ids \ {id} : rv'[j] = rv[j],
         rv[id].status \notin {"reserved", "reconciled"},
         rv'[id].status \notin {"reserved", "reconciled"}, NEW c \in Cells
  PROVE  Costs(c)' = Costs(c)
<1>1. ASSUME NEW j \in Ids PROVE Costs(c)'[j] = Costs(c)[j]
  <2>1. CASE j = id
    BY <2>1 DEF Costs, Charge
  <2>2. CASE j # id
    <3>1. Charge(j, c[3])' = Charge(j, c[3])
      BY <2>2 DEF Charge
    <3> QED BY <2>2, <3>1 DEF Costs
  <2> QED BY <2>1, <2>2
<1> QED BY <1>1 DEF Costs

\* What a script that still may run reads from a counter is what the cell is charged: a
\* counter that is gone has nothing to count.
LEMMA GetIsTotal ==
  ASSUME LedgerInv, NEW id \in Ids, rv[id].status = "asked", now <= rv[id].asked + MaxLag,
         NEW c \in Cells, c[1] = rv[id].key, c[2] = rv[id].bucket
  PROVE  Get(c) = Total(Costs(c)) /\ Get(c) \in Nat
<1>1. CASE Exists(c)
  <2>1. Get(c) = Total(Costs(c))
    BY <1>1 DEF LedgerInv, CountersExact, Get
  <2>2. Total(Costs(c)) \in Nat
    BY CostsType, KeysAssumption, UnitsFinite, FS_CardinalityType DEF LedgerInv, Total
  <2> QED BY <2>1, <2>2
<1>2. CASE ~ Exists(c)
  <2>1. ASSUME NEW j \in Ids, rv[j].key = c[1], rv[j].bucket = c[2], rv[j].status \in Admitted
        PROVE  FALSE
    <3>1. /\ Entry(id) /\ Entry(j) /\ rv[id] \in Reservation /\ rv[j] \in Reservation
          /\ counter[c] \in Counter /\ now \in Nat
      BY DEF LedgerInv, TypeOK
    <3>2. rv[id].asked < rv[j].asked + Window
      <4>1. rv[id].asked \div Window = rv[j].asked \div Window
        BY <2>1, <3>1 DEF Entry, Admitted
      <4> QED BY <3>1, <4>1, SameMinute DEF Reservation
    <3>3. c[3] \in Dims /\ c = CellOf(j, c[3])
      BY <2>1 DEF Cells, CellOf
    <3>4. rv[j].asked + Ttl <= rv[j].dies /\ rv[j].dies <= counter[c].dies
      BY <2>1, <3>1, <3>3 DEF Entry, Covered
    <3>5. now < counter[c].dies
      BY <3>1, <3>2, <3>4, ClockAssumption DEF Reservation, Counter
    <3> QED BY <1>2, <3>5 DEF Exists
  <2>2. \A j \in Ids : Costs(c)[j] = 0
    <3>1. ASSUME NEW j \in Ids PROVE Costs(c)[j] = 0
      <4>1. CASE ~ (rv[j].key = c[1] /\ rv[j].bucket = c[2])
        BY <4>1 DEF Costs
      <4>2. CASE rv[j].key = c[1] /\ rv[j].bucket = c[2]
        <5>1. rv[j].status \notin {"reserved", "reconciled"}
          BY <2>1, <4>2 DEF LedgerInv, TypeOK, Reservation, States, Admitted
        <5> QED BY <4>2, <5>1 DEF Costs, Charge
      <4> QED BY <4>1, <4>2
    <3> QED BY <3>1
  <2>3. Total(Costs(c)) = 0
    BY <2>2, CostsType, TotalZero DEF LedgerInv
  <2> QED BY <1>2, <2>3 DEF Get
<1> QED BY <1>1, <1>2

-----------------------------------------------------------------------------
(* The steps.                                                              *)

\* Time only makes counters go.
LEMMA TickStep ==
  ASSUME LedgerInv, Tick
  PROVE  LedgerInv'
<1>1. /\ now \in Nat /\ now' = now + 1 /\ now' <= MaxTime /\ counter' = counter /\ rv' = rv
  BY ClockAssumption DEF LedgerInv, TypeOK, Tick
<1>2. TypeOK' /\ (now <= MaxTime)' /\ NoImmortalCounter'
  BY <1>1 DEF LedgerInv, TypeOK, NoImmortalCounter
<1>3. \A id \in Ids : Entry(id)'
  <2>1. ASSUME NEW id \in Ids PROVE Entry(id)'
    <3>1. Entry(id) /\ rv[id].asked \in Nat
      BY DEF LedgerInv, TypeOK, Reservation
    <3> QED BY <1>1, <3>1 DEF Entry, Covered, CellOf
  <2> QED BY <2>1
<1>4. \A c \in Cells : (counter[c].dies <= now + Ttl)'
  BY <1>1, ClockAssumption DEF LedgerInv, TypeOK, Counter
<1>5. \A c \in Cells : Costs(c)' = Costs(c)
  BY <1>1 DEF Costs, Charge
<1>6. \A c \in Cells : Exists(c)' => Exists(c)
  BY <1>1 DEF Exists, LedgerInv, TypeOK, Counter
<1>7. CountersExact' /\ WithinLimit'
  BY <1>1, <1>5, <1>6 DEF LedgerInv, CountersExact, WithinLimit
<1> QED BY <1>2, <1>3, <1>4, <1>7 DEF LedgerInv

\* A request that has not been admitted costs nothing.
LEMMA AskStep ==
  ASSUME LedgerInv, NEW id \in Ids, NEW k \in Keys, Ask(id, k)
  PROVE  LedgerInv'
<1>a. /\ rv \in [Ids -> Reservation] /\ rv[id] \in Reservation /\ now \in Nat /\ now <= MaxTime
      /\ Entry(id) /\ rv[id].status = "none"
  BY DEF LedgerInv, TypeOK, Ask
<1>b. now' = now /\ counter' = counter
  BY DEF Ask
<1>c. /\ rv' \in [Ids -> Reservation]
      /\ \A j \in Ids \ {id} : rv'[j] = rv[j]
      /\ rv'[id].status = "asked" /\ rv'[id].bucket = now \div Window /\ rv'[id].asked = now
      /\ rv'[id].refund = rv[id].refund /\ rv'[id].generated = rv[id].generated
  <2>1. now \div Window \in Nat
    BY <1>a, MinuteIsBucket
  <2> QED BY <1>a, <2>1 DEF Ask, Reservation, States
<1>1. TypeOK' /\ NoImmortalCounter' /\ \A c \in Cells : (counter[c].dies <= now + Ttl)'
  BY <1>b, <1>c DEF LedgerInv, TypeOK, NoImmortalCounter
<1>2. \A j \in Ids : Entry(j)'
  <2>1. Entry(id)'
    <3>1. now \div Window \in Buckets
      BY <1>a, MinuteIsBucket
    <3> QED BY <1>a, <1>b, <1>c, <3>1 DEF Entry, Admitted
  <2>2. ASSUME NEW j \in Ids \ {id} PROVE Entry(j)'
    BY <1>b, <1>c DEF LedgerInv, Entry, Covered, CellOf
  <2> QED BY <2>1, <2>2
<1>3. \A c \in Cells : Costs(c)' = Costs(c)
  BY <1>a, <1>c, CostsSame
<1>4. CountersExact' /\ WithinLimit'
  BY <1>b, <1>3 DEF LedgerInv, CountersExact, WithinLimit, Exists
<1> QED BY <1>a, <1>b, <1>1, <1>2, <1>4 DEF LedgerInv

\* The script refuses.
LEMMA RefuseStep ==
  ASSUME LedgerInv, NEW id \in Ids, rv[id].status = "asked",
         rv' = [rv EXCEPT ![id].status = "refused"], UNCHANGED <<now, counter>>
  PROVE  LedgerInv'
<1>a. /\ rv \in [Ids -> Reservation] /\ rv[id] \in Reservation
  BY DEF LedgerInv, TypeOK
<1>b. /\ rv' \in [Ids -> Reservation]
      /\ \A j \in Ids \ {id} : rv'[j] = rv[j]
      /\ rv'[id] = [rv[id] EXCEPT !.status = "refused"]
  BY <1>a DEF Reservation, States
<1>1. TypeOK' /\ NoImmortalCounter' /\ \A c \in Cells : (counter[c].dies <= now + Ttl)'
  BY <1>b DEF LedgerInv, TypeOK, NoImmortalCounter
<1>2. \A j \in Ids : Entry(j)'
  <2>1. Entry(id)'
    BY <1>a, <1>b DEF LedgerInv, Entry, Admitted, Reservation
  <2>2. ASSUME NEW j \in Ids \ {id} PROVE Entry(j)'
    BY <1>b DEF LedgerInv, Entry, Covered, CellOf
  <2> QED BY <2>1, <2>2
<1>3. \A c \in Cells : Costs(c)' = Costs(c)
  BY <1>a, <1>b, CostsSame DEF Reservation
<1>4. CountersExact' /\ WithinLimit'
  BY <1>3 DEF LedgerInv, CountersExact, WithinLimit, Exists
<1> QED BY <1>1, <1>2, <1>4 DEF LedgerInv

\* The script admits: it raises counters that are exact to what they must be.
LEMMA AdmitStep ==
  ASSUME LedgerInv, NEW id \in Ids, NEW prompt \in 1..MaxPrompt, NEW generated \in 0..MaxOutput,
         Reserve(id, prompt, generated), Fits(id, prompt, generated)
  PROVE  LedgerInv'
<1> DEFINE Mine(c) == c[1] = rv[id].key /\ c[2] = rv[id].bucket
           n(d) == Amount(d, prompt, generated)
<1>a. /\ rv \in [Ids -> Reservation] /\ rv[id] \in Reservation /\ now \in Nat /\ now' = now
      /\ counter \in [Cells -> Counter] /\ Entry(id) /\ prompt \in Nat /\ generated \in Nat
      /\ Ttl \in Nat /\ rv[id].status = "asked" /\ now <= rv[id].asked + MaxLag
  BY LimitAssumption, ClockAssumption DEF LedgerInv, TypeOK, Reserve
<1>b. /\ rv' \in [Ids -> Reservation]
      /\ \A j \in Ids \ {id} : rv'[j] = rv[j]
      /\ rv'[id].status = "reserved" /\ rv'[id].prompt = prompt
      /\ rv'[id].generated = generated /\ rv'[id].dies = now + Ttl
      /\ rv'[id].key = rv[id].key /\ rv'[id].bucket = rv[id].bucket
      /\ rv'[id].asked = rv[id].asked /\ rv'[id].refund = 0
  <2>1. rv' = [rv EXCEPT ![id].status = "reserved", ![id].prompt = prompt,
                         ![id].generated = generated, ![id].dies = now + Ttl]
    BY DEF Reserve
  <2>2. rv[id].refund = 0
    BY <1>a DEF Entry
  <2>3. now + Ttl \in Nat
    BY <1>a
  <2> QED BY <1>a, <2>1, <2>2, <2>3 DEF Reservation, States
<1>c. \A d \in Dims : n(d) \in Nat
  BY <1>a DEF Amount, Dims
<1>d. ASSUME NEW c \in Cells, Mine(c)
      PROVE  /\ Get(c) = Total(Costs(c)) /\ Get(c) \in Nat /\ c[3] \in Dims
             /\ counter'[c].value = Get(c) + n(c[3]) /\ counter'[c].dies = now + Ttl
             /\ ~ counter'[c].persistent /\ counter'[c] \in Counter
  <2>1. Get(c) = Total(Costs(c)) /\ Get(c) \in Nat
    BY <1>a, <1>d, GetIsTotal
  <2>2. c[3] \in Dims
    BY DEF Cells
  <2>3. counter'[c] = [value |-> Get(c) + n(c[3]), dies |-> now + Ttl, persistent |-> FALSE]
    BY <1>d DEF Reserve, IncrExpire
  <2>4. Get(c) + n(c[3]) \in Int /\ now + Ttl \in Nat
    BY <1>a, <1>c, <2>1, <2>2
  <2> QED BY <2>1, <2>2, <2>3, <2>4 DEF Counter
<1>e. ASSUME NEW c \in Cells, ~ Mine(c) PROVE counter'[c] = counter[c]
  BY <1>e DEF Reserve
<1> HIDE DEF Mine, n
<1>1. counter' \in [Cells -> Counter]
  <2>1. \A c \in Cells : counter'[c] \in Counter
    BY <1>a, <1>d, <1>e
  <2>2. counter' = [c \in Cells |-> counter'[c]]
    BY DEF Reserve
  <2> QED BY <2>1, <2>2
<1>2. TypeOK'
  BY <1>a, <1>b, <1>1 DEF TypeOK
<1>3. NoImmortalCounter' /\ \A c \in Cells : (counter[c].dies <= now + Ttl)'
  <2>1. ASSUME NEW c \in Cells PROVE ~ counter'[c].persistent /\ counter'[c].dies <= now + Ttl
    BY <1>a, <1>d, <1>e DEF LedgerInv, NoImmortalCounter
  <2> QED BY <1>a, <2>1 DEF NoImmortalCounter
<1>4. Entry(id)'
  <2>1. rv'[id].asked + Ttl <= rv'[id].dies /\ rv[id].asked \in Nat
    BY <1>a, <1>b DEF Entry, Reservation
  <2>2. ASSUME NEW d \in Dims PROVE rv'[id].dies <= counter'[CellOf(id, d)'].dies
    <3>1. CellOf(id, d) \in Cells /\ CellOf(id, d)' = CellOf(id, d) /\ Mine(CellOf(id, d))
      BY <1>a, <1>b, CellOfType DEF CellOf, LedgerInv, Mine
    <3>2. counter'[CellOf(id, d)].dies = now + Ttl
      BY <1>d, <3>1
    <3> QED BY <1>a, <1>b, <3>1, <3>2
  <2> QED BY <1>a, <1>b, <2>1, <2>2 DEF Entry, Covered
<1>5. ASSUME NEW j \in Ids \ {id} PROVE Entry(j)'
  <2>1. Entry(j) /\ rv'[j] = rv[j] /\ rv[j] \in Reservation
    BY <1>a, <1>b DEF LedgerInv
  <2>2. ASSUME rv[j].status \in Admitted, NEW d \in Dims
        PROVE  rv[j].dies <= counter'[CellOf(j, d)].dies
    <3>1. CellOf(j, d) \in Cells /\ rv[j].dies <= counter[CellOf(j, d)].dies
      BY <2>1, <2>2, CellOfType DEF LedgerInv, Entry, Covered
    <3>2. CASE Mine(CellOf(j, d))
      <4>1. counter'[CellOf(j, d)].dies = now + Ttl
        BY <1>d, <3>1, <3>2
      <4>2. counter[CellOf(j, d)].dies <= now + Ttl /\ counter[CellOf(j, d)] \in Counter
        BY <1>a, <3>1 DEF LedgerInv
      <4> QED BY <1>a, <2>1, <3>1, <4>1, <4>2 DEF Reservation, Counter
    <3>3. CASE ~ Mine(CellOf(j, d))
      BY <1>e, <3>1, <3>3
    <3> QED BY <3>2, <3>3
  <2>3. \A d \in Dims : CellOf(j, d)' = CellOf(j, d)
    BY <2>1 DEF CellOf
  <2> QED BY <1>a, <2>1, <2>2, <2>3 DEF Entry, Covered
<1>6. ASSUME NEW c \in Cells
      PROVE  /\ Total(Costs(c))' <= Limit[c[3]]
             /\ Exists(c)' => counter'[c].value = Total(Costs(c))'
  <2>1. /\ Total(Costs(c)) \in Nat
        /\ Total(Costs(c))' = Total(Costs(c)) - Costs(c)[id] + Costs(c)'[id]
    BY <1>2, <1>4, <1>5, <1>b, CostsChange DEF LedgerInv
  <2>2. Costs(c)[id] = 0
    BY <1>a DEF Costs, Charge
  <2>3. CASE Mine(c)
    <3>1. Costs(c)'[id] = n(c[3])
      <4>1. rv'[id].generated - rv'[id].refund = generated
        BY <1>a, <1>b
      <4> QED BY <1>b, <2>3, <4>1 DEF Costs, Charge, Mine, n
    <3>2. c = CellOf(id, c[3]) /\ c[3] \in Dims
      BY <2>3 DEF Cells, CellOf, Mine
    <3>3. Get(c) + n(c[3]) <= Limit[c[3]]
      BY <3>2 DEF Fits, n
    <3>4. /\ Get(c) = Total(Costs(c)) /\ counter'[c].value = Get(c) + n(c[3])
      BY <1>d, <2>3
    <3>5. n(c[3]) \in Nat
      BY <1>c, <3>2
    <3> QED BY <2>1, <2>2, <3>1, <3>3, <3>4, <3>5
  <2>4. CASE ~ Mine(c)
    <3>1. Costs(c)'[id] = 0
      BY <1>b, <2>4 DEF Costs, Mine
    <3>2. Total(Costs(c))' = Total(Costs(c))
      BY <2>1, <2>2, <3>1
    <3>3. Exists(c)' <=> Exists(c)
      BY <1>a, <1>e, <2>4 DEF Exists
    <3> QED BY <1>e, <2>4, <3>2, <3>3 DEF LedgerInv, WithinLimit, CountersExact
  <2> QED BY <2>3, <2>4
<1>7. CountersExact' /\ WithinLimit'
  BY <1>6 DEF CountersExact, WithinLimit
<1> QED BY <1>a, <1>2, <1>3, <1>4, <1>5, <1>7 DEF LedgerInv

\* An open reservation's counters are all there.
LEMMA OpenExists ==
  ASSUME LedgerInv, NEW id \in Ids, Open(id), NEW d \in Dims
  PROVE  CellOf(id, d) \in Cells /\ Exists(CellOf(id, d))
<1>1. CellOf(id, d) \in Cells
  BY CellOfType DEF LedgerInv
<1>2. /\ rv[id].dies <= counter[CellOf(id, d)].dies /\ now < rv[id].dies
      /\ rv[id] \in Reservation /\ counter[CellOf(id, d)] \in Counter /\ now \in Nat
  BY <1>1 DEF LedgerInv, TypeOK, Open, Entry, Admitted, Covered
<1> QED BY <1>1, <1>2 DEF Exists, Reservation, Counter

\* A script that closes a reservation takes from each counter what the closing gives back.
LEMMA CloseStep ==
  ASSUME LedgerInv, NEW id \in Ids, Open(id), now' = now,
         counter' \in [Cells -> Counter], rv' \in [Ids -> Reservation],
         \A j \in Ids \ {id} : rv'[j] = rv[j],
         rv'[id].key = rv[id].key, rv'[id].bucket = rv[id].bucket, rv'[id].asked = rv[id].asked,
         rv'[id].dies = rv[id].dies, rv'[id].generated = rv[id].generated,
         rv'[id].refund <= rv[id].generated,
         \/ rv'[id].status = "reconciled"
         \/ rv'[id].status = "cancelled" /\ rv'[id].refund = 0,
         \A c \in Cells :
           /\ counter'[c].dies = counter[c].dies /\ counter'[c].persistent = counter[c].persistent
           /\ Costs(c)'[id] <= Costs(c)[id]
           /\ counter'[c].value = counter[c].value - (Costs(c)[id] - Costs(c)'[id])
  PROVE  LedgerInv'
<1>1. TypeOK' /\ NoImmortalCounter' /\ \A c \in Cells : (counter[c].dies <= now + Ttl)'
  BY DEF LedgerInv, TypeOK, NoImmortalCounter
<1>2. \A j \in Ids : Entry(j)'
  <2>1. ASSUME NEW j \in Ids PROVE Entry(j)'
    <3>1. /\ rv'[j].asked = rv[j].asked /\ rv'[j].dies = rv[j].dies /\ rv'[j].bucket = rv[j].bucket
          /\ rv'[j].key = rv[j].key
      OBVIOUS
    <3>2. Entry(j) /\ (\A d \in Dims : CellOf(j, d) \in Cells)
      BY CellOfType DEF LedgerInv
    <3>3. \A d \in Dims : CellOf(j, d)' = CellOf(j, d)
      BY <3>1 DEF CellOf
    <3>4. Covered(j) => Covered(j)'
      BY <3>1, <3>2, <3>3 DEF Covered
    <3>5. CASE j = id
      BY <3>1, <3>2, <3>4, <3>5 DEF Entry, Admitted, Open
    <3>6. CASE j # id
      BY <3>2, <3>4, <3>6 DEF Entry
    <3> QED BY <3>5, <3>6
  <2> QED BY <2>1
<1>3. ASSUME NEW c \in Cells
      PROVE  /\ Total(Costs(c))' <= Limit[c[3]]
             /\ Exists(c)' => counter'[c].value = Total(Costs(c))'
  <2>1. /\ Total(Costs(c)) \in Nat /\ Total(Costs(c))' \in Nat
        /\ Costs(c)[id] \in Nat /\ Costs(c)'[id] \in Nat
        /\ Total(Costs(c))' = Total(Costs(c)) - Costs(c)[id] + Costs(c)'[id]
    BY <1>1, <1>2, CostsChange DEF LedgerInv
  <2>2. Exists(c)' <=> Exists(c)
    BY DEF Exists
  <2>3. c[3] \in Dims /\ Limit[c[3]] \in Nat
    BY LimitAssumption DEF Cells
  <2>4. Total(Costs(c)) <= Limit[c[3]] /\ (Exists(c) => counter[c].value = Total(Costs(c)))
    BY DEF LedgerInv, WithinLimit, CountersExact
  <2> QED BY <2>1, <2>2, <2>3, <2>4
<1>4. CountersExact' /\ WithinLimit'
  BY <1>3 DEF CountersExact, WithinLimit
<1> QED BY <1>1, <1>2, <1>4 DEF LedgerInv

\* reconcile_quota.
LEMMA ReconcileStep ==
  ASSUME LedgerInv, NEW id \in Ids, NEW actual \in 0..(MaxOutput + 1), Reconcile(id, actual)
  PROVE  LedgerInv'
<1> DEFINE refund == IF rv[id].generated > actual THEN rv[id].generated - actual ELSE 0
           mine == CellOf(id, "generated")
<1>a. /\ rv \in [Ids -> Reservation] /\ rv[id] \in Reservation /\ counter \in [Cells -> Counter]
      /\ Open(id) /\ now' = now /\ rv[id].status = "reserved" /\ rv[id].refund = 0
      /\ actual \in Nat
  BY LimitAssumption DEF LedgerInv, TypeOK, Reconcile, Open, Entry
<1>b. mine \in Cells /\ Exists(mine)
  BY <1>a, OpenExists DEF Dims
<1>c. refund \in Nat /\ refund <= rv[id].generated
  BY <1>a DEF Reservation
<1>d. /\ counter' = IF refund > 0 THEN [counter EXCEPT ![mine] = Incr(mine, -refund)] ELSE counter
      /\ rv' = [rv EXCEPT ![id].status = "reconciled", ![id].refund = refund]
  BY DEF Reconcile
<1> HIDE DEF refund, mine
<1>1. /\ rv' \in [Ids -> Reservation]
      /\ \A j \in Ids \ {id} : rv'[j] = rv[j]
      /\ rv'[id].status = "reconciled" /\ rv'[id].refund = refund
      /\ rv'[id].key = rv[id].key /\ rv'[id].bucket = rv[id].bucket
      /\ rv'[id].asked = rv[id].asked /\ rv'[id].dies = rv[id].dies
      /\ rv'[id].generated = rv[id].generated /\ rv'[id].prompt = rv[id].prompt
  BY <1>a, <1>c, <1>d DEF Reservation, States
<1>2. /\ counter' \in [Cells -> Counter]
      /\ \A c \in Cells \ {mine} : counter'[c] = counter[c]
      /\ counter'[mine].value = counter[mine].value - refund
      /\ counter'[mine].dies = counter[mine].dies
      /\ counter'[mine].persistent = counter[mine].persistent
  <2>1. CASE refund > 0
    <3>1. counter' = [counter EXCEPT ![mine] = [counter[mine] EXCEPT !.value = @ + (-refund)]]
      BY <1>b, <1>d, <2>1 DEF Incr
    <3> QED BY <1>a, <1>b, <1>c, <3>1 DEF Counter
  <2>2. CASE refund = 0
    BY <1>a, <1>b, <1>d, <2>2 DEF Counter
  <2> QED BY <1>c, <2>1, <2>2
<1>3. ASSUME NEW c \in Cells
      PROVE  /\ counter'[c].dies = counter[c].dies /\ counter'[c].persistent = counter[c].persistent
             /\ Costs(c)'[id] <= Costs(c)[id]
             /\ counter'[c].value = counter[c].value - (Costs(c)[id] - Costs(c)'[id])
  <2>0. counter[c].value \in Int /\ c[3] \in Dims
    BY <1>a DEF Counter, Cells
  <2>1. CASE c = mine
    <3>1. c[1] = rv[id].key /\ c[2] = rv[id].bucket /\ c[3] = "generated"
      BY <2>1 DEF mine, CellOf
    <3>2. Costs(c)[id] = rv[id].generated /\ Costs(c)'[id] = rv[id].generated - refund
      BY <1>a, <1>c, <1>1, <3>1 DEF Costs, Charge, Amount, Reservation
    <3> QED BY <1>a, <1>c, <1>2, <2>0, <2>1, <3>2 DEF Reservation
  <2>2. CASE c # mine
    <3>1. Costs(c)'[id] = Costs(c)[id] /\ Costs(c)[id] \in Nat
      <4>1. CASE c[1] = rv[id].key /\ c[2] = rv[id].bucket
        <5>1. c[3] \in {"requests", "prompt"}
          BY <2>0, <2>2, <4>1 DEF mine, CellOf, Dims, Cells
        <5> QED BY <1>a, <1>1, <4>1, <5>1 DEF Costs, Charge, Amount, Reservation
      <4>2. CASE ~ (c[1] = rv[id].key /\ c[2] = rv[id].bucket)
        BY <1>1, <4>2 DEF Costs
      <4> QED BY <4>1, <4>2
    <3> QED BY <1>2, <2>0, <2>2, <3>1
  <2> QED BY <2>1, <2>2
<1> QED BY <1>a, <1>c, <1>1, <1>2, <1>3, CloseStep

\* cancel_quota.
LEMMA CancelStep ==
  ASSUME LedgerInv, NEW id \in Ids, Cancel(id)
  PROVE  LedgerInv'
<1> DEFINE Mine(c) == c[1] = rv[id].key /\ c[2] = rv[id].bucket
           n(d) == Amount(d, rv[id].prompt, rv[id].generated)
<1>a. /\ rv \in [Ids -> Reservation] /\ rv[id] \in Reservation /\ counter \in [Cells -> Counter]
      /\ Open(id) /\ now' = now /\ rv[id].status = "reserved" /\ rv[id].refund = 0
  BY DEF LedgerInv, TypeOK, Cancel, Open, Entry
<1>b. /\ counter' = [c \in Cells |-> IF Mine(c) THEN Incr(c, -n(c[3])) ELSE counter[c]]
      /\ rv' = [rv EXCEPT ![id].status = "cancelled"]
  BY DEF Cancel
<1>c. \A d \in Dims : n(d) \in Nat
  BY <1>a DEF Amount, Dims, Reservation
<1>d. ASSUME NEW c \in Cells, Mine(c) PROVE Exists(c) /\ c[3] \in Dims
  <2>1. c[3] \in Dims /\ c = CellOf(id, c[3])
    BY <1>d DEF Cells, CellOf
  <2> QED BY <1>a, <2>1, OpenExists
<1>e. ASSUME NEW c \in Cells
      PROVE  /\ Mine(c) => Costs(c)[id] = n(c[3])
             /\ ~ Mine(c) => Costs(c)[id] = 0
  BY <1>a DEF Costs, Charge, Reservation
<1> HIDE DEF Mine, n
<1>1. /\ rv' \in [Ids -> Reservation]
      /\ \A j \in Ids \ {id} : rv'[j] = rv[j]
      /\ rv'[id].status = "cancelled" /\ rv'[id].refund = 0
      /\ rv'[id].key = rv[id].key /\ rv'[id].bucket = rv[id].bucket
      /\ rv'[id].asked = rv[id].asked /\ rv'[id].dies = rv[id].dies
      /\ rv'[id].generated = rv[id].generated /\ rv[id].generated \in Nat
  BY <1>a, <1>b DEF Reservation, States
<1>2. ASSUME NEW c \in Cells
      PROVE  /\ counter'[c] \in Counter
             /\ counter'[c].dies = counter[c].dies /\ counter'[c].persistent = counter[c].persistent
             /\ Costs(c)'[id] <= Costs(c)[id]
             /\ counter'[c].value = counter[c].value - (Costs(c)[id] - Costs(c)'[id])
  <2>1. Costs(c)'[id] = 0
    BY <1>1 DEF Costs, Charge
  <2>2. CASE Mine(c)
    <3>1. counter'[c] = [counter[c] EXCEPT !.value = @ + (-n(c[3]))]
      BY <1>b, <1>d, <2>2 DEF Incr
    <3>2. n(c[3]) \in Nat /\ Costs(c)[id] = n(c[3])
      BY <1>c, <1>d, <1>e, <2>2
    <3> QED BY <1>a, <2>1, <3>1, <3>2 DEF Counter
  <2>3. CASE ~ Mine(c)
    <3>1. counter'[c] = counter[c] /\ Costs(c)[id] = 0
      BY <1>b, <1>e, <2>3
    <3> QED BY <1>a, <2>1, <3>1 DEF Counter
  <2> QED BY <2>2, <2>3
<1>3. counter' \in [Cells -> Counter]
  BY <1>b, <1>2
<1> QED BY <1>a, <1>1, <1>2, <1>3, CloseStep

-----------------------------------------------------------------------------
(***************************************************************************)
(* The inductive invariant holds in every reachable state.                 *)
(***************************************************************************)
THEOREM LedgerInvariant == Spec => []LedgerInv
<1>1. Init => LedgerInv
  <2> SUFFICES ASSUME Init PROVE LedgerInv
    OBVIOUS
  <2>1. (CHOOSE k \in Keys : TRUE) \in Keys
    BY KeysAssumption
  <2>2. TypeOK /\ now <= MaxTime /\ now = 0
    BY <2>1, ClockAssumption DEF Init, TypeOK, Counter, Reservation, States
  <2>3. /\ \A id \in Ids : rv[id].status = "none" /\ rv[id].bucket = 0 /\ rv[id].asked = 0
                            /\ rv[id].refund = 0 /\ rv[id].generated = 0
        /\ \A c \in Cells : counter[c].dies = 0 /\ ~ counter[c].persistent
    BY DEF Init
  <2>4. \A id \in Ids : Entry(id)
    <3>1. 0 \in Buckets
      BY ClockAssumption DEF Buckets
    <3> QED BY <2>2, <2>3, <3>1 DEF Entry, Admitted
  <2>5. NoImmortalCounter /\ \A c \in Cells : counter[c].dies <= now + Ttl
    BY <2>2, <2>3, ClockAssumption DEF NoImmortalCounter
  <2>6. CountersExact
    BY <2>2, <2>3 DEF CountersExact, Exists
  <2>7. WithinLimit
    <3>1. ASSUME NEW c \in Cells PROVE Total(Costs(c)) <= Limit[c[3]]
      <4>1. \A id \in Ids : Costs(c)[id] = 0
        BY <2>3 DEF Costs, Charge
      <4>2. Total(Costs(c)) = 0
        BY <2>2, <2>4, <4>1, CostsType, TotalZero
      <4>3. Limit[c[3]] \in Nat
        BY LimitAssumption DEF Cells
      <4> QED BY <4>2, <4>3
    <3> QED BY <3>1 DEF WithinLimit
  <2> QED BY <2>2, <2>4, <2>5, <2>6, <2>7 DEF LedgerInv
<1>2. LedgerInv /\ [Next]_vars => LedgerInv'
  <2> SUFFICES ASSUME LedgerInv, [Next]_vars PROVE LedgerInv'
    OBVIOUS
  <2>1. CASE Tick
    BY <2>1, TickStep
  <2>2. ASSUME NEW id \in Ids, NEW k \in Keys, Ask(id, k) PROVE LedgerInv'
    BY <2>2, AskStep
  <2>3. ASSUME NEW id \in Ids, NEW prompt \in 1..MaxPrompt, NEW generated \in 0..MaxOutput,
               Reserve(id, prompt, generated)
        PROVE  LedgerInv'
    <3>1. CASE Fits(id, prompt, generated)
      BY <2>3, <3>1, AdmitStep
    <3>2. CASE ~ Fits(id, prompt, generated)
      BY <2>3, <3>2, RefuseStep DEF Reserve
    <3> QED BY <3>1, <3>2
  <2>4. ASSUME NEW id \in Ids, NEW actual \in 0..(MaxOutput + 1), Reconcile(id, actual)
        PROVE  LedgerInv'
    BY <2>4, ReconcileStep
  <2>5. ASSUME NEW id \in Ids, Cancel(id) PROVE LedgerInv'
    BY <2>5, CancelStep
  <2>6. CASE UNCHANGED vars
    <3>1. now' = now /\ counter' = counter /\ rv' = rv
      BY <2>6 DEF vars
    <3>2. \A c \in Cells : Costs(c)' = Costs(c)
      BY <3>1 DEF Costs, Charge
    <3> QED BY <3>1, <3>2 DEF LedgerInv, TypeOK, Entry, Covered, CellOf, NoImmortalCounter,
                              CountersExact, WithinLimit, Exists
  <2> QED BY <2>1, <2>2, <2>3, <2>4, <2>5, <2>6 DEF Next, NothingToClose
<1> QED BY <1>1, <1>2, PTL DEF Spec

\* Type correctness of the ledger.
THEOREM LedgerTypes == Spec => []TypeOK
<1>1. LedgerInv => TypeOK
  BY DEF LedgerInv
<1> QED BY <1>1, LedgerInvariant, PTL

\* While it exists, a counter is the sum of what the admissions of its key and minute still
\* cost, after any mix of reconcile_quota and cancel_quota.
THEOREM LedgerExact == Spec => []CountersExact
<1>1. LedgerInv => CountersExact
  BY DEF LedgerInv
<1> QED BY <1>1, LedgerInvariant, PTL

\* reserve_quota admits no key for more than its limit in one minute.
THEOREM LedgerWithinLimit == Spec => []WithinLimit
<1>1. LedgerInv => WithinLimit
  BY DEF LedgerInv
<1> QED BY <1>1, LedgerInvariant, PTL

\* DECRBY never brings an expired counter back without an expiration.
THEOREM CountersMortal == Spec => []NoImmortalCounter
<1>1. LedgerInv => NoImmortalCounter
  BY DEF LedgerInv
<1> QED BY <1>1, LedgerInvariant, PTL
=============================================================================
