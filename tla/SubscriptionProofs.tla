------------------------- MODULE SubscriptionProofs -------------------------
(***************************************************************************)
(* Proofs about Subscription, for every number of clients and calls: what  *)
(* a client has received is a prefix of the stream's chunks up to the      *)
(* first terminal event, so that any two clients agree.                    *)
(*                                                                         *)
(* The inductive invariant speaks of one client at a time (Sound, Full),   *)
(* given the history h of its request, and of two (Agree).                 *)
(***************************************************************************)
EXTENDS Subscription, SequenceTheorems, TLAPS

\* The handler has a cursor it will read from.
Active == {"inspect", "subscribe", "read", "reconnect"}

\* Positions that grow: nothing repeated, nothing reordered.
Ordered(g) == \A i, j \in 1..Len(g) : i < j => g[i] < g[j]

\* What holds of a client even after the stream expired.
Sound(h, s) ==
  /\ s.has <= Len(s.got)
  /\ \A i \in 1..Len(s.got) : s.got[i] \in 1..Len(h) /\ h[s.got[i]].kind # "started"
  /\ Ordered(s.got)
  /\ s.pc \in Active =>
       /\ s.cursor <= Len(h)
       /\ \A i \in 1..Len(s.got) : s.got[i] <= s.cursor
  /\ s.calls = 0 => s.pc = "away" /\ s.got = <<>> /\ s.cursor = 0

\* id is among the positions sent.
Has(g, id) == \E i \in 1..Len(g) : g[i] = id

\* Nothing is skipped, and a handler that reads on has seen no terminal event.
Full(h, s) ==
  /\ \A id \in 1..LastOf(s.got) : h[id].kind # "started" =>
       Has(s.got, id) /\ (h[id].kind \in Terminal => id = LastOf(s.got))
  /\ s.pc \in Active => \A id \in 1..s.cursor : h[id].kind # "started" =>
       Has(s.got, id) /\ h[id].kind \notin Terminal

\* One of the two is a prefix of the other.
Agree(g, k) == \A i \in 1..Len(g) : i <= Len(k) => g[i] = k[i]

\* A completed event follows every chunk of its attempt.
WholeLog(h) ==
  \A i \in 1..Len(h) : h[i].kind = "completed" =>
    \A n \in 1..h[i].n : \E j \in 1..(i - 1) :
      h[j] = [kind |-> "token", attempt |-> h[i].attempt, n |-> n]

\* Types, with the histories'.
TypeInv ==
  /\ log \in [Requests -> Seq(Events)]
  /\ closed \subseteq Requests
  /\ hist \in [Requests -> Seq(Events)]
  /\ known \subseteq Requests
  /\ published \subseteq Requests
  /\ sub \in [Requests -> [Clients -> Sub]]

\* Until it expires, the stream is the history.
LogInv ==
  \A r \in Requests :
    /\ Len(log[r]) <= Len(hist[r])
    /\ r \notin closed => log[r] = hist[r] /\ WholeLog(hist[r])

\* Every client is sound, and misses nothing of a stream that did not expire.
ClientInv ==
  \A r \in Requests, c \in Clients :
    /\ Sound(hist[r], sub[r][c])
    /\ r \notin closed => Full(hist[r], sub[r][c])

\* Any two clients of a request agree.
AgreeInv ==
  \A r \in Requests \ closed : \A c, d \in Clients : Agree(sub[r][c].got, sub[r][d].got)

\* The inductive invariant.
IInv == TypeInv /\ LogInv /\ ClientInv /\ AgreeInv

-----------------------------------------------------------------------------
(* One client's state.                                                     *)

\* Where the last event of a nonempty sequence is.
LEMMA LastIs ==
  ASSUME NEW g \in Seq(Nat)
  PROVE  /\ LastOf(g) \in Nat
         /\ Len(g) # 0 => Len(g) \in 1..Len(g) /\ LastOf(g) = g[Len(g)]
         /\ Len(g) = 0 => LastOf(g) = 0
  <1>1. Len(g) \in Nat /\ (g = <<>> <=> Len(g) = 0)
    BY EmptySeq
  <1> QED
    BY <1>1 DEF LastOf

\* The events of an ordered sequence are at most its last one.
LEMMA LastIsGreatest ==
  ASSUME NEW g \in Seq(Nat), Ordered(g), NEW i \in 1..Len(g)
  PROVE  g[i] <= LastOf(g) /\ (i < Len(g) => g[i] < LastOf(g))
  <1>1. Len(g) \in 1..Len(g) /\ LastOf(g) = g[Len(g)]
    BY LastIs
  <1>2. CASE i = Len(g)
    BY <1>1, <1>2
  <1>3. CASE i < Len(g)
    BY <1>1, <1>3 DEF Ordered
  <1> QED
    BY <1>2, <1>3

\* Steps that leave the received events and the cursor alone.
LEMMA KeepsGot ==
  ASSUME NEW h, NEW s \in Sub, NEW t \in Sub, Sound(h, s),
         t.got = s.got, t.has <= Len(s.got), t.calls = s.calls, s.calls # 0,
         t.pc \in Active => s.pc \in Active /\ t.cursor = s.cursor
  PROVE  Sound(h, t) /\ (Full(h, s) => Full(h, t))
  BY DEF Sound, Full

\* Reading an entry that is not forwarded: an attempt started.
LEMMA SkipsStart ==
  ASSUME NEW h \in Seq(Events), NEW s \in Sub, NEW t \in Sub, NEW id \in 1..Len(h),
         Sound(h, s), s.pc \in Active, s.cursor < id, h[id].kind = "started",
         t = [s EXCEPT !.cursor = id, !.tries = 0]
  PROVE  /\ Sound(h, t)
         /\ Full(h, s) /\ id = s.cursor + 1 => Full(h, t)
  <1>1. t.got = s.got /\ t.has = s.has /\ t.calls = s.calls /\ t.pc = s.pc /\ t.cursor = id
    BY DEF Sub
  <1>2. s.got \in Seq(Nat) /\ s.cursor \in Nat
    BY DEF Sub
  <1>3. Sound(h, t)
    BY <1>1, <1>2 DEF Sound, Active
  <1>4. ASSUME Full(h, s), id = s.cursor + 1  PROVE Full(h, t)
    <2>1. ASSUME NEW k \in 1..id, h[k].kind # "started"
          PROVE  Has(s.got, k) /\ h[k].kind \notin Terminal
      <3>1. k \in 1..s.cursor
        BY <2>1, <1>2, <1>4
      <3> QED
        BY <2>1, <3>1, <1>4 DEF Full
    <2> QED
      BY <2>1, <1>1, <1>4 DEF Full
  <1> QED
    BY <1>3, <1>4

\* Reading an entry that is forwarded.
LEMMA Forwards ==
  ASSUME NEW h \in Seq(Events), NEW s \in Sub, NEW t \in Sub, NEW id \in 1..Len(h),
         Sound(h, s), s.pc \in Active, s.cursor < id, h[id].kind # "started",
         t.got = Append(s.got, id), t.has = s.has, t.calls = s.calls, t.cursor = id,
         t.pc = s.pc \/ t.pc \notin Active,
         t.pc \in Active => h[id].kind \notin Terminal
  PROVE  /\ Sound(h, t)
         /\ Full(h, s) /\ id = s.cursor + 1 => Full(h, t)
  <1> DEFINE g == s.got
  <1>1. g \in Seq(Nat) /\ s.cursor \in Nat /\ s.has \in Nat /\ t.got \in Seq(Nat)
    BY DEF Sub
  <1>2. /\ Len(t.got) = Len(g) + 1
        /\ \A i \in 1..Len(g) : t.got[i] = g[i]
        /\ t.got[Len(g) + 1] = id
        /\ Len(g) \in Nat
    BY <1>1
  <1>3. \A i \in 1..Len(g) : g[i] < id
    <2>1. \A i \in 1..Len(g) : g[i] <= s.cursor
      BY DEF Sound
    <2>2. \A i \in 1..Len(g) : g[i] \in Nat
      BY <1>1
    <2> HIDE DEF g
    <2> QED
      BY <1>1, <2>1, <2>2
  <1>4. Sound(h, t)
    <2>1. t.has <= Len(t.got)
      BY <1>1, <1>2 DEF Sound
    <2>2. \A i \in 1..Len(t.got) : t.got[i] \in 1..Len(h) /\ h[t.got[i]].kind # "started"
      BY <1>2 DEF Sound
    <2>3. Ordered(t.got)
      BY <1>1, <1>2, <1>3 DEF Sound, Ordered
    <2>4. t.pc \in Active => t.cursor <= Len(h) /\ \A i \in 1..Len(t.got) : t.got[i] <= t.cursor
      BY <1>1, <1>2, <1>3 DEF Sound, Sub
    <2>5. t.calls # 0
      BY DEF Sound, Active
    <2> QED
      BY <2>1, <2>2, <2>3, <2>4, <2>5 DEF Sound
  <1>5. ASSUME Full(h, s), id = s.cursor + 1  PROVE Full(h, t)
    <2>1. LastOf(t.got) = id
      <3>1. Len(t.got) # 0
        BY <1>2
      <3>2. LastOf(t.got) = t.got[Len(t.got)]
        BY <1>1, <3>1, LastIs
      <3> QED
        BY <3>2, <1>2
    <2>2. ASSUME NEW k \in 1..id, h[k].kind # "started"
          PROVE  Has(t.got, k) /\ (h[k].kind \in Terminal => k = id)
      <3>1. CASE k = id
        BY <3>1, <1>2 DEF Has
      <3>2. CASE k \in 1..s.cursor
        <4>1. Has(g, k) /\ h[k].kind \notin Terminal
          BY <2>2, <3>2, <1>5 DEF Full
        <4> QED
          BY <4>1, <1>2 DEF Has
      <3> QED
        BY <3>1, <3>2, <1>1, <1>5
    <2> QED
      BY <2>1, <2>2 DEF Full
  <1> QED
    BY <1>4, <1>5

\* A call that ends loses what is in flight and keeps the rest.
LEMMA Truncates ==
  ASSUME NEW h \in Seq(Events), NEW s \in Sub, NEW t \in Sub, Sound(h, s), s.calls # 0,
         t.got = SubSeq(s.got, 1, s.has), t.has = s.has, t.calls = s.calls, t.pc \notin Active
  PROVE  Sound(h, t) /\ (Full(h, s) => Full(h, t))
  <1> DEFINE g == s.got
  <1>1. g \in Seq(Nat) /\ s.has \in 0..Len(g) /\ t.got \in Seq(Nat) /\ Len(g) \in Nat
    BY DEF Sub, Sound
  <1>2. Len(t.got) = s.has /\ \A i \in 1..s.has : t.got[i] = g[i]
    BY <1>1
  <1>3. Sound(h, t)
    <2>1. \A i \in 1..Len(t.got) : i \in 1..Len(g) /\ t.got[i] = g[i]
      BY <1>1, <1>2
    <2>2. \A i \in 1..Len(t.got) : t.got[i] \in 1..Len(h) /\ h[t.got[i]].kind # "started"
      BY <2>1 DEF Sound
    <2>3. Ordered(t.got)
      BY <2>1 DEF Sound, Ordered
    <2>4. t.has <= Len(t.got)
      BY <1>1, <1>2
    <2> QED
      BY <2>2, <2>3, <2>4 DEF Sound
  <1>4. ASSUME Full(h, s)  PROVE Full(h, t)
    <2>1. CASE s.has = 0
      <3>1. LastOf(t.got) = 0
        BY <2>1, <1>1, <1>2, LastIs
      <3> QED
        BY <3>1 DEF Full
    <2>2. CASE s.has # 0
      <3>1. LastOf(t.got) = g[s.has] /\ s.has \in 1..Len(g)
        <4>1. Len(t.got) # 0 /\ s.has \in 1..s.has /\ s.has \in 1..Len(g)
          BY <2>2, <1>1, <1>2
        <4>2. LastOf(t.got) = t.got[Len(t.got)]
          BY <1>1, <4>1, LastIs
        <4> QED
          BY <4>1, <4>2, <1>2
      <3>2. g[s.has] <= LastOf(g) /\ (s.has < Len(g) => g[s.has] < LastOf(g))
        BY <3>1, <1>1, LastIsGreatest DEF Sound
      <3>3. LastOf(g) \in Nat /\ g[s.has] \in Nat
        BY <1>1, <3>1, LastIs
      <3>4. s.has = Len(g) => LastOf(g) = g[s.has]
        BY <1>1, <3>1, LastIs
      <3>5. ASSUME NEW k \in 1..g[s.has], h[k].kind # "started"
            PROVE  Has(t.got, k) /\ (h[k].kind \in Terminal => k = g[s.has])
        <4>1. k \in 1..LastOf(g)
          BY <3>2, <3>3
        <4>2. Has(g, k) /\ (h[k].kind \in Terminal => k = LastOf(g))
          BY <4>1, <3>5, <1>4 DEF Full
        <4>3. PICK i \in 1..Len(g) : g[i] = k
          BY <4>2 DEF Has
        <4>4. i <= s.has
          <5>1. SUFFICES ASSUME s.has < i  PROVE FALSE
            BY <1>1, <4>3
          <5>2. g[s.has] < g[i]
            BY <5>1, <3>1, <4>3 DEF Sound, Ordered
          <5> QED
            BY <5>2, <4>3, <3>3
        <4>5. Has(t.got, k)
          BY <4>3, <4>4, <1>1, <1>2 DEF Has
        <4>6. h[k].kind \in Terminal => k = g[s.has]
          BY <4>2, <3>2, <3>3, <3>4, <1>1
        <4> QED
          BY <4>5, <4>6
      <3> QED
        BY <3>1, <3>5 DEF Full
    <2> QED
      BY <2>1, <2>2
  <1> QED
    BY <1>3, <1>4

\* There is no number between a and its successor.
LEMMA NoneBetween ==
  ASSUME NEW a \in Nat, NEW b \in Nat, a < b
  PROVE  ~ (b < a + 1)
  OBVIOUS

\* A client that goes on agrees with one that is already there.
LEMMA AppendAgrees ==
  ASSUME NEW h \in Seq(Events), NEW s \in Sub, NEW u \in Sub, NEW id \in 1..Len(h),
         Sound(h, s), Full(h, s), Sound(h, u), Full(h, u),
         s.pc \in Active, id = s.cursor + 1, h[id].kind # "started",
         Agree(s.got, u.got)
  PROVE  Agree(Append(s.got, id), u.got)
  <1> DEFINE g == s.got
             k == u.got
             m == Len(g) + 1
  <1>1. g \in Seq(Nat) /\ k \in Seq(Nat) /\ s.cursor \in Nat /\ Len(g) \in Nat /\ Len(k) \in Nat
    BY DEF Sub
  <1>2. SUFFICES ASSUME m <= Len(k)  PROVE k[m] = id
    BY <1>1 DEF Agree
  <1>3. m \in 1..Len(k) /\ k[m] \in 1..Len(h) /\ h[k[m]].kind # "started"
    BY <1>1, <1>2 DEF Sound
  <1>4. \A i \in 1..Len(g) : g[i] = k[i] /\ i \in 1..Len(k) /\ g[i] < k[m] /\ g[i] < id
    <2> SUFFICES ASSUME NEW i \in 1..Len(g)
                 PROVE  g[i] = k[i] /\ i \in 1..Len(k) /\ g[i] < k[m] /\ g[i] < id
      OBVIOUS
    <2>1. i \in 1..Len(k) /\ i < m
      BY <1>1, <1>2
    <2>2. g[i] = k[i]
      BY <2>1 DEF Agree
    <2>3. k[i] < k[m]
      BY <2>1, <1>3 DEF Sound, Ordered
    <2>4. g[i] <= s.cursor /\ g[i] \in Nat
      BY <1>1 DEF Sound
    <2>5. g[i] < id
      BY <2>4, <1>1
    <2> QED
      BY <2>1, <2>2, <2>3, <2>5
  <1>5. s.cursor < k[m]
    <2>1. SUFFICES ASSUME k[m] \in 1..s.cursor  PROVE FALSE
      BY <1>1, <1>3
    <2>2. Has(g, k[m])
      BY <2>1, <1>3 DEF Full
    <2>3. PICK i \in 1..Len(g) : g[i] = k[m]
      BY <2>2 DEF Has
    <2>4. g[i] < k[m]
      BY <1>4
    <2> QED
      BY <2>3, <2>4, <1>3
  <1>6. k[m] <= LastOf(k) /\ LastOf(k) \in Nat
    BY <1>1, <1>3, LastIs, LastIsGreatest DEF Sound
  <1>7. id \in 1..LastOf(k)
    BY <1>1, <1>3, <1>5, <1>6
  <1>8. PICK j \in 1..Len(k) : k[j] = id
    BY <1>7 DEF Full, Has
  <1>9. ~ (j < m)
    <2>1. SUFFICES ASSUME j < m  PROVE FALSE
      OBVIOUS
    <2>2. j \in 1..Len(g)
      BY <2>1, <1>1, <1>8
    <2>3. g[j] = id /\ g[j] < id
      BY <2>2, <1>4, <1>8
    <2> QED
      BY <2>3
  <1>10. ~ (m < j)
    <2>1. SUFFICES ASSUME m < j  PROVE FALSE
      OBVIOUS
    <2>2. k[m] < k[j]
      BY <2>1, <1>3, <1>8 DEF Sound, Ordered
    <2>3. k[m] < s.cursor + 1 /\ k[m] \in Nat
      BY <2>2, <1>3, <1>8
    <2> QED
      BY <2>3, <1>1, <1>5, NoneBetween
  <1>11. j = m
    <2> HIDE DEF g, k, m
    <2> QED
      BY <1>3, <1>8, <1>9, <1>10
  <1> QED
    BY <1>8, <1>11

-----------------------------------------------------------------------------
(* The stream.                                                             *)

\* An event more in the stream changes nothing of what a client has.
LEMMA HistoryGrows ==
  ASSUME NEW h \in Seq(Events), NEW x \in Events, NEW s \in Sub, Sound(h, s)
  PROVE  Sound(Append(h, x), s) /\ (Full(h, s) => Full(Append(h, x), s))
  <1> DEFINE k == Append(h, x)
  <1>1. Len(h) \in Nat /\ Len(k) = Len(h) + 1 /\ \A i \in 1..Len(h) : k[i] = h[i]
    OBVIOUS
  <1>2. s.got \in Seq(Nat) /\ s.cursor \in Nat
    BY DEF Sub
  <1>3. Sound(k, s)
    <2>1. \A i \in 1..Len(s.got) : s.got[i] \in 1..Len(k) /\ k[s.got[i]].kind # "started"
      BY <1>1 DEF Sound
    <2>2. s.pc \in Active => s.cursor <= Len(k)
      BY <1>1, <1>2 DEF Sound
    <2> HIDE DEF k
    <2> QED
      BY <2>1, <2>2 DEF Sound
  <1>4. LastOf(s.got) \in Nat /\ LastOf(s.got) <= Len(h)
    <2>1. CASE Len(s.got) = 0
      BY <2>1, <1>1, <1>2, LastIs
    <2>2. CASE Len(s.got) # 0
      BY <2>2, <1>1, <1>2, LastIs DEF Sound
    <2> QED
      BY <2>1, <2>2
  <1>5. ASSUME Full(h, s)  PROVE Full(k, s)
    <2>1. \A id \in 1..LastOf(s.got) : k[id] = h[id]
      BY <1>1, <1>4
    <2>2. s.pc \in Active => \A id \in 1..s.cursor : k[id] = h[id]
      BY <1>1, <1>2 DEF Sound
    <2> HIDE DEF k
    <2> QED
      BY <2>1, <2>2, <1>5 DEF Full
  <1> QED
    BY <1>3, <1>5

\* An attempt completes only after its chunks.
LEMMA WholeGrows ==
  ASSUME NEW h \in Seq(Events), NEW x \in Events, WholeLog(h),
         x.kind = "completed" => HasChunks(h, x.attempt, x.n)
  PROVE  WholeLog(Append(h, x))
  <1> DEFINE k == Append(h, x)
  <1>1. Len(h) \in Nat /\ Len(k) = Len(h) + 1 /\ k[Len(h) + 1] = x
        /\ \A i \in 1..Len(h) : k[i] = h[i]
    OBVIOUS
  <1> SUFFICES ASSUME NEW i \in 1..Len(k), k[i].kind = "completed", NEW n \in 1..k[i].n
               PROVE  \E j \in 1..(i - 1) :
                        k[j] = [kind |-> "token", attempt |-> k[i].attempt, n |-> n]
    BY DEF WholeLog
  <1>2. CASE i \in 1..Len(h)
    <2>1. k[i] = h[i]
      BY <1>1, <1>2
    <2>2. PICK j \in 1..(i - 1) : h[j] = [kind |-> "token", attempt |-> k[i].attempt, n |-> n]
      BY <2>1, <1>2 DEF WholeLog
    <2>3. j \in 1..Len(h)
      BY <1>1, <1>2
    <2> QED
      BY <2>2, <2>3, <1>1
  <1>3. CASE i = Len(h) + 1
    <2>1. k[i] = x
      BY <1>1, <1>3
    <2>2. PICK j \in 1..Len(h) : h[j] = [kind |-> "token", attempt |-> x.attempt, n |-> n]
      BY <2>1 DEF HasChunks
    <2>3. j \in 1..(i - 1)
      BY <1>1, <1>3
    <2> QED
      BY <2>1, <2>2, <2>3, <1>1
  <1> QED
    BY <1>1, <1>2, <1>3

\* What a step of the abstract log does to one request.
Grown(r) ==
  \/ log'[r] = log[r] /\ hist'[r] = hist[r]
  \/ log'[r] = <<>> /\ hist'[r] = hist[r] /\ r \in closed'
  \/ \E x \in Events :
       /\ log'[r] = Append(log[r], x)
       /\ hist'[r] = Append(hist[r], x)
       /\ r \notin closed /\ x.kind = "completed" => HasChunks(log[r], x.attempt, x.n)

\* Equal sequences are equally long.
LEMMA NoLonger ==
  ASSUME NEW g, NEW k, Len(k) \in Nat, g = k
  PROVE  ~ (Len(g) > Len(k))
  OBVIOUS

\* One event is appended to one log.
LEMMA ExtendGrows ==
  ASSUME TypeInv, NEW q \in Requests, NEW x \in Events,
         log' = [log EXCEPT ![q] = Append(@, x)], UNCHANGED closed,
         hist' = [r \in Requests |->
                    IF Len(log'[r]) > Len(log[r])
                      THEN Append(hist[r], log'[r][Len(log'[r])]) ELSE hist[r]],
         q \notin closed /\ x.kind = "completed" => HasChunks(log[q], x.attempt, x.n)
  PROVE  (\A r \in Requests : Grown(r)) /\ closed \subseteq closed' /\ closed' \subseteq Requests
         /\ log' = [r \in Requests |-> log'[r]]
  <1>1. ASSUME NEW r \in Requests  PROVE Grown(r)
    <2>1. log[r] \in Seq(Events) /\ Len(log[r]) \in Nat
      BY DEF TypeInv
    <2>2. CASE r = q
      <3>1. log'[r] = Append(log[r], x)
        BY <2>2 DEF TypeInv
      <3>2. Len(log'[r]) = Len(log[r]) + 1 /\ log'[r][Len(log'[r])] = x
        BY <2>1, <3>1
      <3>3. hist'[r] = Append(hist[r], x)
        BY <2>1, <3>2
      <3> QED
        BY <2>2, <3>1, <3>3 DEF Grown
    <2>3. CASE r # q
      <3>1. log'[r] = log[r]
        BY <2>3 DEF TypeInv
      <3>2. ~ (Len(log'[r]) > Len(log[r]))
        BY <2>1, <3>1, NoLonger
      <3>3. hist'[r] = hist[r]
        BY <3>2
      <3> QED
        BY <3>1, <3>3 DEF Grown
    <2> QED
      BY <2>2, <2>3
  <1> QED
    BY <1>1 DEF TypeInv

\* Every step of the abstract log lets each request's history grow or leaves it.
LEMMA ProduceGrows ==
  ASSUME TypeInv, Produce
  PROVE  (\A r \in Requests : Grown(r)) /\ closed \subseteq closed' /\ closed' \subseteq Requests
         /\ log' = [r \in Requests |-> log'[r]]
  <1>1. hist' = [r \in Requests |->
                   IF Len(log'[r]) > Len(log[r])
                     THEN Append(hist[r], log'[r][Len(log'[r])]) ELSE hist[r]]
    BY DEF Produce, Numbered
  <1>2. PICK q \in Requests : Expire(q) \/ \E event \in Events : Write(q, event)
    BY DEF Produce, StreamNext
  <1>3. CASE Expire(q)
    <2>1. closed' = closed \cup {q} /\ log' = [log EXCEPT ![q] = <<>>]
      BY <1>3 DEF Expire
    <2>2. ASSUME NEW r \in Requests  PROVE Grown(r)
      <3>1. log[r] \in Seq(Events) /\ Len(log[r]) \in Nat
        BY DEF TypeInv
      <3>2. CASE r = q
        <4>1. log'[r] = <<>>
          BY <2>1, <3>2 DEF TypeInv
        <4>2. hist'[r] = hist[r]
          BY <1>1, <3>1, <4>1
        <4> QED
          BY <2>1, <3>2, <4>1, <4>2 DEF Grown
      <3>3. CASE r # q
        <4>1. log'[r] = log[r]
          BY <2>1, <3>3 DEF TypeInv
        <4>2. hist'[r] = hist[r]
          BY <1>1, <3>1, <4>1
        <4> QED
          BY <4>1, <4>2 DEF Grown
      <3> QED
        BY <3>2, <3>3
    <2> QED
      BY <2>1, <2>2 DEF TypeInv
  <1>4. ASSUME NEW x \in Events, Write(q, x)
        PROVE  (\A r \in Requests : Grown(r)) /\ closed \subseteq closed'
               /\ closed' \subseteq Requests /\ log' = [r \in Requests |-> log'[r]]
    BY <1>1, <1>4, ExtendGrows DEF Write
  <1> QED
    BY <1>2, <1>3, <1>4

\* The stream grows or expires, and the clients stay where they are.
LEMMA ProduceKeeps ==
  ASSUME IInv, Produce
  PROVE  IInv'
  <1>1. (\A r \in Requests : Grown(r)) /\ closed \subseteq closed' /\ closed' \subseteq Requests
        /\ log' = [r \in Requests |-> log'[r]]
    BY ProduceGrows DEF IInv
  <1>2. sub' = sub /\ known' = known /\ published' = published /\ DOMAIN hist' = Requests
    BY DEF Produce, Numbered
  <1>3. ASSUME NEW r \in Requests
        PROVE  /\ log'[r] \in Seq(Events)
               /\ hist'[r] \in Seq(Events)
               /\ Len(log'[r]) <= Len(hist'[r])
               /\ r \notin closed' => log'[r] = hist'[r] /\ WholeLog(hist'[r])
               /\ \A c \in Clients :
                    /\ Sound(hist'[r], sub[r][c])
                    /\ r \notin closed' => Full(hist'[r], sub[r][c])
    <2>1. /\ log[r] \in Seq(Events) /\ Len(log[r]) \in Nat
          /\ hist[r] \in Seq(Events) /\ Len(hist[r]) \in Nat
          /\ Len(log[r]) <= Len(hist[r])
          /\ r \notin closed => log[r] = hist[r] /\ WholeLog(hist[r])
      BY DEF IInv, TypeInv, LogInv
    <2>2. \A c \in Clients : /\ sub[r][c] \in Sub
                             /\ Sound(hist[r], sub[r][c])
                             /\ r \notin closed => Full(hist[r], sub[r][c])
      BY DEF IInv, TypeInv, ClientInv
    <2>3. CASE log'[r] = log[r] /\ hist'[r] = hist[r]
      BY <2>1, <2>2, <2>3, <1>1
    <2>4. CASE log'[r] = <<>> /\ hist'[r] = hist[r] /\ r \in closed'
      BY <2>1, <2>2, <2>4
    <2>5. ASSUME NEW x \in Events, log'[r] = Append(log[r], x), hist'[r] = Append(hist[r], x),
                 r \notin closed /\ x.kind = "completed" => HasChunks(log[r], x.attempt, x.n)
          PROVE  /\ log'[r] \in Seq(Events)
                 /\ hist'[r] \in Seq(Events)
                 /\ Len(log'[r]) <= Len(hist'[r])
                 /\ r \notin closed' => log'[r] = hist'[r] /\ WholeLog(hist'[r])
                 /\ \A c \in Clients :
                      /\ Sound(hist'[r], sub[r][c])
                      /\ r \notin closed' => Full(hist'[r], sub[r][c])
      <3>1. log'[r] \in Seq(Events) /\ hist'[r] \in Seq(Events) /\ Len(log'[r]) <= Len(hist'[r])
        BY <2>1, <2>5
      <3>2. ASSUME r \notin closed'  PROVE log'[r] = hist'[r] /\ WholeLog(hist'[r])
        <4>1. r \notin closed
          BY <1>1, <3>2
        <4> QED
          BY <4>1, <2>1, <2>5, WholeGrows
      <3>3. ASSUME NEW c \in Clients
            PROVE  /\ Sound(hist'[r], sub[r][c])
                   /\ r \notin closed' => Full(hist'[r], sub[r][c])
        BY <1>1, <2>1, <2>2, <2>5, HistoryGrows
      <3> QED
        BY <3>1, <3>2, <3>3
    <2> QED
      BY <1>1, <2>3, <2>4, <2>5 DEF Grown
  <1>4. TypeInv'
    <2>1. log' \in [Requests -> Seq(Events)]
      BY <1>1, <1>3
    <2>2. hist' \in [Requests -> Seq(Events)]
      BY <1>3 DEF Produce, Numbered
    <2> QED
      BY <1>1, <1>2, <2>1, <2>2 DEF IInv, TypeInv
  <1>5. LogInv'
    BY <1>3 DEF LogInv
  <1>6. ClientInv'
    BY <1>2, <1>3 DEF ClientInv
  <1>7. AgreeInv'
    BY <1>1, <1>2 DEF IInv, AgreeInv
  <1> QED
    BY <1>4, <1>5, <1>6, <1>7 DEF IInv

-----------------------------------------------------------------------------
(* The calls.                                                              *)

\* The types of a client's fields.
LEMMA SubTypes ==
  ASSUME NEW s \in Sub
  PROVE  /\ s.cursor \in Nat /\ s.has \in Nat /\ s.calls \in Nat /\ s.tries \in 0..3
         /\ s.got \in Seq(Nat) /\ Len(s.got) \in Nat
  <1>1. /\ s.cursor \in Nat /\ s.has \in Nat /\ s.calls \in Nat /\ s.tries \in 0..3
        /\ s.got \in Seq(Nat)
    BY DEF Sub
  <1> QED
    BY <1>1

\* One field at a time.
LEMMA FieldTypes ==
  ASSUME NEW s \in Sub
  PROVE  /\ \A id \in Nat : [s EXCEPT !.cursor = id] \in Sub
         /\ \A n \in 0..3 : [s EXCEPT !.tries = n] \in Sub
         /\ \A n \in Nat : [s EXCEPT !.has = n] \in Sub
         /\ \A n \in Nat : [s EXCEPT !.calls = n] \in Sub
         /\ \A g \in Seq(Nat) : [s EXCEPT !.got = g] \in Sub
         /\ \A pc \in Active \cup {"away", "closing", "broken"} : [s EXCEPT !.pc = pc] \in Sub
  BY DEF Sub, Active

\* The three ways a handler's state changes when it reads the entry id.
Moved(s, id)  == [s EXCEPT !.cursor = id, !.tries = 0]
Passed(s, id) == [Moved(s, id) EXCEPT !.got = Append(@, id)]
Closed(s, id) == [Moved(s, id) EXCEPT !.got = Append(@, id), !.pc = "closing"]

\* What they leave alone.
LEMMA MovedTypes ==
  ASSUME NEW s \in Sub, NEW id \in Nat
  PROVE  /\ Moved(s, id) \in Sub /\ Moved(s, id).got = s.got
         /\ \A t \in {Passed(s, id), Closed(s, id)} :
              /\ t \in Sub /\ t.got = Append(s.got, id) /\ t.has = s.has
              /\ t.calls = s.calls /\ t.cursor = id
         /\ Passed(s, id).pc = s.pc
         /\ Closed(s, id).pc = "closing"
  <1> DEFINE t == Moved(s, id)
             u == Passed(s, id)
             v == Closed(s, id)
  <1>1. Append(s.got, id) \in Seq(Nat)
    BY SubTypes
  <1>2. t = [[s EXCEPT !.cursor = id] EXCEPT !.tries = 0]
    BY DEF Sub, Moved
  <1>3. t \in Sub
    <2>1. [s EXCEPT !.cursor = id] \in Sub
      BY FieldTypes
    <2>2. \A x \in Sub : [x EXCEPT !.tries = 0] \in Sub
      BY DEF Sub
    <2> HIDE DEF t
    <2> QED
      BY <1>2, <2>1, <2>2
  <1>4. t.got = s.got /\ t.has = s.has /\ t.calls = s.calls /\ t.cursor = id /\ t.pc = s.pc
    BY DEF Sub, Moved
  <1>5. u = [t EXCEPT !.got = Append(s.got, id)]
    BY <1>3, <1>4 DEF Passed
  <1>6. v = [u EXCEPT !.pc = "closing"]
    BY <1>3 DEF Sub, Passed, Closed
  <1> HIDE DEF t, u, v
  <1>7. u \in Sub
    BY <1>1, <1>3, <1>5, FieldTypes
  <1>8. u.got = Append(s.got, id) /\ u.has = s.has /\ u.calls = s.calls /\ u.cursor = id
        /\ u.pc = s.pc
    BY <1>3, <1>4, <1>5 DEF Sub
  <1>9. v \in Sub
    BY <1>6, <1>7, FieldTypes
  <1>10. v.got = Append(s.got, id) /\ v.has = s.has /\ v.calls = s.calls /\ v.cursor = id
         /\ v.pc = "closing"
    BY <1>6, <1>7, <1>8 DEF Sub
  <1> QED
    BY <1>3, <1>4, <1>7, <1>8, <1>9, <1>10 DEF t, u, v

\* A step of one client that is sound for it keeps the whole invariant.
LEMMA UpdateKeeps ==
  ASSUME IInv, NEW r \in Requests, NEW c \in Clients, NEW s \in Sub, Update(r, c, s),
         Sound(hist[r], s),
         r \notin closed =>
           /\ Full(hist[r], s)
           /\ \A d \in Clients : d # c => Agree(s.got, sub[r][d].got)
  PROVE  IInv'
  <1>1. /\ log' = log /\ closed' = closed /\ hist' = hist /\ known' = known
        /\ published' = published
        /\ sub' = [sub EXCEPT ![r][c] = s]
    BY DEF Update, logVars
  <1>2. /\ sub \in [Requests -> [Clients -> Sub]]
        /\ sub' \in [Requests -> [Clients -> Sub]]
    BY <1>1 DEF IInv, TypeInv
  <1>3. \A q \in Requests, d \in Clients :
          sub'[q][d] = IF q = r /\ d = c THEN s ELSE sub[q][d]
    BY <1>1, <1>2
  <1>4. TypeInv' /\ LogInv'
    BY <1>1, <1>2 DEF IInv, TypeInv, LogInv
  <1>5. ClientInv'
    BY <1>1, <1>3 DEF IInv, ClientInv
  <1>6. AgreeInv'
    <2> SUFFICES ASSUME NEW q \in Requests \ closed, NEW d \in Clients, NEW u \in Clients
                 PROVE  Agree(sub'[q][d].got, sub'[q][u].got)
      BY <1>1 DEF AgreeInv
    <2>1. Agree(sub[q][d].got, sub[q][u].got)
      BY DEF IInv, AgreeInv
    <2>2. CASE q # r \/ (d # c /\ u # c)
      BY <1>3, <2>1, <2>2
    <2>3. CASE q = r /\ d = c /\ u = c
      BY <1>3, <2>3 DEF Agree, Sub
    <2>4. CASE q = r /\ d = c /\ u # c
      BY <1>3, <2>4
    <2>5. CASE q = r /\ d # c /\ u = c
      <3>1. Agree(s.got, sub[r][d].got)
        BY <2>5
      <3>2. sub'[q][d].got = sub[r][d].got /\ sub'[q][u].got = s.got
        BY <1>3, <2>5
      <3>3. Len(s.got) \in Nat /\ Len(sub[r][d].got) \in Nat
        BY <1>2, SubTypes
      <3> QED
        BY <3>1, <3>2, <3>3 DEF Agree
    <2> QED
      BY <2>2, <2>3, <2>4, <2>5
  <1> QED
    BY <1>4, <1>5, <1>6 DEF IInv

\* A client that keeps what it has agrees with the others as before.
LEMMA KeepsAgree ==
  ASSUME IInv, NEW r \in Requests, NEW c \in Clients, NEW t \in Sub, Update(r, c, t),
         t.got = sub[r][c].got, t.has <= Len(t.got),
         t.calls = sub[r][c].calls, sub[r][c].calls # 0,
         t.pc \in Active => sub[r][c].pc \in Active /\ t.cursor = sub[r][c].cursor
  PROVE  IInv'
  <1>1. sub[r][c] \in Sub /\ Sound(hist[r], sub[r][c])
        /\ (r \notin closed => Full(hist[r], sub[r][c]))
    BY DEF IInv, TypeInv, ClientInv
  <1>2. Sound(hist[r], t) /\ (r \notin closed => Full(hist[r], t))
    BY <1>1, KeepsGot
  <1>3. r \notin closed => \A d \in Clients : Agree(t.got, sub[r][d].got)
    BY DEF IInv, AgreeInv
  <1> QED
    BY <1>2, <1>3, UpdateKeeps

\* Reading an entry moves the cursor to it and forwards it.
LEMMA ReadKeeps ==
  ASSUME IInv, NEW r \in Requests, NEW c \in Clients, ReadEntry(r, c)
  PROVE  IInv'
  <1> DEFINE s == sub[r][c]
             h == hist[r]
             id == After(r, s.cursor)
  <1>1. /\ s \in Sub /\ s.cursor \in Nat /\ s.got \in Seq(Nat)
        /\ Sound(h, s)
        /\ r \notin closed => Full(h, s)
        /\ h \in Seq(Events) /\ Len(h) \in Nat
        /\ log[r] \in Seq(Events) /\ Len(log[r]) \in Nat /\ Len(log[r]) <= Len(h)
        /\ r \notin closed => Len(log[r]) = Len(h)
    BY DEF IInv, TypeInv, ClientInv, LogInv, Sub
  <1>2. s.pc = "read" /\ s.pc \in Active
    BY DEF ReadEntry, Reading, Active
  <1>3. /\ id \in 1..Len(h) /\ s.cursor < id
        /\ r \notin closed => id = s.cursor + 1
    <2>1. id <= Len(h)
      BY DEF ReadEntry, Available
    <2>2. id \in Nat /\ s.cursor < id /\ (r \notin closed => id = s.cursor + 1)
      <3>1. Expired(r) \in Nat /\ (r \notin closed => Expired(r) = 0)
        BY <1>1 DEF Expired
      <3> QED
        BY <3>1, <1>1 DEF After
    <2> QED
      BY <1>1, <2>1, <2>2
  <1>4. h[id].kind \in Kinds
    <2> HIDE DEF s, h, id
    <2>1. h[id] \in Events
      BY <1>1, <1>3
    <2> QED
      BY <2>1 DEF Events
  <1> DEFINE after == CASE h[id].kind = "started"  -> Moved(s, id)
                        [] h[id].kind = "token"    -> Passed(s, id)
                        [] h[id].kind \in Terminal -> Closed(s, id)
  <1>5. Update(r, c, after)
    BY DEF ReadEntry, Kind, Moved, Passed, Closed
  <1>6. ASSUME r \notin closed, h[id].kind # "started"
        PROVE  \A d \in Clients : d # c => Agree(Append(s.got, id), sub[r][d].got)
    <2> SUFFICES ASSUME NEW d \in Clients  PROVE Agree(Append(s.got, id), sub[r][d].got)
      OBVIOUS
    <2>1. /\ sub[r][d] \in Sub /\ Sound(h, sub[r][d]) /\ Full(h, sub[r][d])
          /\ Agree(s.got, sub[r][d].got)
      BY <1>6 DEF IInv, TypeInv, ClientInv, AgreeInv
    <2> HIDE DEF s, h, id
    <2> QED
      BY <1>1, <1>2, <1>3, <1>6, <2>1, AppendAgrees
  <1> HIDE DEF s, h, id
  <1>7. id \in Nat
    BY <1>1, <1>3
  <1>8. CASE h[id].kind = "started"
    <2>1. after = Moved(s, id)
      BY <1>8 DEF Terminal
    <2>2. Update(r, c, Moved(s, id))
      <3> HIDE DEF after
      <3> QED
        BY <1>5, <2>1
    <2>3. Moved(s, id) \in Sub /\ Moved(s, id).got = s.got
      BY <1>1, <1>7, MovedTypes
    <2>4. Sound(h, Moved(s, id)) /\ (r \notin closed => Full(h, Moved(s, id)))
      BY <1>1, <1>2, <1>3, <1>8, <2>3, SkipsStart DEF Moved
    <2>5. r \notin closed => \A d \in Clients : Agree(Moved(s, id).got, sub[r][d].got)
      BY <2>3 DEF IInv, AgreeInv, s
    <2> QED
      BY <2>2, <2>3, <2>4, <2>5, UpdateKeeps DEF h
  <1>9. ASSUME h[id].kind # "started",
               NEW t \in {Passed(s, id), Closed(s, id)}, Update(r, c, t),
               t.pc = s.pc \/ t.pc \notin Active,
               t.pc \in Active => h[id].kind \notin Terminal
        PROVE  IInv'
    <2>1. t \in Sub /\ t.got = Append(s.got, id) /\ t.has = s.has /\ t.calls = s.calls
          /\ t.cursor = id
      BY <1>1, <1>7, MovedTypes
    <2>2. Sound(h, t) /\ (r \notin closed => Full(h, t))
      BY <1>1, <1>2, <1>3, <1>9, <2>1, Forwards
    <2> QED
      BY <1>6, <1>9, <2>1, <2>2, UpdateKeeps DEF h
  <1>10. CASE h[id].kind = "token"
    <2>1. after = Passed(s, id)
      BY <1>10 DEF Terminal
    <2>2. Update(r, c, Passed(s, id))
      <3> HIDE DEF after
      <3> QED
        BY <1>5, <2>1
    <2>3. Passed(s, id).pc = s.pc
      BY <1>1, <1>7, MovedTypes
    <2> QED
      BY <1>9, <1>10, <2>2, <2>3 DEF Terminal
  <1>11. CASE h[id].kind \in Terminal
    <2>1. after = Closed(s, id)
      BY <1>11 DEF Terminal
    <2>2. Update(r, c, Closed(s, id))
      <3> HIDE DEF after
      <3> QED
        BY <1>5, <2>1
    <2>3. Closed(s, id).pc \notin Active
      BY <1>1, <1>7, MovedTypes DEF Active
    <2> QED
      BY <1>9, <1>11, <2>2, <2>3 DEF Terminal
  <1> QED
    BY <1>4, <1>8, <1>10, <1>11 DEF Kinds, Terminal

\* A new call starts where the client is, or over.
LEMMA CallKeeps ==
  ASSUME IInv, NEW r \in Requests, NEW c \in Clients
  PROVE  /\ Resume(r, c) => IInv'
         /\ Replay(r, c) => IInv'
         /\ c = Caller /\ OpenStream(r) => IInv'
  <1> DEFINE s == sub[r][c]
             h == hist[r]
  <1>1. /\ s \in Sub /\ Sound(h, s)
        /\ r \notin closed => Full(h, s)
        /\ h \in Seq(Events) /\ Len(h) \in Nat
    BY DEF IInv, TypeInv, ClientInv
  <1>2. /\ s.cursor \in Nat /\ s.has \in Nat /\ s.calls \in Nat /\ s.tries \in 0..3
        /\ s.got \in Seq(Nat) /\ Len(s.got) \in Nat
    BY <1>1, SubTypes
  <1>3. r \notin closed => \A d \in Clients : Agree(s.got, sub[r][d].got)
    BY DEF IInv, AgreeInv
  <1>4. ASSUME Resume(r, c)  PROVE IInv'
    <2> DEFINE t == [s EXCEPT !.pc = "inspect", !.cursor = LastOf(s.got), !.calls = @ + 1]
    <2>1. Update(r, c, t) /\ ~ Done(r, c)
      BY <1>4 DEF Resume
    <2>2. LastOf(s.got) \in Nat
      BY <1>2, LastIs
    <2>3. t = [[[s EXCEPT !.pc = "inspect"] EXCEPT !.cursor = LastOf(s.got)]
                                            EXCEPT !.calls = s.calls + 1]
      BY <1>1 DEF Sub
    <2>4. t \in Sub
      <3>1. [s EXCEPT !.pc = "inspect"] \in Sub
        BY <1>1, FieldTypes DEF Active
      <3>2. \A x \in Sub : [x EXCEPT !.cursor = LastOf(s.got)] \in Sub
        BY <2>2, FieldTypes
      <3>3. \A x \in Sub : [x EXCEPT !.calls = s.calls + 1] \in Sub
        <4>1. s.calls + 1 \in Nat
          BY <1>2
        <4> QED
          BY <4>1, FieldTypes
      <3> HIDE DEF s, t
      <3> QED
        BY <2>3, <3>1, <3>2, <3>3
    <2>5. t.pc = "inspect" /\ t.cursor = LastOf(s.got) /\ t.calls = s.calls + 1
          /\ t.got = s.got /\ t.has = s.has
      BY <1>1 DEF Sub
    <2> HIDE DEF s, h, t
    <2>6. \A i \in 1..Len(s.got) : s.got[i] <= LastOf(s.got)
      BY <1>1, <1>2, LastIsGreatest DEF Sound
    <2>7. LastOf(s.got) <= Len(h)
      <3>1. CASE Len(s.got) = 0
        BY <3>1, <1>1, <1>2, LastIs
      <3>2. CASE Len(s.got) # 0
        BY <3>2, <1>1, <1>2, LastIs DEF Sound
      <3> QED
        BY <3>1, <3>2
    <2>8. t.calls # 0
      BY <1>2, <2>5
    <2>9. Sound(h, t)
      BY <1>1, <2>5, <2>6, <2>7, <2>8 DEF Sound
    <2>10. ASSUME r \notin closed  PROVE Full(h, t)
      <3>1. ASSUME NEW id \in 1..LastOf(s.got), h[id].kind # "started"
            PROVE  Has(s.got, id) /\ h[id].kind \notin Terminal
        <4>1. Has(s.got, id) /\ (h[id].kind \in Terminal => id = LastOf(s.got))
          BY <1>1, <2>10, <3>1 DEF Full
        <4>2. s.got # <<>>
          BY <2>2, <1>2, <3>1, LastIs DEF Has
        <4>3. h[LastOf(s.got)].kind \notin Terminal
          BY <2>1, <4>2 DEF Done, Kind, s, h
        <4> QED
          BY <4>1, <4>3
      <3> QED
        BY <1>1, <2>5, <2>10, <3>1 DEF Full
    <2> QED
      BY <1>3, <2>1, <2>4, <2>5, <2>9, <2>10, UpdateKeeps DEF h
  <1>5. ASSUME Replay(r, c)  PROVE IInv'
    <2> DEFINE t == [Away EXCEPT !.pc = "inspect", !.calls = s.calls + 1]
    <2>1. Update(r, c, t)
      BY <1>5 DEF Replay
    <2>2. Away \in Sub
      BY DEF Away, Sub
    <2>3. t \in Sub
      <3>1. t = [[Away EXCEPT !.pc = "inspect"] EXCEPT !.calls = s.calls + 1]
        BY <2>2 DEF Sub
      <3>2. [Away EXCEPT !.pc = "inspect"] \in Sub
        BY <2>2, FieldTypes DEF Active
      <3>3. s.calls + 1 \in Nat
        BY <1>2
      <3>4. \A x \in Sub : [x EXCEPT !.calls = s.calls + 1] \in Sub
        BY <3>3, FieldTypes
      <3> HIDE DEF s, t
      <3> QED
        BY <3>1, <3>2, <3>4
    <2>4. t.pc = "inspect" /\ t.cursor = 0 /\ t.got = <<>> /\ t.has = 0 /\ t.calls # 0
      <3>1. t.pc = "inspect" /\ t.cursor = Away.cursor /\ t.got = Away.got /\ t.has = Away.has
            /\ t.calls = s.calls + 1
        BY <2>2 DEF Sub
      <3> QED
        BY <3>1, <1>2 DEF Away
    <2> HIDE DEF s, h, t
    <2>5. Len(t.got) = 0 /\ LastOf(t.got) = 0
      BY <2>4 DEF LastOf
    <2>6. Sound(h, t) /\ Full(h, t)
      BY <1>1, <2>4, <2>5 DEF Sound, Full, Ordered
    <2>7. \A d \in Clients : Agree(t.got, sub[r][d].got)
      BY <2>5 DEF Agree
    <2> QED
      BY <2>1, <2>3, <2>6, <2>7, UpdateKeeps DEF h
  <1>6. ASSUME c = Caller, OpenStream(r)  PROVE IInv'
    <2> DEFINE t == [s EXCEPT !.pc = "subscribe", !.calls = 1]
    <2>1. Update(r, c, t) /\ s.calls = 0
      BY <1>6 DEF OpenStream
    <2>2. t = [[s EXCEPT !.pc = "subscribe"] EXCEPT !.calls = 1]
      BY <1>1 DEF Sub
    <2>3. t \in Sub
      <3>1. [s EXCEPT !.pc = "subscribe"] \in Sub
        BY <1>1, FieldTypes DEF Active
      <3>2. \A x \in Sub : [x EXCEPT !.calls = 1] \in Sub
        BY FieldTypes
      <3> HIDE DEF s, t
      <3> QED
        BY <2>2, <3>1, <3>2
    <2>4. t.pc = "subscribe" /\ t.cursor = s.cursor /\ t.got = s.got /\ t.has = s.has
          /\ t.calls = 1
      BY <1>1 DEF Sub
    <2> HIDE DEF s, h, t
    <2>5. t.cursor = 0 /\ t.got = <<>>
      BY <1>1, <2>1, <2>4 DEF Sound
    <2>6. Len(t.got) = 0 /\ LastOf(t.got) = 0
      BY <2>5 DEF LastOf
    <2>7. Sound(h, t)
      BY <1>1, <2>4, <2>5, <2>6 DEF Sound, Ordered
    <2>8. Full(h, t)
      BY <2>5, <2>6 DEF Full
    <2> QED
      BY <1>3, <2>1, <2>3, <2>4, <2>7, <2>8, UpdateKeeps DEF h
  <1> QED
    BY <1>4, <1>5, <1>6

\* The handler's other steps and the client's.
LEMMA ClientKeeps ==
  ASSUME IInv, NEW r \in Requests, NEW c \in Clients
  PROVE  /\ Inspect(r, c) => IInv'
         /\ Subscribe(r, c) => IInv'
         /\ ReadNothing(r, c) => IInv'
         /\ ReadFails(r, c) => IInv'
         /\ Reconnect(r, c) => IInv'
         /\ Receive(r, c) => IInv'
         /\ BodyEnds(r, c) => IInv'
         /\ HangUp(r, c) => IInv'
  <1> DEFINE s == sub[r][c]
             h == hist[r]
  <1>1. /\ s \in Sub /\ Sound(h, s)
        /\ r \notin closed => Full(h, s)
        /\ h \in Seq(Events) /\ Len(h) \in Nat
    BY DEF IInv, TypeInv, ClientInv
  <1>2. /\ s.cursor \in Nat /\ s.has \in Nat /\ s.calls \in Nat /\ s.tries \in 0..3
        /\ s.got \in Seq(Nat) /\ Len(s.got) \in Nat /\ s.has <= Len(s.got)
    BY <1>1, SubTypes DEF Sound
  <1>3. s.calls = 0 => s.pc = "away" /\ s.got = <<>>
    BY <1>1 DEF Sound
  \* Moving to another position.
  <1>4. ASSUME NEW pc \in Active \cup {"away", "closing", "broken"}, s.pc # "away",
               pc \in Active => s.pc \in Active, Update(r, c, [s EXCEPT !.pc = pc])
        PROVE  IInv'
    <2> DEFINE t == [s EXCEPT !.pc = pc]
    <2>1. t \in Sub
      BY <1>1, FieldTypes
    <2>2. t.pc = pc /\ t.got = s.got /\ t.has = s.has /\ t.calls = s.calls /\ t.cursor = s.cursor
      BY <1>1 DEF Sub
    <2> HIDE DEF t
    <2> QED
      BY <1>2, <1>3, <1>4, <2>1, <2>2, KeepsAgree DEF t
  <1>5. ASSUME NEW pc \in {"reconnect", "broken"}, s.pc # "away",
               pc \in Active => s.pc \in Active,
               NEW n \in 0..3, Update(r, c, [s EXCEPT !.pc = pc, !.tries = n])
        PROVE  IInv'
    <2> DEFINE t == [s EXCEPT !.pc = pc, !.tries = n]
    <2>1. t \in Sub
      <3>1. t = [[s EXCEPT !.pc = pc] EXCEPT !.tries = n]
        BY <1>1 DEF Sub
      <3>2. [s EXCEPT !.pc = pc] \in Sub
        BY <1>1, FieldTypes DEF Active
      <3>3. \A x \in Sub : [x EXCEPT !.tries = n] \in Sub
        BY DEF Sub
      <3> HIDE DEF s, t
      <3> QED
        BY <3>1, <3>2, <3>3
    <2>2. t.pc = pc /\ t.got = s.got /\ t.has = s.has /\ t.calls = s.calls /\ t.cursor = s.cursor
      BY <1>1 DEF Sub
    <2> HIDE DEF t
    <2> QED
      BY <1>2, <1>3, <1>5, <2>1, <2>2, KeepsAgree DEF t
  <1>6. ASSUME Break(r, c), s.pc # "away"  PROVE IInv'
    BY <1>5, <1>6 DEF Break, Active
  <1>7. Inspect(r, c) => IInv'
    BY <1>4 DEF Inspect, Active
  <1>8. Subscribe(r, c) => IInv'
    BY <1>4, <1>6 DEF Subscribe, Active
  <1>9. ReadNothing(r, c) => IInv'
    BY <1>6 DEF ReadNothing, Reading
  <1>10. ReadFails(r, c) => IInv'
    <2> SUFFICES ASSUME ReadFails(r, c)  PROVE IInv'
      OBVIOUS
    <2>1. s.pc = "read"
      BY DEF ReadFails, Reading
    <2>2. CASE s.tries < 3
      <3>1. Update(r, c, [s EXCEPT !.pc = "reconnect", !.tries = s.tries + 1])
        BY <2>2 DEF ReadFails
      <3>2. s.tries + 1 \in 0..3
        BY <1>2, <2>2
      <3> QED
        BY <1>5, <2>1, <3>1, <3>2 DEF Active
    <2>3. CASE ~ (s.tries < 3)
      BY <1>6, <2>1, <2>3 DEF ReadFails
    <2> QED
      BY <2>2, <2>3
  <1>11. Reconnect(r, c) => IInv'
    BY <1>4, <1>6 DEF Reconnect, Active
  <1>12. ASSUME Receive(r, c)  PROVE IInv'
    <2> DEFINE t == [s EXCEPT !.has = s.has + 1]
    <2>1. Update(r, c, t) /\ s.has < Len(s.got)
      BY <1>12 DEF Receive
    <2>2. t \in Sub
      <3>1. s.has + 1 \in Nat
        BY <1>2
      <3> QED
        BY <1>1, <3>1, FieldTypes
    <2>3. t.pc = s.pc /\ t.got = s.got /\ t.has = s.has + 1 /\ t.calls = s.calls
          /\ t.cursor = s.cursor
      BY <1>1 DEF Sub
    <2>4. s.calls # 0
      BY <1>2, <1>3, <2>1
    <2>5. t.has <= Len(t.got)
      BY <1>2, <2>1, <2>3
    <2> HIDE DEF t
    <2> QED
      BY <2>1, <2>2, <2>3, <2>4, <2>5, KeepsAgree
  <1>13. BodyEnds(r, c) => IInv'
    BY <1>4 DEF BodyEnds, Active
  <1>14. ASSUME HangUp(r, c)  PROVE IInv'
    <2> DEFINE g == SubSeq(s.got, 1, s.has)
               t == [s EXCEPT !.pc = "away", !.tries = 0, !.got = g]
    <2>1. Update(r, c, t) /\ s.pc # "away"
      BY <1>14 DEF HangUp
    <2>2. g \in Seq(Nat) /\ Len(g) = s.has /\ \A i \in 1..s.has : g[i] = s.got[i]
      BY <1>2
    <2>3. t \in Sub
      <3>1. t = [[[s EXCEPT !.pc = "away"] EXCEPT !.tries = 0] EXCEPT !.got = g]
        BY <1>1 DEF Sub
      <3>2. [s EXCEPT !.pc = "away"] \in Sub
        BY <1>1, FieldTypes
      <3>3. \A x \in Sub : [x EXCEPT !.tries = 0] \in Sub
        BY DEF Sub
      <3>4. \A x \in Sub : [x EXCEPT !.got = g] \in Sub
        BY <2>2, FieldTypes
      <3> HIDE DEF s, t, g
      <3> QED
        BY <3>1, <3>2, <3>3, <3>4
    <2>4. t.pc = "away" /\ t.got = g /\ t.has = s.has /\ t.calls = s.calls
      BY <1>1 DEF Sub
    <2>5. s.calls # 0
      BY <1>3, <2>1
    <2> HIDE DEF t
    <2>6. Sound(h, t) /\ (r \notin closed => Full(h, t))
      BY <1>1, <2>3, <2>4, <2>5, Truncates DEF Active
    <2>7. r \notin closed => \A d \in Clients : Agree(t.got, sub[r][d].got)
      <3>1. r \notin closed => \A d \in Clients : Agree(s.got, sub[r][d].got)
        BY DEF IInv, AgreeInv
      <3> HIDE DEF g, s
      <3>2. \A i \in 1..Len(t.got) : i \in 1..Len(s.got) /\ t.got[i] = s.got[i]
        BY <1>2, <2>2, <2>4
      <3> QED
        BY <3>1, <3>2 DEF Agree
    <2> QED
      BY <2>1, <2>3, <2>6, <2>7, UpdateKeeps
  <1> QED
    BY <1>7, <1>8, <1>9, <1>10, <1>11, <1>12, <1>13, <1>14

-----------------------------------------------------------------------------
\* Nobody has called and nothing was written.
LEMMA InitHolds ==
  ASSUME Init
  PROVE  IInv
  <1>1. /\ log = [r \in Requests |-> <<>>] /\ closed = {}
        /\ hist = [r \in Requests |-> <<>>] /\ known = {}
        /\ published = {}
        /\ sub = [r \in Requests |-> [c \in Clients |-> Away]]
    BY DEF Init, LogInit
  <1>2. Away \in Sub
    BY DEF Away, Sub
  <1>3. TypeInv
    BY <1>1, <1>2 DEF TypeInv
  <1>4. LogInv
    <2>1. Len(<<>>) = 0 /\ WholeLog(<<>>)
      BY DEF WholeLog
    <2>2. \A r \in Requests : log[r] = <<>> /\ hist[r] = <<>>
      BY <1>1
    <2>3. \A r \in Requests : Len(log[r]) <= Len(hist[r])
      <3>1. \A r \in Requests : Len(log[r]) = 0 /\ Len(hist[r]) = 0
        BY <2>1, <2>2
      <3> QED
        BY <3>1, 0 <= 0
    <2>4. \A r \in Requests : WholeLog(hist[r])
      BY <2>1, <2>2
    <2> QED
      BY <2>2, <2>3, <2>4 DEF LogInv
  <1>5. Sound(<<>>, Away) /\ Full(<<>>, Away) /\ Agree(Away.got, Away.got)
    BY DEF Sound, Full, Agree, Away, LastOf, Ordered, Active
  <1>6. ClientInv
    BY <1>1, <1>5 DEF ClientInv
  <1>7. AgreeInv
    BY <1>1, <1>5 DEF AgreeInv
  <1> QED
    BY <1>3, <1>4, <1>6, <1>7 DEF IInv

\* Every step keeps the invariant.
LEMMA NextKeeps ==
  ASSUME IInv, [Next]_vars
  PROVE  IInv'
  <1>1. CASE Produce
    BY <1>1, ProduceKeeps
  <1>2. ASSUME NEW r \in Requests, Status(r)  PROVE IInv'
    <2>1. /\ log' = log /\ closed' = closed /\ hist' = hist /\ sub' = sub
          /\ known' \subseteq Requests /\ published' \subseteq Requests
      BY <1>2 DEF Status, Publish, WriteStatus, StatusExpires, logVars, IInv, TypeInv
    <2> QED
      BY <2>1 DEF IInv, TypeInv, LogInv, ClientInv, AgreeInv
  <1>3. ASSUME NEW r \in Requests, OpenStream(r)  PROVE IInv'
    BY <1>3, CallerAssumption, CallKeeps
  <1>4. ASSUME NEW r \in Requests, NEW c \in Clients, Resume(r, c) \/ Replay(r, c)  PROVE IInv'
    BY <1>4, CallKeeps
  <1>5. ASSUME NEW r \in Requests, NEW c \in Clients,
               Handler(r, c) \/ Client(r, c) \/ HangUp(r, c)
        PROVE  IInv'
    BY <1>5, ReadKeeps, ClientKeeps DEF Handler, Client
  <1>6. CASE UNCHANGED vars
    <2>1. /\ log' = log /\ closed' = closed /\ hist' = hist /\ sub' = sub /\ known' = known
          /\ published' = published
      BY <1>6 DEF vars, logVars
    <2> QED
      BY <2>1 DEF IInv, TypeInv, LogInv, ClientInv, AgreeInv
  <1> QED
    BY <1>1, <1>2, <1>3, <1>4, <1>5, <1>6 DEF Next, Calls

(***************************************************************************)
(* The inductive invariant of the subscriptions.                           *)
(***************************************************************************)
THEOREM SubscriptionInvariant == Spec => []IInv
  <1>1. Init => IInv
    BY InitHolds
  <1>2. IInv /\ [Next]_vars => IInv'
    BY NextKeeps
  <1> QED
    BY <1>1, <1>2, PTL DEF Spec

\* The invariant implies each of the properties.
LEMMA InvariantImplies ==
  ASSUME IInv
  PROVE  TypeOK /\ InStreamOrder /\ NothingSkipped /\ WholeResponse /\ SubscribersAgree
  <1>1. TypeOK
    BY DEF IInv, TypeInv, TypeOK, Events
  <1>2. InStreamOrder
    BY DEF IInv, ClientInv, Sound, Ordered, InStreamOrder
  <1>3. NothingSkipped
    BY DEF IInv, ClientInv, Full, Has, Kind, NothingSkipped
  <1>4. WholeResponse
    <2> SUFFICES ASSUME NEW r \in Requests \ closed, NEW c \in Clients,
                        NEW i \in 1..Len(sub[r][c].got),
                        Kind(r, sub[r][c].got[i]) = "completed",
                        NEW n \in 1..hist[r][sub[r][c].got[i]].n
                 PROVE  \E j \in 1..(i - 1) :
                          hist[r][sub[r][c].got[j]] =
                            [kind |-> "token", attempt |-> hist[r][sub[r][c].got[i]].attempt,
                             n |-> n]
      BY DEF WholeResponse
    <2> DEFINE g == sub[r][c].got
               h == hist[r]
    <2>1. /\ g \in Seq(Nat) /\ Len(g) \in Nat /\ Sound(h, sub[r][c]) /\ Full(h, sub[r][c])
          /\ WholeLog(h) /\ Ordered(g)
      BY SubTypes DEF IInv, TypeInv, ClientInv, LogInv, Sound
    <2>2. g[i] \in 1..Len(h) /\ h[g[i]].kind = "completed"
      BY <2>1 DEF Sound, Kind
    <2>3. PICK id \in 1..(g[i] - 1) :
            h[id] = [kind |-> "token", attempt |-> h[g[i]].attempt, n |-> n]
      BY <2>1, <2>2 DEF WholeLog
    <2>4. g[i] <= LastOf(g) /\ LastOf(g) \in Nat
      BY <2>1, LastIs, LastIsGreatest
    <2>5. id \in 1..LastOf(g) /\ h[id].kind # "started"
      BY <2>2, <2>3, <2>4
    <2>6. PICK j \in 1..Len(g) : g[j] = id
      BY <2>1, <2>5 DEF Full, Has
    <2>7. g[j] < g[i]
      BY <2>2, <2>3, <2>6
    <2> HIDE DEF g, h
    <2>8. ~ (i < j) /\ i # j
      <3>0. i \in 1..Len(g)
        BY DEF g
      <3>1. i \in 1..Len(g) /\ g[i] \in Nat /\ g[j] \in Nat
        BY <2>1, <2>6, <3>0
      <3>2. i < j => g[i] < g[j]
        BY <2>1, <2>6, <3>1 DEF Ordered
      <3> QED
        BY <2>7, <3>1, <3>2
    <2>9. j \in 1..(i - 1)
      BY <2>1, <2>6, <2>8
    <2> QED
      BY <2>3, <2>6, <2>9 DEF g, h
  <1>5. SubscribersAgree
    BY DEF IInv, AgreeInv, Agree, SubscribersAgree
  <1> QED
    BY <1>1, <1>2, <1>3, <1>4, <1>5

(***************************************************************************)
(* Type correctness of the handlers and their clients.                     *)
(***************************************************************************)
THEOREM SubscriptionTypes == Spec => []TypeOK
  BY SubscriptionInvariant, InvariantImplies, PTL

(***************************************************************************)
(* Resuming and reconnecting never repeat or reorder an event.             *)
(***************************************************************************)
THEOREM StreamOrder == Spec => []InStreamOrder
  BY SubscriptionInvariant, InvariantImplies, PTL

(***************************************************************************)
(* Whatever calls a client takes, it misses no chunk before the last event *)
(* it has.                                                                 *)
(***************************************************************************)
THEOREM NoneSkipped == Spec => []NothingSkipped
  BY SubscriptionInvariant, InvariantImplies, PTL

(***************************************************************************)
(* A client with the completed event has every chunk of its attempt.       *)
(***************************************************************************)
THEOREM ResponsesWhole == Spec => []WholeResponse
  BY SubscriptionInvariant, InvariantImplies, PTL

(***************************************************************************)
(* docs/decisions/0001: "Multiple subscribers receive identical ordered    *)
(* events", for any number of clients that resume and replay at will.      *)
(***************************************************************************)
THEOREM SubscribersIdentical == Spec => []SubscribersAgree
  BY SubscriptionInvariant, InvariantImplies, PTL
=============================================================================
