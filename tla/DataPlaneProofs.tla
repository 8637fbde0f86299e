-------------------------- MODULE DataPlaneProofs --------------------------
(***************************************************************************)
(* Proofs about DataPlane, for every number of requests and engines and    *)
(* every bound.  The inductive invariant IInv is TypeOK and one conjunct   *)
(* per subject: who holds which job (JobsAssigned, JobsDispatched), the    *)
(* reservation (SettledInv), the terminal event (FinishedInv), the         *)
(* expiration of the result stream (ExpiresInv), of one that was created   *)
(* again (RecreatedInv), and the lease (OwnerInv).                         *)
(* The safety properties alone are not inductive: that an acknowledged job *)
(* is finished rests on what an engine about to acknowledge knows, and on  *)
(* what a "completed" status implies.                                      *)
(*                                                                         *)
(* Layout: what each engine action does to the engine's own state (the     *)
(* ...Facts and ...Move lemmas), type correctness, then for each conjunct  *)
(* one lemma with a step per engine action, the front end's and time's     *)
(* steps for all conjuncts together, and the theorems.  CompletedIsWhole   *)
(* has an invariant of its own, WholeInv, at the end.                      *)
(***************************************************************************)
EXTENDS DataPlane, TLAPS

\* What every move of an engine leaves alone.
OnlyMoves(e) ==
  /\ eng' \in [Engines -> EngineState]
  /\ \A f \in Engines : f # e => eng'[f] = eng[f]

\* The engine keeps its job and its attempt.
SameJob(e) == eng'[e].job = eng[e].job /\ eng'[e].att = eng[e].att

\* Reset, Step, Publish, EndAttempt, Begin: the updates of eng[e] the actions are made of.
LEMMA ResetFacts ==
  ASSUME eng \in [Engines -> EngineState], NEW e \in Engines, NEW pc \in PCs, Reset(e, pc)
  PROVE  /\ OnlyMoves(e)
         /\ eng'[e] = At(pc)
         /\ eng'[e].pc = pc /\ eng'[e].job = NoJob /\ eng'[e].att = 0
<1>1. At(pc) \in EngineState
  BY DEF At, EngineState, Kinds, Outcomes
<1> QED BY <1>1 DEF Reset, OnlyMoves, At

\* Step moves the pc of e and nothing else.
LEMMA StepFacts ==
  ASSUME eng \in [Engines -> EngineState], NEW e \in Engines, NEW pc \in PCs, Step(e, pc)
  PROVE  /\ OnlyMoves(e)
         /\ SameJob(e)
         /\ eng'[e].pc = pc
         /\ eng'[e].sent = eng[e].sent /\ eng'[e].outcome = eng[e].outcome
         /\ eng'[e].ev = eng[e].ev /\ eng'[e].heart = eng[e].heart
<1> DEFINE s == [eng[e] EXCEPT !.pc = pc]
<1>1. s \in EngineState
  BY DEF EngineState
<1>2. eng' = [eng EXCEPT ![e] = s]
  BY DEF Step
<1>3. s.pc = pc /\ s.job = eng[e].job /\ s.att = eng[e].att /\ s.sent = eng[e].sent
      /\ s.outcome = eng[e].outcome /\ s.ev = eng[e].ev /\ s.heart = eng[e].heart
  BY DEF EngineState
<1> HIDE DEF s
<1> QED BY <1>1, <1>2, <1>3 DEF OnlyMoves, SameJob

\* Publish chooses the event e is about to XADD.
LEMMA PublishFacts ==
  ASSUME eng \in [Engines -> EngineState], NEW e \in Engines, NEW kind \in Kinds, Publish(e, kind)
  PROVE  /\ OnlyMoves(e)
         /\ SameJob(e)
         /\ eng'[e].pc = "publish" /\ eng'[e].ev = kind
         /\ eng'[e].sent = eng[e].sent /\ eng'[e].outcome = eng[e].outcome
         /\ eng'[e].heart = eng[e].heart
<1> DEFINE s == [eng[e] EXCEPT !.pc = "publish", !.ev = kind]
<1>1. s \in EngineState
  BY DEF EngineState, PCs
<1>2. eng' = [eng EXCEPT ![e] = s]
  BY DEF Publish
<1>3. s.pc = "publish" /\ s.job = eng[e].job /\ s.att = eng[e].att /\ s.sent = eng[e].sent
      /\ s.outcome = eng[e].outcome /\ s.ev = kind /\ s.heart = eng[e].heart
  BY DEF EngineState
<1> HIDE DEF s
<1> QED BY <1>1, <1>2, <1>3 DEF OnlyMoves, SameJob

\* EndAttempt stops the heartbeat and keeps job and attempt.
LEMMA EndFacts ==
  ASSUME eng \in [Engines -> EngineState], NEW e \in Engines, NEW outcome \in Outcomes,
         EndAttempt(e, outcome)
  PROVE  /\ OnlyMoves(e)
         /\ SameJob(e)
         /\ eng'[e].pc = "release" /\ eng'[e].heart = "stopped"
         /\ eng'[e].sent = eng[e].sent /\ eng'[e].outcome = outcome
         /\ eng'[e].ev = eng[e].ev
<1> DEFINE s == [eng[e] EXCEPT !.pc = "release", !.outcome = outcome, !.heart = "stopped"]
<1>1. s \in EngineState
  BY DEF EngineState, PCs
<1>2. eng' = [eng EXCEPT ![e] = s]
  BY DEF EndAttempt
<1>3. s.pc = "release" /\ s.job = eng[e].job /\ s.att = eng[e].att /\ s.sent = eng[e].sent
      /\ s.outcome = outcome /\ s.ev = eng[e].ev /\ s.heart = "stopped"
  BY DEF EngineState
<1> HIDE DEF s
<1> QED BY <1>1, <1>2, <1>3 DEF OnlyMoves, SameJob

\* Begin gives e a delivered job, with no attempt yet.
LEMMA BeginFacts ==
  ASSUME eng \in [Engines -> EngineState], NEW e \in Engines, NEW r \in Requests, Begin(e, r)
  PROVE  /\ OnlyMoves(e)
         /\ eng'[e].pc = "begin" /\ eng'[e].job = r /\ eng'[e].att = 0
         /\ eng'[e].sent = 0
<1> DEFINE s == [At("begin") EXCEPT !.job = r]
<1>1. s \in EngineState
  BY DEF EngineState, PCs, At, Kinds, Outcomes
<1>3. s.pc = "begin" /\ s.job = r /\ s.att = 0 /\ s.sent = 0
  BY DEF At
<1> HIDE DEF s
<1> QED BY <1>1, <1>3 DEF OnlyMoves, Begin, s

\* What the engine of a granted lease becomes.
LEMMA AcquireFacts ==
  ASSUME eng \in [Engines -> EngineState], NEW e \in Engines, NEW attempt \in Nat,
         eng' = [eng EXCEPT ![e].pc = "execute", ![e].att = attempt, ![e].heart = "beating"]
  PROVE  /\ OnlyMoves(e)
         /\ eng'[e].pc = "execute" /\ eng'[e].att = attempt /\ eng'[e].heart = "beating"
         /\ eng'[e].job = eng[e].job /\ eng'[e].sent = eng[e].sent
<1> DEFINE s == [eng[e] EXCEPT !.pc = "execute", !.att = attempt, !.heart = "beating"]
<1>1. s \in EngineState
  BY DEF EngineState, PCs
<1>2. eng' = [eng EXCEPT ![e] = s]
  OBVIOUS
<1>3. s.pc = "execute" /\ s.job = eng[e].job /\ s.att = attempt /\ s.heart = "beating"
      /\ s.sent = eng[e].sent
  BY DEF EngineState
<1> HIDE DEF s
<1> QED BY <1>1, <1>2, <1>3 DEF OnlyMoves

\* What the engine of a produced chunk becomes.
LEMMA TokenFacts ==
  ASSUME eng \in [Engines -> EngineState], NEW e \in Engines,
         eng' = [eng EXCEPT ![e].pc = "publish", ![e].ev = "token", ![e].sent = @ + 1]
  PROVE  /\ OnlyMoves(e)
         /\ SameJob(e)
         /\ eng'[e].pc = "publish" /\ eng'[e].ev = "token" /\ eng'[e].sent = eng[e].sent + 1
         /\ eng'[e].outcome = eng[e].outcome /\ eng'[e].heart = eng[e].heart
<1> DEFINE s == [eng[e] EXCEPT !.pc = "publish", !.ev = "token", !.sent = @ + 1]
<1>1. s \in EngineState
  BY DEF EngineState, PCs, Kinds
<1>2. eng' = [eng EXCEPT ![e] = s]
  OBVIOUS
<1>3. s.pc = "publish" /\ s.job = eng[e].job /\ s.att = eng[e].att /\ s.ev = "token"
      /\ s.sent = eng[e].sent + 1 /\ s.outcome = eng[e].outcome /\ s.heart = eng[e].heart
  BY DEF EngineState
<1> HIDE DEF s
<1> QED BY <1>1, <1>2, <1>3 DEF OnlyMoves, SameJob

\* A heartbeat that ends changes nothing else.
LEMMA HeartbeatFacts ==
  ASSUME eng \in [Engines -> EngineState], NEW e \in Engines,
         eng' = [eng EXCEPT ![e].heart = "stopped"]
  PROVE  /\ OnlyMoves(e)
         /\ SameJob(e)
         /\ eng'[e].pc = eng[e].pc /\ eng'[e].ev = eng[e].ev /\ eng'[e].sent = eng[e].sent
         /\ eng'[e].outcome = eng[e].outcome
<1> DEFINE s == [eng[e] EXCEPT !.heart = "stopped"]
<1>1. s \in EngineState
  BY DEF EngineState
<1>2. eng' = [eng EXCEPT ![e] = s]
  OBVIOUS
<1>3. s.pc = eng[e].pc /\ s.job = eng[e].job /\ s.att = eng[e].att /\ s.ev = eng[e].ev
      /\ s.sent = eng[e].sent /\ s.outcome = eng[e].outcome
  BY DEF EngineState
<1> HIDE DEF s
<1> QED BY <1>1, <1>2, <1>3 DEF OnlyMoves, SameJob

\* e has a job.
Busy(e) == eng[e].pc \notin {"idle", "reclaim", "down"}

\* An engine past the loop has a job.
JobsAssigned == \A e \in Engines : Busy(e) => eng[e].job \in Requests

-----------------------------------------------------------------------------
(* What each action of an engine does to the engine's own state.           *)

\* e waits for work again, or is down.
Rests(e) == OnlyMoves(e) /\ ~ Busy(e)'

\* e goes on with its job.
Keeps(e) ==
  /\ OnlyMoves(e)
  /\ SameJob(e)
  /\ eng'[e].sent = eng[e].sent

\* NextJob: e begins the entry it read, or stays without a job.
LEMMA NextJobMove ==
  ASSUME TypeOK, NEW e \in Engines, NEW reply \in Replies, NextJob(e, reply)
  PROVE  /\ eng[e].pc = "idle"
         /\ \/ Rests(e)
            \/ /\ OnlyMoves(e)
               /\ eng'[e].pc = "begin" /\ eng'[e].att = 0 /\ eng'[e].sent = 0
               /\ eng'[e].job \in Requests
               /\ \E i \in 1..Len(queue) : eng'[e].job = queue[i]
<1>1. PICK r \in Requests :
        /\ ReadGroup(r, reply)
        /\ IF reply = "ok" THEN Begin(e, r)
           ELSE \E pc \in {"idle", "down"} : Reset(e, pc)
  BY DEF NextJob
<1>2. delivered + 1 \in 1..Len(queue) /\ r = queue[delivered + 1]
  BY <1>1 DEF ReadGroup, Deliver, Undelivered, queueVars, TypeOK
<1>3. eng[e].pc = "idle"
  BY DEF NextJob
<1> QED BY <1>1, <1>2, <1>3, BeginFacts, ResetFacts DEF TypeOK, PCs, Rests, Busy

\* NextNone: e goes on to reclaim, or creates its consumer again, or its process ends.
LEMMA NextNoneMove ==
  ASSUME TypeOK, NEW e \in Engines, NEW reply \in Replies, NextNone(e, reply)
  PROVE  /\ eng[e].pc = "idle"
         /\ Rests(e)
  BY StepFacts, ResetFacts DEF TypeOK, PCs, Kinds, Outcomes, Rests, Keeps, SameJob, Busy, NextNone

\* Reclaim: e begins the stale entry it claimed, or its process ends.
LEMMA ReclaimMove ==
  ASSUME TypeOK, NEW e \in Engines, NEW reply \in Replies, Reclaim(e, reply)
  PROVE  /\ eng[e].pc = "reclaim"
         /\ \/ Rests(e)
            \/ /\ OnlyMoves(e)
               /\ eng'[e].pc = "begin" /\ eng'[e].att = 0 /\ eng'[e].sent = 0
               /\ eng'[e].job \in Requests
               /\ \E i \in 1..Len(queue) : eng'[e].job = queue[i]
  BY BeginFacts, ResetFacts
     DEF TypeOK, PCs, Kinds, Outcomes, Rests, Keeps, SameJob, Busy, Reclaim, AutoClaim, Claim,
     FirstStale, Scanned

\* ReclaimNone: e stays without a job.
LEMMA ReclaimNoneMove ==
  ASSUME TypeOK, NEW e \in Engines, NEW reply \in Replies, ReclaimNone(e, reply)
  PROVE  /\ eng[e].pc = "reclaim"
         /\ Rests(e)
  BY ResetFacts DEF TypeOK, PCs, Kinds, Outcomes, Rests, Keeps, SameJob, Busy, ReclaimNone

\* Ack: e is left without a job, acknowledged or not.
LEMMA AckMove ==
  ASSUME TypeOK, NEW e \in Engines, NEW reply \in Replies, Ack(e, reply)
  PROVE  /\ eng[e].pc = "ack"
         /\ Rests(e)
  BY ResetFacts DEF TypeOK, PCs, Kinds, Outcomes, Rests, Keeps, SameJob, Busy, Ack

\* CheckDeadline: the pc says whether the job was late.
LEMMA CheckDeadlineMove ==
  ASSUME TypeOK, NEW e \in Engines, CheckDeadline(e)
  PROVE  /\ eng[e].pc = "begin"
         /\ Keeps(e) /\ eng'[e].pc \in {"cancel", "status"}
  BY StepFacts DEF TypeOK, PCs, Kinds, Outcomes, Rests, Keeps, SameJob, Busy, CheckDeadline

\* CancelLate: e publishes the failure, or gives the job up.
LEMMA CancelLateMove ==
  ASSUME TypeOK, NEW e \in Engines, NEW reply \in Replies, CancelLate(e, reply)
  PROVE  /\ eng[e].pc = "cancel"
         /\ \/ Rests(e)
            \/ Keeps(e) /\ reply = "ok" /\ eng'[e].pc = "publish" /\ eng'[e].ev = "failed"
  BY PublishFacts, ResetFacts
     DEF TypeOK, PCs, Kinds, Outcomes, Rests, Keeps, SameJob, Busy, CancelLate

\* CheckStatus: e acknowledges a completed job, asks for the lease, or gives up.
LEMMA CheckStatusMove ==
  ASSUME TypeOK, NEW e \in Engines, NEW reply \in Replies, CheckStatus(e, reply)
  PROVE  /\ eng[e].pc = "status"
         /\ \/ Rests(e)
            \/ Keeps(e) /\ eng'[e].pc = "lease"
            \/ Keeps(e) /\ eng'[e].pc = "ack" /\ status[eng[e].job] = "completed"
  BY StepFacts, ResetFacts
     DEF TypeOK, PCs, Kinds, Outcomes, Rests, Keeps, SameJob, Busy, CheckStatus

\* Release: e settles, or gives the job up.
LEMMA ReleaseMove ==
  ASSUME TypeOK, NEW e \in Engines, NEW reply \in Replies, Release(e, reply)
  PROVE  /\ eng[e].pc = "release"
         /\ Rests(e) \/ (Keeps(e) /\ eng'[e].pc = "settle")
  BY StepFacts, ResetFacts
     DEF TypeOK, PCs, Kinds, Outcomes, Rests, Keeps, SameJob, Busy, Release

\* Settle: e publishes a terminal event, or gives the job up.
LEMMA SettleMove ==
  ASSUME TypeOK, NEW e \in Engines, NEW reply \in Replies, Settle(e, reply)
  PROVE  /\ eng[e].pc = "settle"
         /\ \/ Rests(e)
            \/ Keeps(e) /\ reply = "ok" /\ eng'[e].pc = "publish" /\ eng'[e].ev \in Terminal
  BY PublishFacts, ResetFacts
     DEF TypeOK, PCs, Kinds, Outcomes, Rests, Keeps, SameJob, Busy, Settle, Terminal

\* Refuse: the attempt ends before it starts.
LEMMA RefuseMove ==
  ASSUME TypeOK, NEW e \in Engines, Refuse(e)
  PROVE  /\ eng[e].pc = "execute"
         /\ Keeps(e) /\ eng'[e].pc = "release"
  BY EndFacts DEF TypeOK, PCs, Kinds, Outcomes, Rests, Keeps, SameJob, Busy, Refuse

\* Start: e publishes attempt_started.
LEMMA StartMove ==
  ASSUME TypeOK, NEW e \in Engines, Start(e)
  PROVE  /\ eng[e].pc = "execute"
         /\ Keeps(e) /\ eng'[e].pc = "publish" /\ eng'[e].ev = "started" /\ eng'[e].heart = eng[e].heart
  BY PublishFacts DEF TypeOK, PCs, Kinds, Outcomes, Rests, Keeps, SameJob, Busy, Start

\* BackendEnds: the attempt ends with the given outcome.
LEMMA BackendEndsMove ==
  ASSUME TypeOK, NEW e \in Engines, NEW outcome \in Outcomes, BackendEnds(e, outcome)
  PROVE  /\ eng[e].pc = "stream"
         /\ Keeps(e) /\ eng'[e].pc = "release"
  BY EndFacts DEF TypeOK, PCs, Kinds, Outcomes, Rests, Keeps, SameJob, Busy, BackendEnds

\* XAdd: e records the event, or the publication fails.
LEMMA XAddMove ==
  ASSUME TypeOK, NEW e \in Engines, NEW reply \in Replies, XAdd(e, reply)
  PROVE  /\ eng[e].pc = "publish"
         /\ \/ Rests(e)
            \/ Keeps(e) /\ eng'[e].pc = "release" /\ eng[e].ev \notin Terminal
            \/ /\ Keeps(e) /\ reply = "ok"
               /\ eng'[e].pc = "record" /\ eng'[e].ev = eng[e].ev /\ eng'[e].heart = eng[e].heart
  BY StepFacts, ResetFacts, EndFacts
     DEF TypeOK, PCs, Kinds, Outcomes, Rests, Keeps, SameJob, Busy, XAdd, PublishFails

\* Record: e acknowledges or streams on, or the publication fails.
LEMMA RecordMove ==
  ASSUME TypeOK, NEW e \in Engines, NEW reply \in Replies, Record(e, reply)
  PROVE  /\ eng[e].pc = "record"
         /\ \/ Rests(e)
            \/ Keeps(e) /\ eng'[e].pc = "release" /\ eng[e].ev \notin Terminal
            \/ Keeps(e) /\ reply = "ok" /\ eng'[e].pc = "ack" /\ eng[e].ev \in Terminal
            \/ /\ Keeps(e) /\ reply = "ok" /\ eng[e].ev \notin Terminal
               /\ eng'[e].pc = "stream" /\ eng'[e].heart = eng[e].heart
  BY StepFacts, ResetFacts, EndFacts
     DEF TypeOK, PCs, Kinds, Outcomes, Rests, Keeps, SameJob, Busy, Record, PublishFails

\* Restart: e is idle without a job.
LEMMA RestartMove ==
  ASSUME TypeOK, NEW e \in Engines, Restart(e)
  PROVE  /\ eng[e].pc = "down"
         /\ Rests(e)
  BY ResetFacts DEF TypeOK, PCs, Kinds, Outcomes, Rests, Keeps, SameJob, Busy, Restart

\* Crash: e is down without a job.
LEMMA CrashMove ==
  ASSUME TypeOK, NEW e \in Engines, Crash(e)
  PROVE  Rests(e)
  BY ResetFacts DEF TypeOK, PCs, Kinds, Outcomes, Rests, Keeps, SameJob, Busy, Crash

\* BackendToken: e publishes the next chunk.
LEMMA BackendTokenMove ==
  ASSUME TypeOK, NEW e \in Engines, BackendToken(e)
  PROVE  /\ eng[e].pc = "stream"
         /\ OnlyMoves(e) /\ SameJob(e)
         /\ eng'[e].pc = "publish" /\ eng'[e].ev = "token" /\ eng'[e].sent = eng[e].sent + 1
         /\ eng'[e].heart = eng[e].heart
  BY TokenFacts DEF TypeOK, BackendToken

\* HeartbeatLost: e keeps executing.
LEMMA HeartbeatLostMove ==
  ASSUME TypeOK, NEW e \in Engines, HeartbeatLost(e)
  PROVE  /\ Keeps(e) /\ eng'[e].pc = eng[e].pc /\ eng'[e].ev = eng[e].ev
         /\ eng[e].heart = "beating" /\ lease[eng[e].job] # eng[e].att
  BY HeartbeatFacts DEF TypeOK, Keeps, HeartbeatLost

\* Acquire: e executes the fresh attempt it owns the lease of, or gives up.
LEMMA AcquireMove ==
  ASSUME TypeOK, NEW e \in Engines, NEW reply \in Replies, Acquire(e, reply),
         eng[e].job \in Requests
  PROVE  /\ eng[e].pc = "lease"
         /\ \/ Rests(e)
            \/ /\ OnlyMoves(e) /\ reply = "ok" /\ lease[eng[e].job] = 0
               /\ eng'[e].pc = "execute" /\ eng'[e].heart = "beating"
               /\ eng'[e].job = eng[e].job /\ eng'[e].att = attempts[eng[e].job] + 1
               /\ eng'[e].sent = eng[e].sent
<1>1. attempts[eng[e].job] + 1 \in Nat
  BY DEF TypeOK
<1> QED BY <1>1, ResetFacts, AcquireFacts DEF TypeOK, Rests, Busy, PCs, Acquire

\* Type correctness: the initial states.
LEMMA TypeInit == Init => TypeOK
  BY DEF Init, StreamsInit, QueueInit, DispatchInit, EngineInit, TypeOK, At, EngineState, PCs, Kinds,
         Ttls, Positions, Event, Outcomes

\* Type correctness: the front end's steps.
LEMMA TypeFrontEnd == ASSUME TypeOK, NEW r \in Requests, FrontEnd(r) PROVE TypeOK'
<1> USE DEF TypeOK, Goto, Positions, Replied, Lands, Ttls, queueVars, statusVars, resultVars, streamsVars, engineVars, NoCommand, Replies
<1>1. CASE Reject(r)
  BY <1>1 DEF Reject, FrontEnd
<1>2. ASSUME NEW reply \in Replies, Reserve(r, reply) PROVE TypeOK'
  BY <1>2 DEF Reserve, ReserveQuota, FrontEnd
<1>3. ASSUME NEW reply \in Replies, PublishJob(r, reply) PROVE TypeOK'
  <2>1. delivered' = delivered /\ pel' = pel /\ stale' = stale
        /\ queue' \in {queue, Append(queue, r)}
    BY <1>3 DEF PublishJob, AddJob, Enqueue
  <2>a. queue \in Seq(Requests) /\ delivered \in 0..Len(queue)
    OBVIOUS
  <2>2. queue' \in Seq(Requests) /\ delivered \in 0..Len(queue')
    BY ONLY <2>1, <2>a, r \in Requests, SMTT(30)
  <2> QED BY <1>3, <2>1, <2>2 DEF PublishJob, AddJob, FrontEnd
<1>4. ASSUME NEW reply \in Replies, PublishStatus(r, reply) PROVE TypeOK'
  BY <1>4 DEF PublishStatus, MarkQueued, FrontEnd
<1>5. ASSUME NEW reply \in Replies, CancelDispatch(r, reply) PROVE TypeOK'
  BY <1>5 DEF CancelDispatch, CloseReservation, FrontEnd
<1>6. CASE Drop(r)
  BY <1>6 DEF Drop, FrontEnd
<1> QED BY <1>1, <1>2, <1>3, <1>4, <1>5, <1>6 DEF FrontEnd, Arrive, DispatchStep

\* Type correctness: the steps of time.
LEMMA TypeTime == ASSUME TypeOK, NEW r \in Requests, Time(r) PROVE TypeOK'
<1> USE DEF TypeOK, Ttls, queueVars, statusVars, resultVars, streamsVars, engineVars
<1>1. CASE BecomeStale(r)
  BY <1>1 DEF BecomeStale, GrowStale, Age
<1>2. CASE PassDeadline(r)
  BY <1>2 DEF PassDeadline, DeadlinePasses
<1>3. CASE LeaseExpires(r)
  BY <1>3 DEF LeaseExpires, LeaseLapses
<1>4. CASE ReservationExpires(r) /\ UNCHANGED <<fe, engineVars>>
  BY <1>4 DEF ReservationExpires
<1>5. CASE StatusExpires(r) /\ UNCHANGED <<fe, engineVars>>
  BY <1>5 DEF StatusExpires
<1>6. CASE ResultExpires(r) /\ UNCHANGED <<fe, engineVars>>
  BY <1>6 DEF ResultExpires
<1> QED BY <1>1, <1>2, <1>3, <1>4, <1>5, <1>6 DEF Time, KeyExpires

\* Type correctness: the engines' steps.  An engine past consumer.next holds a request.
LEMMA TypeWorker ==
  ASSUME TypeOK, JobsAssigned, NEW e \in Engines, Worker(e)
  PROVE  TypeOK' /\ JobsAssigned'
<1> UNCHANGED fe
  BY DEF Worker
<1>1. ASSUME NEW reply \in Replies, NextJob(e, reply) PROVE TypeOK' /\ JobsAssigned'
  <2>1. OnlyMoves(e) /\ (Busy(e)' => eng'[e].job \in Requests)
    BY <1>1, NextJobMove DEF Rests, Keeps, SameJob, Busy, JobsAssigned, NextJob
  <2>2. PICK r \in Requests : ReadGroup(r, reply)
    BY <1>1 DEF NextJob
  <2>3. delivered' \in 0..Len(queue) /\ pel' \subseteq Requests /\ stale \subseteq pel'
    BY <2>2 DEF ReadGroup, Deliver, Undelivered, queueVars, TypeOK
  <2>4. UNCHANGED <<attempts, crashes>>
    BY <1>1 DEF NextJob
  <2>5. /\ faults' \in Nat
        /\ UNCHANGED <<queue, stale, status, statusTtl, results, resultTtl, finished, expired,
                       lease, res, late>>
    BY <2>2 DEF ReadGroup, Deliver, Undelivered, queueVars, Replied, TypeOK, statusVars, resultVars
  <2>6. TypeOK'
    BY <2>1, <2>3, <2>4, <2>5 DEF OnlyMoves, TypeOK
  <2> QED BY <2>1, <2>6 DEF JobsAssigned, OnlyMoves, Busy
<1>2. ASSUME NEW reply \in Replies, NextNone(e, reply) PROVE TypeOK' /\ JobsAssigned'
  <2>1. OnlyMoves(e) /\ (Busy(e)' => eng'[e].job \in Requests)
    BY <1>2, NextNoneMove DEF Rests, Keeps, SameJob, Busy, JobsAssigned, NextNone
  <2>2. TypeOK'
    BY <1>2, <2>1
       DEF OnlyMoves, NextNone, ReadOnly, Replied, TypeOK, queueVars,
       statusVars, resultVars
  <2> QED BY <2>1, <2>2 DEF JobsAssigned, OnlyMoves, Busy
<1>3. ASSUME NEW reply \in Replies, Reclaim(e, reply) PROVE TypeOK' /\ JobsAssigned'
  <2>1. OnlyMoves(e) /\ (Busy(e)' => eng'[e].job \in Requests)
    BY <1>3, ReclaimMove DEF Rests, Keeps, SameJob, Busy, JobsAssigned, Reclaim
  <2>2. TypeOK'
    BY <1>3, <2>1
       DEF OnlyMoves, Reclaim, AutoClaim, Claim, Replied, TypeOK, queueVars, statusVars, resultVars
  <2> QED BY <2>1, <2>2 DEF JobsAssigned, OnlyMoves, Busy
<1>4. ASSUME NEW reply \in Replies, ReclaimNone(e, reply) PROVE TypeOK' /\ JobsAssigned'
  <2>1. OnlyMoves(e) /\ (Busy(e)' => eng'[e].job \in Requests)
    BY <1>4, ReclaimNoneMove DEF Rests, Keeps, SameJob, Busy, JobsAssigned, ReclaimNone
  <2>2. TypeOK'
    BY <1>4, <2>1
       DEF OnlyMoves, ReclaimNone, ReadOnly, Replied, TypeOK, queueVars, statusVars, resultVars
  <2> QED BY <2>1, <2>2 DEF JobsAssigned, OnlyMoves, Busy
<1>5. ASSUME NEW reply \in Replies, Ack(e, reply) PROVE TypeOK' /\ JobsAssigned'
  <2>0. eng[e].job \in Requests
    BY <1>5 DEF JobsAssigned, Busy, Ack
  <2>1. OnlyMoves(e) /\ (Busy(e)' => eng'[e].job \in Requests)
    BY <1>5, <2>0, AckMove DEF Rests, Keeps, SameJob, Busy, JobsAssigned, Ack
  <2>2. TypeOK'
    BY <1>5, <2>0, <2>1
       DEF OnlyMoves, Ack, Acknowledge, Remove, Replied, TypeOK, queueVars, statusVars, resultVars
  <2> QED BY <2>1, <2>2 DEF JobsAssigned, OnlyMoves, Busy
<1>6. CASE CheckDeadline(e)
  <2>1. OnlyMoves(e) /\ (Busy(e)' => eng'[e].job \in Requests)
    BY <1>6, CheckDeadlineMove DEF Rests, Keeps, SameJob, Busy, JobsAssigned, CheckDeadline
  <2>2. TypeOK'
    BY <1>6, <2>1
       DEF OnlyMoves, CheckDeadline, NoCommand, streamsVars, Replied, TypeOK, queueVars,
       statusVars, resultVars
  <2> QED BY <2>1, <2>2 DEF JobsAssigned, OnlyMoves, Busy
<1>7. ASSUME NEW reply \in Replies, CancelLate(e, reply) PROVE TypeOK' /\ JobsAssigned'
  <2>0. eng[e].job \in Requests
    BY <1>7 DEF JobsAssigned, Busy, CancelLate
  <2>1. OnlyMoves(e) /\ (Busy(e)' => eng'[e].job \in Requests)
    BY <1>7, <2>0, CancelLateMove DEF Rests, Keeps, SameJob, Busy, JobsAssigned, CancelLate
  <2>2. TypeOK'
    BY <1>7, <2>0, <2>1
       DEF OnlyMoves, CancelLate, CloseReservation, Replied, TypeOK, queueVars, statusVars,
       resultVars
  <2> QED BY <2>1, <2>2 DEF JobsAssigned, OnlyMoves, Busy
<1>8. ASSUME NEW reply \in Replies, CheckStatus(e, reply) PROVE TypeOK' /\ JobsAssigned'
  <2>1. OnlyMoves(e) /\ (Busy(e)' => eng'[e].job \in Requests)
    BY <1>8, CheckStatusMove DEF Rests, Keeps, SameJob, Busy, JobsAssigned, CheckStatus
  <2>2. TypeOK'
    BY <1>8, <2>1
       DEF OnlyMoves, CheckStatus, ReadOnly, Replied, TypeOK, queueVars, statusVars, resultVars
  <2> QED BY <2>1, <2>2 DEF JobsAssigned, OnlyMoves, Busy
<1>9. ASSUME NEW reply \in Replies, Acquire(e, reply) PROVE TypeOK' /\ JobsAssigned'
  <2>0. eng[e].job \in Requests
    BY <1>9 DEF JobsAssigned, Busy, Acquire
  <2>1. OnlyMoves(e) /\ (Busy(e)' => eng'[e].job \in Requests)
    BY <1>9, <2>0, AcquireMove DEF Rests, Keeps, SameJob, Busy, JobsAssigned, Acquire
  <2>2. lease \in [Requests -> Nat] /\ attempts \in [Requests -> Nat]
    BY DEF TypeOK
  <2>3. lease' \in [Requests -> Nat] /\ attempts' \in [Requests -> Nat]
    BY <1>9, <2>0, <2>2 DEF Acquire, AcquireLease
  <2>4. TypeOK'
    BY <1>9, <2>1, <2>3
       DEF OnlyMoves, Acquire, AcquireLease, Replied, TypeOK, queueVars, statusVars,
                            resultVars
  <2> QED BY <2>1, <2>4 DEF JobsAssigned, OnlyMoves, Busy
<1>10. ASSUME NEW reply \in Replies, Release(e, reply) PROVE TypeOK' /\ JobsAssigned'
  <2>0. eng[e].job \in Requests
    BY <1>10 DEF JobsAssigned, Busy, Release
  <2>1. OnlyMoves(e) /\ (Busy(e)' => eng'[e].job \in Requests)
    BY <1>10, <2>0, ReleaseMove DEF Rests, Keeps, SameJob, Busy, JobsAssigned, Release
  <2>2. TypeOK'
    BY <1>10, <2>0, <2>1
       DEF OnlyMoves, Release, ReleaseLease, Replied, TypeOK, queueVars, statusVars, resultVars
  <2> QED BY <2>1, <2>2 DEF JobsAssigned, OnlyMoves, Busy
<1>11. ASSUME NEW reply \in Replies, Settle(e, reply) PROVE TypeOK' /\ JobsAssigned'
  <2>0. eng[e].job \in Requests
    BY <1>11 DEF JobsAssigned, Busy, Settle
  <2>1. OnlyMoves(e) /\ (Busy(e)' => eng'[e].job \in Requests)
    BY <1>11, <2>0, SettleMove DEF Rests, Keeps, SameJob, Busy, JobsAssigned, Settle
  <2>2. TypeOK'
    BY <1>11, <2>0, <2>1
       DEF OnlyMoves, Settle, CloseReservation, Replied, TypeOK, queueVars, statusVars,
       resultVars
  <2> QED BY <2>1, <2>2 DEF JobsAssigned, OnlyMoves, Busy
<1>12. CASE Refuse(e)
  <2>1. OnlyMoves(e) /\ (Busy(e)' => eng'[e].job \in Requests)
    BY <1>12, RefuseMove DEF Rests, Keeps, SameJob, Busy, JobsAssigned, Refuse
  <2>2. TypeOK'
    BY <1>12, <2>1
       DEF OnlyMoves, Refuse, NoCommand, streamsVars, Replied, TypeOK, queueVars, statusVars,
       resultVars
  <2> QED BY <2>1, <2>2 DEF JobsAssigned, OnlyMoves, Busy
<1>13. CASE Start(e)
  <2>1. OnlyMoves(e) /\ (Busy(e)' => eng'[e].job \in Requests)
    BY <1>13, StartMove DEF Rests, Keeps, SameJob, Busy, JobsAssigned, Start
  <2>2. TypeOK'
    BY <1>13, <2>1
       DEF OnlyMoves, Start, NoCommand, streamsVars, Replied, TypeOK, queueVars, statusVars,
       resultVars
  <2> QED BY <2>1, <2>2 DEF JobsAssigned, OnlyMoves, Busy
<1>14. ASSUME NEW reply \in Replies, XAdd(e, reply) PROVE TypeOK' /\ JobsAssigned'
  <2>0. eng[e].job \in Requests
    BY <1>14 DEF JobsAssigned, Busy, XAdd
  <2>1. OnlyMoves(e) /\ (Busy(e)' => eng'[e].job \in Requests)
    BY <1>14, <2>0, XAddMove DEF Rests, Keeps, SameJob, Busy, JobsAssigned, XAdd
  <2>2. [kind |-> eng[e].ev, attempt |-> eng[e].att, n |-> eng[e].sent] \in Event
    BY DEF TypeOK, EngineState, Event
  <2>3. results' \in [Requests -> Seq(Event)] /\ finished' \subseteq Requests
    BY <1>14, <2>0, <2>2 DEF XAdd, AddResult, TypeOK
  <2>4. TypeOK'
    BY <1>14, <2>1, <2>3 DEF OnlyMoves, XAdd, AddResult, Replied, TypeOK, queueVars, statusVars
  <2> QED BY <2>1, <2>4 DEF JobsAssigned, OnlyMoves, Busy
<1>15. ASSUME NEW reply \in Replies, Record(e, reply) PROVE TypeOK' /\ JobsAssigned'
  <2>0. eng[e].job \in Requests
    BY <1>15 DEF JobsAssigned, Busy, Record
  <2>1. OnlyMoves(e) /\ (Busy(e)' => eng'[e].job \in Requests)
    BY <1>15, <2>0, RecordMove DEF Rests, Keeps, SameJob, Busy, JobsAssigned, Record
  <2>2. /\ status' \in [Requests -> {"none", "queued", "running", "completed"}]
        /\ statusTtl' \in [Requests -> Ttls]
        /\ resultTtl' \in [Requests -> Ttls]
    BY <1>15, <2>0 DEF Record, RecordResult, StateAfter, TtlAfter, Ttls, TypeOK
  <2>3. TypeOK'
    BY <1>15, <2>1, <2>2 DEF OnlyMoves, Record, RecordResult, Replied, TypeOK, queueVars
  <2> QED BY <2>1, <2>3 DEF JobsAssigned, OnlyMoves, Busy
<1>16. CASE Restart(e)
  <2>1. OnlyMoves(e) /\ (Busy(e)' => eng'[e].job \in Requests)
    BY <1>16, RestartMove DEF Rests, Keeps, SameJob, Busy, JobsAssigned, Restart
  <2>2. TypeOK'
    BY <1>16, <2>1
       DEF OnlyMoves, Restart, NoCommand, streamsVars, Replied, TypeOK, queueVars, statusVars,
       resultVars
  <2> QED BY <2>1, <2>2 DEF JobsAssigned, OnlyMoves, Busy
<1>17. CASE BackendToken(e)
  <2>1. OnlyMoves(e) /\ (Busy(e)' => eng'[e].job \in Requests)
    BY <1>17, BackendTokenMove DEF Rests, Keeps, SameJob, Busy, JobsAssigned, BackendToken
  <2>2. TypeOK'
    BY <1>17, <2>1
       DEF OnlyMoves, BackendToken, NoCommand, streamsVars, Replied, TypeOK, queueVars,
       statusVars, resultVars
  <2> QED BY <2>1, <2>2 DEF JobsAssigned, OnlyMoves, Busy
<1>18. ASSUME NEW outcome \in Outcomes, BackendEnds(e, outcome) PROVE TypeOK' /\ JobsAssigned'
  <2>1. OnlyMoves(e) /\ (Busy(e)' => eng'[e].job \in Requests)
    BY <1>18, BackendEndsMove DEF Rests, Keeps, SameJob, Busy, JobsAssigned, BackendEnds
  <2>2. TypeOK'
    BY <1>18, <2>1
       DEF OnlyMoves, BackendEnds, NoCommand, streamsVars, Replied, TypeOK, queueVars,
       statusVars, resultVars
  <2> QED BY <2>1, <2>2 DEF JobsAssigned, OnlyMoves, Busy
<1>19. CASE HeartbeatLost(e)
  <2>1. OnlyMoves(e) /\ (Busy(e)' => eng'[e].job \in Requests)
    BY <1>19, HeartbeatLostMove DEF Rests, Keeps, SameJob, Busy, JobsAssigned, HeartbeatLost
  <2>2. TypeOK'
    BY <1>19, <2>1
       DEF OnlyMoves, HeartbeatLost, NoCommand, streamsVars, Replied, TypeOK, queueVars,
       statusVars, resultVars
  <2> QED BY <2>1, <2>2 DEF JobsAssigned, OnlyMoves, Busy
<1>20. CASE Crash(e)
  <2>1. OnlyMoves(e) /\ (Busy(e)' => eng'[e].job \in Requests)
    BY <1>20, CrashMove DEF Rests, Keeps, SameJob, Busy, JobsAssigned, Crash
  <2>2. TypeOK'
    BY <1>20, <2>1
       DEF OnlyMoves, Crash, NoCommand, streamsVars, Replied, TypeOK, queueVars, statusVars,
       resultVars
  <2> QED BY <2>1, <2>2 DEF JobsAssigned, OnlyMoves, Busy
<1> QED
  BY <1>1, <1>2, <1>3, <1>4, <1>5, <1>6, <1>7, <1>8, <1>9, <1>10,
     <1>11, <1>12, <1>13, <1>14, <1>15, <1>16, <1>17, <1>18, <1>19, <1>20
  DEF Worker, EngineStep, BackendStep

-----------------------------------------------------------------------------
(* Two facts about the broker's commands.                                  *)

\* Delivering an entry acknowledges none.
LEMMA AckedRead ==
  ASSUME TypeOK, NEW next \in Requests, NEW reply \in Replies, ReadGroup(next, reply),
         NEW r \in Requests, Acked(r)'
  PROVE  Acked(r)
<1>1. PICK i \in 1..delivered' : queue[i] = r
  BY DEF Acked, ReadGroup, Deliver, Undelivered, queueVars
<1>2. r \notin pel
  BY DEF Acked, ReadGroup, Deliver, Undelivered, queueVars
<1>3. CASE i = delivered + 1 /\ Lands(reply)
  BY <1>1, <1>3 DEF Acked, ReadGroup, Deliver, Undelivered, queueVars
<1>4. i \in 1..delivered \/ (i = delivered + 1 /\ Lands(reply))
  BY <1>1 DEF ReadGroup, Deliver, Undelivered, queueVars, TypeOK
<1> QED BY <1>1, <1>2, <1>3, <1>4 DEF Acked

\* A result stream only grows, and is not empty after a successful XADD.
LEMMA AddedNotEmpty ==
  ASSUME TypeOK, NEW r \in Requests, NEW event, NEW reply \in Replies, AddResult(r, event, reply)
  PROVE  /\ \A q \in Requests : results[q] # <<>> => results'[q] # <<>>
         /\ reply = "ok" => results'[r] # <<>>
<1>1. \A q \in Requests : results[q] \in Seq(Event)
  BY DEF TypeOK
<1>2. Append(results[r], event) # <<>>
  BY <1>1
<1>3. results' = IF Lands(reply) THEN [results EXCEPT ![r] = Append(@, event)] ELSE results
  BY DEF AddResult
<1> QED BY <1>2, <1>3 DEF TypeOK, Lands

-----------------------------------------------------------------------------
(* The inductive invariant, by subject.                                    *)

\* Whatever the queue or an engine holds was dispatched by a front end.
JobsDispatched ==
  /\ \A i \in 1..Len(queue) : fe[queue[i]] # "idle"
  /\ \A e \in Engines : Busy(e) => fe[eng[e].job] # "idle"

\* e is writing a terminal event, or wrote it.
Ending(e) == eng[e].pc \in {"publish", "record"} /\ eng[e].ev \in Terminal

\* A reservation is closed before the terminal event, and stays closed.
SettledInv ==
  /\ \A r \in finished : fe[r] # "idle" /\ res[r] # "reserved"
  /\ \A e \in Engines : Ending(e) => res[eng[e].job] # "reserved"

\* e may acknowledge its job without looking again.
Decided(e) == eng[e].pc = "ack" \/ (eng[e].pc = "record" /\ eng[e].ev \in Terminal)

\* Nobody acknowledges, or says "completed", before a terminal event was written.
FinishedInv ==
  /\ AckedIsFinished
  /\ \A r \in Requests : status[r] = "completed" => r \in finished
  /\ \A e \in Engines : Decided(e) => eng[e].job \in finished

\* r's result stream has an expiration, or had one that fired.
Expires(r) == r \in expired \/ resultTtl[r] # "none"
AckedExpires == \A r \in Requests : Acked(r) => Expires(r)

\* The same for the expiration; between XADD and MULTI the stream exists or has expired.
ExpiresInv ==
  /\ AckedExpires
  /\ \A r \in Requests : status[r] = "completed" => Expires(r)
  /\ \A e \in Engines : eng[e].pc = "ack" => Expires(eng[e].job)
  /\ \A e \in Engines : eng[e].pc = "record" =>
       eng[e].job \in expired \/ results[eng[e].job] # <<>>

\* A reply failed, or an engine was killed.
Failed == faults + crashes > 0

\* A stream that exists again after it expired has an expiration, or is about to get one, or
\* the engine that wrote to it failed.
RecreatedInv ==
  \A r \in expired : results[r] # <<>> /\ resultTtl[r] = "none" =>
    (\E e \in Engines : eng[e].pc = "record" /\ eng[e].job = r) \/ Failed

\* Attempt ids are fresh, so an engine that executes is the one its lease names.
OwnerInv ==
  /\ \A r \in Requests : lease[r] <= attempts[r]
  /\ \A e \in Engines : Busy(e) => eng[e].att <= attempts[eng[e].job]
  /\ \A e, f \in Engines :
       Busy(e) /\ Busy(f) /\ eng[e].job = eng[f].job /\ eng[e].att = eng[f].att /\ eng[e].att # 0
         => e = f
  /\ \A e \in Engines : Executing(e) =>
       /\ eng[e].att # 0
       /\ HeartbeatsReliable => eng[e].heart = "beating" /\ lease[eng[e].job] = eng[e].att

\* The inductive invariant.
IInv ==
  /\ TypeOK
  /\ JobsAssigned
  /\ JobsDispatched
  /\ SettledInv
  /\ FinishedInv
  /\ ExpiresInv
  /\ RecreatedInv
  /\ OwnerInv

\* An engine takes its job from the queue.
LEMMA DispatchedWorker ==
  ASSUME TypeOK, JobsAssigned, JobsDispatched,
         NEW e \in Engines, Worker(e)
  PROVE  JobsDispatched'
<1> UNCHANGED fe
  BY DEF Worker
<1>a. Busy(e) => eng[e].job \in Requests
  BY DEF JobsAssigned
<1>1. ASSUME NEW reply \in Replies, NextJob(e, reply) PROVE JobsDispatched'
  <2>1. UNCHANGED <<queue>>
    BY <1>1 DEF NextJob, ReadGroup, Deliver, Undelivered, queueVars, statusVars, resultVars
  <2> QED BY <1>1, <2>1, NextJobMove, <1>a
             DEF Rests, Keeps, SameJob, OnlyMoves, Busy, JobsDispatched
<1>2. ASSUME NEW reply \in Replies, NextNone(e, reply) PROVE JobsDispatched'
  <2>1. UNCHANGED <<queue>>
    BY <1>2 DEF NextNone, ReadOnly, queueVars, statusVars, resultVars
  <2> QED BY <1>2, <2>1, NextNoneMove, <1>a
             DEF Rests, Keeps, SameJob, OnlyMoves, Busy, JobsDispatched
<1>3. ASSUME NEW reply \in Replies, Reclaim(e, reply) PROVE JobsDispatched'
  <2>1. UNCHANGED <<queue>>
    BY <1>3 DEF Reclaim, AutoClaim, Claim, queueVars, statusVars, resultVars
  <2> QED BY <1>3, <2>1, ReclaimMove, <1>a
             DEF Rests, Keeps, SameJob, OnlyMoves, Busy, JobsDispatched
<1>4. ASSUME NEW reply \in Replies, ReclaimNone(e, reply) PROVE JobsDispatched'
  <2>1. UNCHANGED <<queue>>
    BY <1>4 DEF ReclaimNone, ReadOnly, queueVars, statusVars, resultVars
  <2> QED BY <1>4, <2>1, ReclaimNoneMove, <1>a
             DEF Rests, Keeps, SameJob, OnlyMoves, Busy, JobsDispatched
<1>5. ASSUME NEW reply \in Replies, Ack(e, reply) PROVE JobsDispatched'
  <2>1. UNCHANGED <<queue>>
    BY <1>5 DEF Ack, Acknowledge, Remove, queueVars, statusVars, resultVars
  <2> QED BY <1>5, <2>1, AckMove, <1>a
             DEF Rests, Keeps, SameJob, OnlyMoves, Busy, JobsDispatched
<1>6. CASE CheckDeadline(e)
  <2>1. UNCHANGED <<queue>>
    BY <1>6 DEF CheckDeadline, NoCommand, streamsVars, queueVars, statusVars, resultVars
  <2> QED BY <1>6, <2>1, CheckDeadlineMove, <1>a
             DEF Rests, Keeps, SameJob, OnlyMoves, Busy, JobsDispatched
<1>7. ASSUME NEW reply \in Replies, CancelLate(e, reply) PROVE JobsDispatched'
  <2>1. UNCHANGED <<queue>>
    BY <1>7 DEF CancelLate, CloseReservation, queueVars, statusVars, resultVars
  <2> QED BY <1>7, <2>1, CancelLateMove, <1>a
             DEF Rests, Keeps, SameJob, OnlyMoves, Busy, JobsDispatched
<1>8. ASSUME NEW reply \in Replies, CheckStatus(e, reply) PROVE JobsDispatched'
  <2>1. UNCHANGED <<queue>>
    BY <1>8 DEF CheckStatus, ReadOnly, queueVars, statusVars, resultVars
  <2> QED BY <1>8, <2>1, CheckStatusMove, <1>a
             DEF Rests, Keeps, SameJob, OnlyMoves, Busy, JobsDispatched
<1>9. ASSUME NEW reply \in Replies, Acquire(e, reply) PROVE JobsDispatched'
  <2>0. eng[e].job \in Requests
    BY <1>9, <1>a DEF Acquire, Busy
  <2>1. UNCHANGED <<queue>>
    BY <1>9 DEF Acquire, AcquireLease, queueVars, statusVars, resultVars
  <2> QED BY <1>9, <2>1, AcquireMove, <2>0
             DEF Rests, Keeps, SameJob, OnlyMoves, Busy, JobsDispatched
<1>10. ASSUME NEW reply \in Replies, Release(e, reply) PROVE JobsDispatched'
  <2>1. UNCHANGED <<queue>>
    BY <1>10 DEF Release, ReleaseLease, queueVars, statusVars, resultVars
  <2> QED BY <1>10, <2>1, ReleaseMove, <1>a
             DEF Rests, Keeps, SameJob, OnlyMoves, Busy, JobsDispatched
<1>11. ASSUME NEW reply \in Replies, Settle(e, reply) PROVE JobsDispatched'
  <2>1. UNCHANGED <<queue>>
    BY <1>11 DEF Settle, CloseReservation, queueVars, statusVars, resultVars
  <2> QED BY <1>11, <2>1, SettleMove, <1>a
             DEF Rests, Keeps, SameJob, OnlyMoves, Busy, JobsDispatched
<1>12. CASE Refuse(e)
  <2>1. UNCHANGED <<queue>>
    BY <1>12 DEF Refuse, NoCommand, streamsVars, queueVars, statusVars, resultVars
  <2> QED BY <1>12, <2>1, RefuseMove, <1>a
             DEF Rests, Keeps, SameJob, OnlyMoves, Busy, JobsDispatched
<1>13. CASE Start(e)
  <2>1. UNCHANGED <<queue>>
    BY <1>13 DEF Start, NoCommand, streamsVars, queueVars, statusVars, resultVars
  <2> QED BY <1>13, <2>1, StartMove, <1>a
             DEF Rests, Keeps, SameJob, OnlyMoves, Busy, JobsDispatched
<1>14. ASSUME NEW reply \in Replies, XAdd(e, reply) PROVE JobsDispatched'
  <2>1. UNCHANGED <<queue>>
    BY <1>14 DEF XAdd, AddResult, queueVars, statusVars, resultVars
  <2> QED BY <1>14, <2>1, XAddMove, <1>a
             DEF Rests, Keeps, SameJob, OnlyMoves, Busy, JobsDispatched
<1>15. ASSUME NEW reply \in Replies, Record(e, reply) PROVE JobsDispatched'
  <2>1. UNCHANGED <<queue>>
    BY <1>15 DEF Record, RecordResult, queueVars, statusVars, resultVars
  <2> QED BY <1>15, <2>1, RecordMove, <1>a
             DEF Rests, Keeps, SameJob, OnlyMoves, Busy, JobsDispatched
<1>16. CASE Restart(e)
  <2>1. UNCHANGED <<queue>>
    BY <1>16 DEF Restart, NoCommand, streamsVars, queueVars, statusVars, resultVars
  <2> QED BY <1>16, <2>1, RestartMove, <1>a
             DEF Rests, Keeps, SameJob, OnlyMoves, Busy, JobsDispatched
<1>17. CASE BackendToken(e)
  <2>1. UNCHANGED <<queue>>
    BY <1>17 DEF BackendToken, NoCommand, streamsVars, queueVars, statusVars, resultVars
  <2> QED BY <1>17, <2>1, BackendTokenMove, <1>a
             DEF Rests, Keeps, SameJob, OnlyMoves, Busy, JobsDispatched
<1>18. ASSUME NEW outcome \in Outcomes, BackendEnds(e, outcome) PROVE JobsDispatched'
  <2>1. UNCHANGED <<queue>>
    BY <1>18 DEF BackendEnds, NoCommand, streamsVars, queueVars, statusVars, resultVars
  <2> QED BY <1>18, <2>1, BackendEndsMove, <1>a
             DEF Rests, Keeps, SameJob, OnlyMoves, Busy, JobsDispatched
<1>19. CASE HeartbeatLost(e)
  <2>1. UNCHANGED <<queue>>
    BY <1>19 DEF HeartbeatLost, NoCommand, streamsVars, queueVars, statusVars, resultVars
  <2> QED BY <1>19, <2>1, HeartbeatLostMove, <1>a
             DEF Rests, Keeps, SameJob, OnlyMoves, Busy, JobsDispatched
<1>20. CASE Crash(e)
  <2>1. UNCHANGED <<queue>>
    BY <1>20 DEF Crash, NoCommand, streamsVars, queueVars, statusVars, resultVars
  <2> QED BY <1>20, <2>1, CrashMove, <1>a
             DEF Rests, Keeps, SameJob, OnlyMoves, Busy, JobsDispatched
<1> QED
  BY <1>1, <1>2, <1>3, <1>4, <1>5, <1>6, <1>7, <1>8, <1>9, <1>10,
     <1>11, <1>12, <1>13, <1>14, <1>15, <1>16, <1>17, <1>18, <1>19, <1>20
  DEF Worker, EngineStep, BackendStep

\* An engine closes the reservation before it writes a terminal event.
LEMMA SettledWorker ==
  ASSUME TypeOK, JobsAssigned, JobsDispatched, SettledInv,
         NEW e \in Engines, Worker(e)
  PROVE  SettledInv'
<1> UNCHANGED fe
  BY DEF Worker
<1>a. Busy(e) => eng[e].job \in Requests
  BY DEF JobsAssigned
<1>b. finished \subseteq Requests
  BY DEF TypeOK
<1>1. ASSUME NEW reply \in Replies, NextJob(e, reply) PROVE SettledInv'
  <2>1. UNCHANGED <<finished, res>>
    BY <1>1 DEF NextJob, ReadGroup, Deliver, Undelivered, queueVars, statusVars, resultVars
  <2> QED BY <1>1, <2>1, NextJobMove, <1>a
             DEF Rests, Keeps, SameJob, OnlyMoves, Busy, SettledInv, Ending, Terminal
<1>2. ASSUME NEW reply \in Replies, NextNone(e, reply) PROVE SettledInv'
  <2>1. UNCHANGED <<finished, res>>
    BY <1>2 DEF NextNone, ReadOnly, queueVars, statusVars, resultVars
  <2> QED BY <1>2, <2>1, NextNoneMove, <1>a
             DEF Rests, Keeps, SameJob, OnlyMoves, Busy, SettledInv, Ending, Terminal
<1>3. ASSUME NEW reply \in Replies, Reclaim(e, reply) PROVE SettledInv'
  <2>1. UNCHANGED <<finished, res>>
    BY <1>3 DEF Reclaim, AutoClaim, Claim, queueVars, statusVars, resultVars
  <2> QED BY <1>3, <2>1, ReclaimMove, <1>a
             DEF Rests, Keeps, SameJob, OnlyMoves, Busy, SettledInv, Ending, Terminal
<1>4. ASSUME NEW reply \in Replies, ReclaimNone(e, reply) PROVE SettledInv'
  <2>1. UNCHANGED <<finished, res>>
    BY <1>4 DEF ReclaimNone, ReadOnly, queueVars, statusVars, resultVars
  <2> QED BY <1>4, <2>1, ReclaimNoneMove, <1>a
             DEF Rests, Keeps, SameJob, OnlyMoves, Busy, SettledInv, Ending, Terminal
<1>5. ASSUME NEW reply \in Replies, Ack(e, reply) PROVE SettledInv'
  <2>1. UNCHANGED <<finished, res>>
    BY <1>5 DEF Ack, Acknowledge, Remove, queueVars, statusVars, resultVars
  <2> QED BY <1>5, <2>1, AckMove, <1>a
             DEF Rests, Keeps, SameJob, OnlyMoves, Busy, SettledInv, Ending, Terminal
<1>6. CASE CheckDeadline(e)
  <2>1. UNCHANGED <<finished, res>>
    BY <1>6 DEF CheckDeadline, NoCommand, streamsVars, queueVars, statusVars, resultVars
  <2> QED BY <1>6, <2>1, CheckDeadlineMove, <1>a
             DEF Rests, Keeps, SameJob, OnlyMoves, Busy, SettledInv, Ending, Terminal
<1>7. ASSUME NEW reply \in Replies, CancelLate(e, reply) PROVE SettledInv'
  <2>0. eng[e].job \in Requests
    BY <1>7, <1>a DEF CancelLate, Busy
  <2>1. UNCHANGED finished
    BY <1>7 DEF CancelLate, CloseReservation, resultVars
  <2>2. /\ \A r \in Requests : res'[r] = "reserved" => res[r] = "reserved"
        /\ reply = "ok" => res'[eng[e].job] # "reserved"
    BY <1>7, <2>0 DEF CancelLate, CloseReservation, Lands, TypeOK
  <2> QED BY <1>7, <1>b, <2>0, <2>1, <2>2, CancelLateMove
             DEF Rests, Keeps, SameJob, OnlyMoves, Busy, SettledInv, Ending, JobsAssigned,
             Terminal
<1>8. ASSUME NEW reply \in Replies, CheckStatus(e, reply) PROVE SettledInv'
  <2>1. UNCHANGED <<finished, res>>
    BY <1>8 DEF CheckStatus, ReadOnly, queueVars, statusVars, resultVars
  <2> QED BY <1>8, <2>1, CheckStatusMove, <1>a
             DEF Rests, Keeps, SameJob, OnlyMoves, Busy, SettledInv, Ending, Terminal
<1>9. ASSUME NEW reply \in Replies, Acquire(e, reply) PROVE SettledInv'
  <2>0. eng[e].job \in Requests
    BY <1>9, <1>a DEF Acquire, Busy
  <2>1. UNCHANGED <<finished, res>>
    BY <1>9 DEF Acquire, AcquireLease, queueVars, statusVars, resultVars
  <2> QED BY <1>9, <2>1, AcquireMove, <2>0
             DEF Rests, Keeps, SameJob, OnlyMoves, Busy, SettledInv, Ending, Terminal
<1>10. ASSUME NEW reply \in Replies, Release(e, reply) PROVE SettledInv'
  <2>1. UNCHANGED <<finished, res>>
    BY <1>10 DEF Release, ReleaseLease, queueVars, statusVars, resultVars
  <2> QED BY <1>10, <2>1, ReleaseMove, <1>a
             DEF Rests, Keeps, SameJob, OnlyMoves, Busy, SettledInv, Ending, Terminal
<1>11. ASSUME NEW reply \in Replies, Settle(e, reply) PROVE SettledInv'
  <2>0. eng[e].job \in Requests
    BY <1>11, <1>a DEF Settle, Busy
  <2>1. UNCHANGED finished
    BY <1>11 DEF Settle, CloseReservation, resultVars
  <2>2. /\ \A r \in Requests : res'[r] = "reserved" => res[r] = "reserved"
        /\ reply = "ok" => res'[eng[e].job] # "reserved"
    BY <1>11, <2>0 DEF Settle, CloseReservation, Lands, TypeOK
  <2> QED BY <1>11, <1>b, <2>0, <2>1, <2>2, SettleMove
             DEF Rests, Keeps, SameJob, OnlyMoves, Busy, SettledInv, Ending, JobsAssigned,
             Terminal
<1>12. CASE Refuse(e)
  <2>1. UNCHANGED <<finished, res>>
    BY <1>12 DEF Refuse, NoCommand, streamsVars, queueVars, statusVars, resultVars
  <2> QED BY <1>12, <2>1, RefuseMove, <1>a
             DEF Rests, Keeps, SameJob, OnlyMoves, Busy, SettledInv, Ending, Terminal
<1>13. CASE Start(e)
  <2>1. UNCHANGED <<finished, res>>
    BY <1>13 DEF Start, NoCommand, streamsVars, queueVars, statusVars, resultVars
  <2> QED BY <1>13, <2>1, StartMove, <1>a
             DEF Rests, Keeps, SameJob, OnlyMoves, Busy, SettledInv, Ending, Terminal
<1>14. ASSUME NEW reply \in Replies, XAdd(e, reply) PROVE SettledInv'
  <2>0. /\ eng[e].pc = "publish" /\ eng[e].job \in Requests
        /\ fe[eng[e].job] # "idle"
    BY <1>14, <1>a DEF XAdd, Busy, JobsDispatched
  <2>1. /\ UNCHANGED res
        /\ finished' \subseteq finished \cup {eng[e].job}
        /\ eng[e].ev \notin Terminal => finished' = finished
    BY <1>14 DEF XAdd, AddResult
  <2> QED BY <1>14, <2>0, <2>1, XAddMove
             DEF Rests, Keeps, SameJob, OnlyMoves, Busy, SettledInv, Ending
<1>15. ASSUME NEW reply \in Replies, Record(e, reply) PROVE SettledInv'
  <2>1. UNCHANGED <<finished, res>>
    BY <1>15 DEF Record, RecordResult, queueVars, statusVars, resultVars
  <2> QED BY <1>15, <2>1, RecordMove, <1>a
             DEF Rests, Keeps, SameJob, OnlyMoves, Busy, SettledInv, Ending, Terminal
<1>16. CASE Restart(e)
  <2>1. UNCHANGED <<finished, res>>
    BY <1>16 DEF Restart, NoCommand, streamsVars, queueVars, statusVars, resultVars
  <2> QED BY <1>16, <2>1, RestartMove, <1>a
             DEF Rests, Keeps, SameJob, OnlyMoves, Busy, SettledInv, Ending, Terminal
<1>17. CASE BackendToken(e)
  <2>1. UNCHANGED <<finished, res>>
    BY <1>17 DEF BackendToken, NoCommand, streamsVars, queueVars, statusVars, resultVars
  <2> QED BY <1>17, <2>1, BackendTokenMove, <1>a
             DEF Rests, Keeps, SameJob, OnlyMoves, Busy, SettledInv, Ending, Terminal
<1>18. ASSUME NEW outcome \in Outcomes, BackendEnds(e, outcome) PROVE SettledInv'
  <2>1. UNCHANGED <<finished, res>>
    BY <1>18 DEF BackendEnds, NoCommand, streamsVars, queueVars, statusVars, resultVars
  <2> QED BY <1>18, <2>1, BackendEndsMove, <1>a
             DEF Rests, Keeps, SameJob, OnlyMoves, Busy, SettledInv, Ending, Terminal
<1>19. CASE HeartbeatLost(e)
  <2>1. UNCHANGED <<finished, res>>
    BY <1>19 DEF HeartbeatLost, NoCommand, streamsVars, queueVars, statusVars, resultVars
  <2> QED BY <1>19, <2>1, HeartbeatLostMove, <1>a
             DEF Rests, Keeps, SameJob, OnlyMoves, Busy, SettledInv, Ending, Terminal
<1>20. CASE Crash(e)
  <2>1. UNCHANGED <<finished, res>>
    BY <1>20 DEF Crash, NoCommand, streamsVars, queueVars, statusVars, resultVars
  <2> QED BY <1>20, <2>1, CrashMove, <1>a
             DEF Rests, Keeps, SameJob, OnlyMoves, Busy, SettledInv, Ending, Terminal
<1> QED
  BY <1>1, <1>2, <1>3, <1>4, <1>5, <1>6, <1>7, <1>8, <1>9, <1>10,
     <1>11, <1>12, <1>13, <1>14, <1>15, <1>16, <1>17, <1>18, <1>19, <1>20
  DEF Worker, EngineStep, BackendStep

\* An engine acknowledges a job only after a terminal event: its own, or the one a
\* completed status stands for.
LEMMA FinishedWorker ==
  ASSUME TypeOK, JobsAssigned, FinishedInv,
         NEW e \in Engines, Worker(e)
  PROVE  FinishedInv'
<1> UNCHANGED fe
  BY DEF Worker
<1>a. Busy(e) => eng[e].job \in Requests
  BY DEF JobsAssigned
<1>1. ASSUME NEW reply \in Replies, NextJob(e, reply) PROVE FinishedInv'
  <2>1. UNCHANGED <<status, finished>>
    BY <1>1 DEF NextJob, ReadGroup, Deliver, Undelivered, statusVars, resultVars
  <2>2. \A r \in Requests : Acked(r)' => Acked(r)
    BY <1>1, AckedRead DEF NextJob
  <2> QED BY <1>1, <2>1, <2>2, NextJobMove
             DEF Rests, Keeps, SameJob, OnlyMoves, Busy, FinishedInv, AckedIsFinished, Decided
<1>2. ASSUME NEW reply \in Replies, NextNone(e, reply) PROVE FinishedInv'
  <2>1. UNCHANGED <<queue, delivered, pel, status, finished>>
    BY <1>2 DEF NextNone, ReadOnly, queueVars, statusVars, resultVars
  <2> QED BY <1>2, <2>1, NextNoneMove, <1>a
             DEF Rests, Keeps, SameJob, OnlyMoves, Busy, FinishedInv, AckedIsFinished, Acked,
             Decided
<1>3. ASSUME NEW reply \in Replies, Reclaim(e, reply) PROVE FinishedInv'
  <2>1. UNCHANGED <<queue, delivered, pel, status, finished>>
    BY <1>3 DEF Reclaim, AutoClaim, Claim, queueVars, statusVars, resultVars
  <2> QED BY <1>3, <2>1, ReclaimMove, <1>a
             DEF Rests, Keeps, SameJob, OnlyMoves, Busy, FinishedInv, AckedIsFinished, Acked,
             Decided
<1>4. ASSUME NEW reply \in Replies, ReclaimNone(e, reply) PROVE FinishedInv'
  <2>1. UNCHANGED <<queue, delivered, pel, status, finished>>
    BY <1>4 DEF ReclaimNone, ReadOnly, queueVars, statusVars, resultVars
  <2> QED BY <1>4, <2>1, ReclaimNoneMove, <1>a
             DEF Rests, Keeps, SameJob, OnlyMoves, Busy, FinishedInv, AckedIsFinished, Acked,
             Decided
<1>5. ASSUME NEW reply \in Replies, Ack(e, reply) PROVE FinishedInv'
  <2>0. eng[e].job \in Requests
    BY <1>5, <1>a DEF Ack, Busy
  <2>1. UNCHANGED <<status, finished>>
    BY <1>5 DEF Ack, Acknowledge, Remove, statusVars, resultVars
  <2>2. \A r \in Requests : Acked(r)' => Acked(r) \/ r = eng[e].job
    BY <1>5 DEF Ack, Acknowledge, Remove, queueVars, Acked
  <2> QED BY <1>5, <2>0, <2>1, <2>2, AckMove
             DEF Rests, Keeps, SameJob, OnlyMoves, Busy, FinishedInv, AckedIsFinished, Decided
<1>6. CASE CheckDeadline(e)
  <2>1. UNCHANGED <<queue, delivered, pel, status, finished>>
    BY <1>6 DEF CheckDeadline, NoCommand, streamsVars, queueVars, statusVars, resultVars
  <2> QED BY <1>6, <2>1, CheckDeadlineMove, <1>a
             DEF Rests, Keeps, SameJob, OnlyMoves, Busy, FinishedInv, AckedIsFinished, Acked,
             Decided
<1>7. ASSUME NEW reply \in Replies, CancelLate(e, reply) PROVE FinishedInv'
  <2>1. UNCHANGED <<queue, delivered, pel, status, finished>>
    BY <1>7 DEF CancelLate, CloseReservation, queueVars, statusVars, resultVars
  <2> QED BY <1>7, <2>1, CancelLateMove, <1>a
             DEF Rests, Keeps, SameJob, OnlyMoves, Busy, FinishedInv, AckedIsFinished, Acked,
             Decided
<1>8. ASSUME NEW reply \in Replies, CheckStatus(e, reply) PROVE FinishedInv'
  <2>1. UNCHANGED <<queue, delivered, pel, status, finished>>
    BY <1>8 DEF CheckStatus, ReadOnly, queueVars, statusVars, resultVars
  <2> QED BY <1>8, <2>1, CheckStatusMove, <1>a
             DEF Rests, Keeps, SameJob, OnlyMoves, Busy, FinishedInv, AckedIsFinished, Acked,
             Decided
<1>9. ASSUME NEW reply \in Replies, Acquire(e, reply) PROVE FinishedInv'
  <2>0. eng[e].job \in Requests
    BY <1>9, <1>a DEF Acquire, Busy
  <2>1. UNCHANGED <<queue, delivered, pel, status, finished>>
    BY <1>9 DEF Acquire, AcquireLease, queueVars, statusVars, resultVars
  <2> QED BY <1>9, <2>1, AcquireMove, <2>0
             DEF Rests, Keeps, SameJob, OnlyMoves, Busy, FinishedInv, AckedIsFinished, Acked,
             Decided
<1>10. ASSUME NEW reply \in Replies, Release(e, reply) PROVE FinishedInv'
  <2>1. UNCHANGED <<queue, delivered, pel, status, finished>>
    BY <1>10 DEF Release, ReleaseLease, queueVars, statusVars, resultVars
  <2> QED BY <1>10, <2>1, ReleaseMove, <1>a
             DEF Rests, Keeps, SameJob, OnlyMoves, Busy, FinishedInv, AckedIsFinished, Acked,
             Decided
<1>11. ASSUME NEW reply \in Replies, Settle(e, reply) PROVE FinishedInv'
  <2>1. UNCHANGED <<queue, delivered, pel, status, finished>>
    BY <1>11 DEF Settle, CloseReservation, queueVars, statusVars, resultVars
  <2> QED BY <1>11, <2>1, SettleMove, <1>a
             DEF Rests, Keeps, SameJob, OnlyMoves, Busy, FinishedInv, AckedIsFinished, Acked,
             Decided
<1>12. CASE Refuse(e)
  <2>1. UNCHANGED <<queue, delivered, pel, status, finished>>
    BY <1>12 DEF Refuse, NoCommand, streamsVars, queueVars, statusVars, resultVars
  <2> QED BY <1>12, <2>1, RefuseMove, <1>a
             DEF Rests, Keeps, SameJob, OnlyMoves, Busy, FinishedInv, AckedIsFinished, Acked,
             Decided
<1>13. CASE Start(e)
  <2>1. UNCHANGED <<queue, delivered, pel, status, finished>>
    BY <1>13 DEF Start, NoCommand, streamsVars, queueVars, statusVars, resultVars
  <2> QED BY <1>13, <2>1, StartMove, <1>a
             DEF Rests, Keeps, SameJob, OnlyMoves, Busy, FinishedInv, AckedIsFinished, Acked,
             Decided
<1>14. ASSUME NEW reply \in Replies, XAdd(e, reply) PROVE FinishedInv'
  <2>0. eng[e].job \in Requests
    BY <1>14, <1>a DEF XAdd, Busy
  <2>1. /\ UNCHANGED <<queue, delivered, pel, status>>
        /\ finished \subseteq finished'
        /\ reply = "ok" /\ eng[e].ev \in Terminal => eng[e].job \in finished'
    BY <1>14, <2>0 DEF XAdd, AddResult, Lands, queueVars, statusVars
  <2> QED BY <1>14, <2>0, <2>1, XAddMove
             DEF Rests, Keeps, SameJob, OnlyMoves, Busy, FinishedInv, AckedIsFinished, Acked,
             Decided
<1>15. ASSUME NEW reply \in Replies, Record(e, reply) PROVE FinishedInv'
  <2>0. eng[e].job \in Requests
    BY <1>15, <1>a DEF Record, Busy
  <2>1. /\ UNCHANGED <<queue, delivered, pel, finished>>
        /\ \A r \in Requests : status'[r] = "completed" =>
             status[r] = "completed" \/ (r = eng[e].job /\ eng[e].ev \in Terminal)
    BY <1>15, <2>0 DEF Record, RecordResult, StateAfter, queueVars, TypeOK
  <2> QED BY <1>15, <2>0, <2>1, RecordMove
             DEF Rests, Keeps, SameJob, OnlyMoves, Busy, FinishedInv, AckedIsFinished, Acked,
             Decided
<1>16. CASE Restart(e)
  <2>1. UNCHANGED <<queue, delivered, pel, status, finished>>
    BY <1>16 DEF Restart, NoCommand, streamsVars, queueVars, statusVars, resultVars
  <2> QED BY <1>16, <2>1, RestartMove, <1>a
             DEF Rests, Keeps, SameJob, OnlyMoves, Busy, FinishedInv, AckedIsFinished, Acked,
             Decided
<1>17. CASE BackendToken(e)
  <2>1. UNCHANGED <<queue, delivered, pel, status, finished>>
    BY <1>17 DEF BackendToken, NoCommand, streamsVars, queueVars, statusVars, resultVars
  <2> QED BY <1>17, <2>1, BackendTokenMove, <1>a
             DEF Rests, Keeps, SameJob, OnlyMoves, Busy, FinishedInv, AckedIsFinished, Acked,
             Decided
<1>18. ASSUME NEW outcome \in Outcomes, BackendEnds(e, outcome) PROVE FinishedInv'
  <2>1. UNCHANGED <<queue, delivered, pel, status, finished>>
    BY <1>18 DEF BackendEnds, NoCommand, streamsVars, queueVars, statusVars, resultVars
  <2> QED BY <1>18, <2>1, BackendEndsMove, <1>a
             DEF Rests, Keeps, SameJob, OnlyMoves, Busy, FinishedInv, AckedIsFinished, Acked,
             Decided
<1>19. CASE HeartbeatLost(e)
  <2>1. UNCHANGED <<queue, delivered, pel, status, finished>>
    BY <1>19 DEF HeartbeatLost, NoCommand, streamsVars, queueVars, statusVars, resultVars
  <2> QED BY <1>19, <2>1, HeartbeatLostMove, <1>a
             DEF Rests, Keeps, SameJob, OnlyMoves, Busy, FinishedInv, AckedIsFinished, Acked,
             Decided
<1>20. CASE Crash(e)
  <2>1. UNCHANGED <<queue, delivered, pel, status, finished>>
    BY <1>20 DEF Crash, NoCommand, streamsVars, queueVars, statusVars, resultVars
  <2> QED BY <1>20, <2>1, CrashMove, <1>a
             DEF Rests, Keeps, SameJob, OnlyMoves, Busy, FinishedInv, AckedIsFinished, Acked,
             Decided
<1> QED
  BY <1>1, <1>2, <1>3, <1>4, <1>5, <1>6, <1>7, <1>8, <1>9, <1>10,
     <1>11, <1>12, <1>13, <1>14, <1>15, <1>16, <1>17, <1>18, <1>19, <1>20
  DEF Worker, EngineStep, BackendStep

\* The EXPIRE that goes with the terminal event comes before the acknowledgement.
LEMMA ExpiresWorker ==
  ASSUME TypeOK, JobsAssigned, ExpiresInv,
         NEW e \in Engines, Worker(e)
  PROVE  ExpiresInv'
<1> UNCHANGED fe
  BY DEF Worker
<1>a. Busy(e) => eng[e].job \in Requests
  BY DEF JobsAssigned
<1>1. ASSUME NEW reply \in Replies, NextJob(e, reply) PROVE ExpiresInv'
  <2>1. UNCHANGED <<status, results, resultTtl, expired>>
    BY <1>1 DEF NextJob, ReadGroup, Deliver, Undelivered, statusVars, resultVars
  <2>2. \A r \in Requests : Acked(r)' => Acked(r)
    BY <1>1, AckedRead DEF NextJob
  <2> QED BY <1>1, <2>1, <2>2, NextJobMove
             DEF Rests, Keeps, SameJob, OnlyMoves, Busy, ExpiresInv, AckedExpires, Expires
<1>2. ASSUME NEW reply \in Replies, NextNone(e, reply) PROVE ExpiresInv'
  <2>1. UNCHANGED <<queue, delivered, pel, status, results, resultTtl, expired>>
    BY <1>2 DEF NextNone, ReadOnly, queueVars, statusVars, resultVars
  <2> QED BY <1>2, <2>1, NextNoneMove, <1>a
             DEF Rests, Keeps, SameJob, OnlyMoves, Busy, ExpiresInv, AckedExpires,
             Acked, Expires
<1>3. ASSUME NEW reply \in Replies, Reclaim(e, reply) PROVE ExpiresInv'
  <2>1. UNCHANGED <<queue, delivered, pel, status, results, resultTtl, expired>>
    BY <1>3 DEF Reclaim, AutoClaim, Claim, queueVars, statusVars, resultVars
  <2> QED BY <1>3, <2>1, ReclaimMove, <1>a
             DEF Rests, Keeps, SameJob, OnlyMoves, Busy, ExpiresInv, AckedExpires,
             Acked, Expires
<1>4. ASSUME NEW reply \in Replies, ReclaimNone(e, reply) PROVE ExpiresInv'
  <2>1. UNCHANGED <<queue, delivered, pel, status, results, resultTtl, expired>>
    BY <1>4 DEF ReclaimNone, ReadOnly, queueVars, statusVars, resultVars
  <2> QED BY <1>4, <2>1, ReclaimNoneMove, <1>a
             DEF Rests, Keeps, SameJob, OnlyMoves, Busy, ExpiresInv, AckedExpires,
             Acked, Expires
<1>5. ASSUME NEW reply \in Replies, Ack(e, reply) PROVE ExpiresInv'
  <2>0. eng[e].job \in Requests
    BY <1>5, <1>a DEF Ack, Busy
  <2>1. UNCHANGED <<status, results, resultTtl, expired>>
    BY <1>5 DEF Ack, Acknowledge, Remove, statusVars, resultVars
  <2>2. \A r \in Requests : Acked(r)' => Acked(r) \/ r = eng[e].job
    BY <1>5 DEF Ack, Acknowledge, Remove, queueVars, Acked
  <2> QED BY <1>5, <2>0, <2>1, <2>2, AckMove
             DEF Rests, Keeps, SameJob, OnlyMoves, Busy, ExpiresInv, AckedExpires, Expires
<1>6. CASE CheckDeadline(e)
  <2>1. UNCHANGED <<queue, delivered, pel, status, results, resultTtl, expired>>
    BY <1>6 DEF CheckDeadline, NoCommand, streamsVars, queueVars, statusVars, resultVars
  <2> QED BY <1>6, <2>1, CheckDeadlineMove, <1>a
             DEF Rests, Keeps, SameJob, OnlyMoves, Busy, ExpiresInv, AckedExpires,
             Acked, Expires
<1>7. ASSUME NEW reply \in Replies, CancelLate(e, reply) PROVE ExpiresInv'
  <2>1. UNCHANGED <<queue, delivered, pel, status, results, resultTtl, expired>>
    BY <1>7 DEF CancelLate, CloseReservation, queueVars, statusVars, resultVars
  <2> QED BY <1>7, <2>1, CancelLateMove, <1>a
             DEF Rests, Keeps, SameJob, OnlyMoves, Busy, ExpiresInv, AckedExpires,
             Acked, Expires
<1>8. ASSUME NEW reply \in Replies, CheckStatus(e, reply) PROVE ExpiresInv'
  <2>1. UNCHANGED <<queue, delivered, pel, status, results, resultTtl, expired>>
    BY <1>8 DEF CheckStatus, ReadOnly, queueVars, statusVars, resultVars
  <2> QED BY <1>8, <2>1, CheckStatusMove, <1>a
             DEF Rests, Keeps, SameJob, OnlyMoves, Busy, ExpiresInv, AckedExpires,
             Acked, Expires
<1>9. ASSUME NEW reply \in Replies, Acquire(e, reply) PROVE ExpiresInv'
  <2>0. eng[e].job \in Requests
    BY <1>9, <1>a DEF Acquire, Busy
  <2>1. UNCHANGED <<queue, delivered, pel, status, results, resultTtl, expired>>
    BY <1>9 DEF Acquire, AcquireLease, queueVars, statusVars, resultVars
  <2> QED BY <1>9, <2>1, AcquireMove, <2>0
             DEF Rests, Keeps, SameJob, OnlyMoves, Busy, ExpiresInv, AckedExpires,
             Acked, Expires
<1>10. ASSUME NEW reply \in Replies, Release(e, reply) PROVE ExpiresInv'
  <2>1. UNCHANGED <<queue, delivered, pel, status, results, resultTtl, expired>>
    BY <1>10 DEF Release, ReleaseLease, queueVars, statusVars, resultVars
  <2> QED BY <1>10, <2>1, ReleaseMove, <1>a
             DEF Rests, Keeps, SameJob, OnlyMoves, Busy, ExpiresInv, AckedExpires,
             Acked, Expires
<1>11. ASSUME NEW reply \in Replies, Settle(e, reply) PROVE ExpiresInv'
  <2>1. UNCHANGED <<queue, delivered, pel, status, results, resultTtl, expired>>
    BY <1>11 DEF Settle, CloseReservation, queueVars, statusVars, resultVars
  <2> QED BY <1>11, <2>1, SettleMove, <1>a
             DEF Rests, Keeps, SameJob, OnlyMoves, Busy, ExpiresInv, AckedExpires,
             Acked, Expires
<1>12. CASE Refuse(e)
  <2>1. UNCHANGED <<queue, delivered, pel, status, results, resultTtl, expired>>
    BY <1>12 DEF Refuse, NoCommand, streamsVars, queueVars, statusVars, resultVars
  <2> QED BY <1>12, <2>1, RefuseMove, <1>a
             DEF Rests, Keeps, SameJob, OnlyMoves, Busy, ExpiresInv, AckedExpires,
             Acked, Expires
<1>13. CASE Start(e)
  <2>1. UNCHANGED <<queue, delivered, pel, status, results, resultTtl, expired>>
    BY <1>13 DEF Start, NoCommand, streamsVars, queueVars, statusVars, resultVars
  <2> QED BY <1>13, <2>1, StartMove, <1>a
             DEF Rests, Keeps, SameJob, OnlyMoves, Busy, ExpiresInv, AckedExpires,
             Acked, Expires
<1>14. ASSUME NEW reply \in Replies, XAdd(e, reply) PROVE ExpiresInv'
  <2>0. eng[e].job \in Requests
    BY <1>14, <1>a DEF XAdd, Busy
  <2>1. UNCHANGED <<queue, delivered, pel, status, resultTtl, expired>>
    BY <1>14 DEF XAdd, AddResult, queueVars, statusVars
  <2>2. /\ \A r \in Requests : results[r] # <<>> => results'[r] # <<>>
        /\ reply = "ok" => results'[eng[e].job] # <<>>
    BY <1>14, <2>0, AddedNotEmpty DEF XAdd
  <2> QED BY <1>14, <2>0, <2>1, <2>2, XAddMove
          DEF Rests, Keeps, SameJob, OnlyMoves, Busy, ExpiresInv, AckedExpires, Acked, Expires, JobsAssigned
<1>15. ASSUME NEW reply \in Replies, Record(e, reply) PROVE ExpiresInv'
  <2>0. eng[e].pc = "record" /\ eng[e].job \in Requests
    BY <1>15, <1>a DEF Record, Busy
  <2>1. UNCHANGED <<queue, delivered, pel, results, expired>>
    BY <1>15 DEF Record, RecordResult, queueVars
  <2>2. /\ \A r \in Requests : resultTtl[r] # "none" => resultTtl'[r] # "none"
        /\ \A r \in Requests : status'[r] = "completed" =>
             status[r] = "completed" \/ (r = eng[e].job /\ Lands(reply))
        /\ Lands(reply) /\ results[eng[e].job] # <<>> => resultTtl'[eng[e].job] # "none"
    BY <1>15, <2>0 DEF Record, RecordResult, TtlAfter, TypeOK
  <2>3. reply = "ok" => Lands(reply)
    BY DEF Lands
  <2> QED BY <1>15, <2>0, <2>1, <2>2, <2>3, RecordMove
          DEF Rests, Keeps, SameJob, OnlyMoves, Busy, ExpiresInv, AckedExpires, Acked, Expires, JobsAssigned
<1>16. CASE Restart(e)
  <2>1. UNCHANGED <<queue, delivered, pel, status, results, resultTtl, expired>>
    BY <1>16 DEF Restart, NoCommand, streamsVars, queueVars, statusVars, resultVars
  <2> QED BY <1>16, <2>1, RestartMove, <1>a
             DEF Rests, Keeps, SameJob, OnlyMoves, Busy, ExpiresInv, AckedExpires,
             Acked, Expires
<1>17. CASE BackendToken(e)
  <2>1. UNCHANGED <<queue, delivered, pel, status, results, resultTtl, expired>>
    BY <1>17 DEF BackendToken, NoCommand, streamsVars, queueVars, statusVars, resultVars
  <2> QED BY <1>17, <2>1, BackendTokenMove, <1>a
             DEF Rests, Keeps, SameJob, OnlyMoves, Busy, ExpiresInv, AckedExpires,
             Acked, Expires
<1>18. ASSUME NEW outcome \in Outcomes, BackendEnds(e, outcome) PROVE ExpiresInv'
  <2>1. UNCHANGED <<queue, delivered, pel, status, results, resultTtl, expired>>
    BY <1>18 DEF BackendEnds, NoCommand, streamsVars, queueVars, statusVars, resultVars
  <2> QED BY <1>18, <2>1, BackendEndsMove, <1>a
             DEF Rests, Keeps, SameJob, OnlyMoves, Busy, ExpiresInv, AckedExpires,
             Acked, Expires
<1>19. CASE HeartbeatLost(e)
  <2>1. UNCHANGED <<queue, delivered, pel, status, results, resultTtl, expired>>
    BY <1>19 DEF HeartbeatLost, NoCommand, streamsVars, queueVars, statusVars, resultVars
  <2> QED BY <1>19, <2>1, HeartbeatLostMove, <1>a
             DEF Rests, Keeps, SameJob, OnlyMoves, Busy, ExpiresInv, AckedExpires,
             Acked, Expires
<1>20. CASE Crash(e)
  <2>1. UNCHANGED <<queue, delivered, pel, status, results, resultTtl, expired>>
    BY <1>20 DEF Crash, NoCommand, streamsVars, queueVars, statusVars, resultVars
  <2> QED BY <1>20, <2>1, CrashMove, <1>a
             DEF Rests, Keeps, SameJob, OnlyMoves, Busy, ExpiresInv, AckedExpires,
             Acked, Expires
<1> QED
  BY <1>1, <1>2, <1>3, <1>4, <1>5, <1>6, <1>7, <1>8, <1>9, <1>10,
     <1>11, <1>12, <1>13, <1>14, <1>15, <1>16, <1>17, <1>18, <1>19, <1>20
  DEF Worker, EngineStep, BackendStep

\* Larger counts have a larger sum.
LEMMA MoreFailures ==
  ASSUME NEW a \in Nat, NEW b \in Nat, NEW c \in Nat, NEW d \in Nat, c >= a, d >= b, a + b > 0
  PROVE  c + d > 0
  OBVIOUS

\* What has failed once has failed.
LEMMA FailuresGrow ==
  ASSUME faults \in Nat, crashes \in Nat, faults' \in Nat, crashes' \in Nat,
         faults' >= faults, crashes' >= crashes, Failed
  PROVE  Failed'
  BY MoreFailures DEF Failed

\* e's step spares the streams, and e is at no MULTI block, stays there, or crashes.
Spares(e) ==
  /\ OnlyMoves(e)
  /\ UNCHANGED <<results, resultTtl, expired>>
  /\ Failed => Failed'
  /\ eng[e].pc # "record" \/ (eng'[e].pc = "record" /\ SameJob(e)) \/ Failed'

\* Such a step leaves every re-created stream as it was.
LEMMA SparesRecreated ==
  ASSUME RecreatedInv, NEW e \in Engines, Spares(e)
  PROVE  RecreatedInv'
<1> SUFFICES ASSUME NEW r \in expired', results'[r] # <<>>, resultTtl'[r] = "none", ~ Failed'
             PROVE  \E f \in Engines : eng'[f].pc = "record" /\ eng'[f].job = r
  BY DEF RecreatedInv
<1>1. ~ Failed /\ r \in expired /\ results[r] # <<>> /\ resultTtl[r] = "none"
  BY DEF Spares
<1>2. PICK f \in Engines : eng[f].pc = "record" /\ eng[f].job = r
  BY <1>1 DEF RecreatedInv
<1>3. eng'[f].pc = "record" /\ eng'[f].job = r
  BY <1>2 DEF Spares, OnlyMoves, SameJob
<1> QED BY <1>3

\* An engine that re-creates an expired stream sets its expiration next, unless it fails.
LEMMA RecreatedWorker ==
  ASSUME TypeOK, TypeOK', JobsAssigned, RecreatedInv,
         NEW e \in Engines, Worker(e)
  PROVE  RecreatedInv'
<1>a. faults \in Nat /\ crashes \in Nat /\ faults' \in Nat /\ crashes' \in Nat
  BY DEF TypeOK
<1>k. ASSUME crashes' = crashes, faults' = faults \/ faults' = faults + 1
      PROVE  Failed => Failed'
  BY <1>k, FailuresGrow DEF TypeOK
<1>b. Busy(e) => eng[e].job \in Requests
  BY DEF JobsAssigned
<1>c. expired \subseteq Requests
  BY DEF TypeOK
<1>1. ASSUME NEW reply \in Replies, NextJob(e, reply) PROVE RecreatedInv'
  <2>1. Spares(e)
    BY <1>1, <1>k, NextJobMove DEF Spares, Rests, Keeps, SameJob, Busy, NextJob, ReadGroup, Replied, resultVars
  <2> QED BY <2>1, SparesRecreated
<1>2. ASSUME NEW reply \in Replies, NextNone(e, reply) PROVE RecreatedInv'
  <2>1. Spares(e)
    BY <1>2, <1>k, NextNoneMove DEF Spares, Rests, Keeps, SameJob, Busy, NextNone, ReadOnly, Replied, resultVars
  <2> QED BY <2>1, SparesRecreated
<1>3. ASSUME NEW reply \in Replies, Reclaim(e, reply) PROVE RecreatedInv'
  <2>1. Spares(e)
    BY <1>3, <1>k, ReclaimMove DEF Spares, Rests, Keeps, SameJob, Busy, Reclaim, AutoClaim, Replied, resultVars
  <2> QED BY <2>1, SparesRecreated
<1>4. ASSUME NEW reply \in Replies, ReclaimNone(e, reply) PROVE RecreatedInv'
  <2>1. Spares(e)
    BY <1>4, <1>k, ReclaimNoneMove DEF Spares, Rests, Keeps, SameJob, Busy, ReclaimNone, ReadOnly, Replied, resultVars
  <2> QED BY <2>1, SparesRecreated
<1>5. ASSUME NEW reply \in Replies, Ack(e, reply) PROVE RecreatedInv'
  <2>1. Spares(e)
    BY <1>5, <1>k, AckMove DEF Spares, Rests, Keeps, SameJob, Busy, Ack, Acknowledge, Replied, resultVars
  <2> QED BY <2>1, SparesRecreated
<1>6. CASE CheckDeadline(e)
  <2>1. Spares(e)
    BY <1>6, <1>k, CheckDeadlineMove DEF Spares, Rests, Keeps, SameJob, Busy, CheckDeadline, NoCommand, streamsVars, resultVars
  <2> QED BY <2>1, SparesRecreated
<1>7. ASSUME NEW reply \in Replies, CancelLate(e, reply) PROVE RecreatedInv'
  <2>1. Spares(e)
    BY <1>7, <1>k, CancelLateMove DEF Spares, Rests, Keeps, SameJob, Busy, CancelLate, CloseReservation, Replied, resultVars
  <2> QED BY <2>1, SparesRecreated
<1>8. ASSUME NEW reply \in Replies, CheckStatus(e, reply) PROVE RecreatedInv'
  <2>1. Spares(e)
    BY <1>8, <1>k, CheckStatusMove DEF Spares, Rests, Keeps, SameJob, Busy, CheckStatus, ReadOnly, Replied, resultVars
  <2> QED BY <2>1, SparesRecreated
<1>9. ASSUME NEW reply \in Replies, Acquire(e, reply) PROVE RecreatedInv'
  <2>1. Spares(e)
    BY <1>9, <1>k, <1>b, AcquireMove DEF Spares, Rests, Keeps, SameJob, Busy, Acquire, AcquireLease, Replied, resultVars
  <2> QED BY <2>1, SparesRecreated
<1>10. ASSUME NEW reply \in Replies, Release(e, reply) PROVE RecreatedInv'
  <2>1. Spares(e)
    BY <1>10, <1>k, ReleaseMove DEF Spares, Rests, Keeps, SameJob, Busy, Release, ReleaseLease, Replied, resultVars
  <2> QED BY <2>1, SparesRecreated
<1>11. ASSUME NEW reply \in Replies, Settle(e, reply) PROVE RecreatedInv'
  <2>1. Spares(e)
    BY <1>11, <1>k, SettleMove DEF Spares, Rests, Keeps, SameJob, Busy, Settle, CloseReservation, Replied, resultVars
  <2> QED BY <2>1, SparesRecreated
<1>12. CASE Refuse(e)
  <2>1. Spares(e)
    BY <1>12, <1>k, RefuseMove DEF Spares, Rests, Keeps, SameJob, Busy, Refuse, NoCommand, streamsVars, resultVars
  <2> QED BY <2>1, SparesRecreated
<1>13. CASE Start(e)
  <2>1. Spares(e)
    BY <1>13, <1>k, StartMove DEF Spares, Rests, Keeps, SameJob, Busy, Start, NoCommand, streamsVars, resultVars
  <2> QED BY <2>1, SparesRecreated
<1>14. ASSUME NEW reply \in Replies, XAdd(e, reply) PROVE RecreatedInv'
  <2>0. eng[e].job \in Requests
    BY <1>14, <1>b DEF XAdd, Busy
  <2>1. UNCHANGED <<resultTtl, expired, crashes>> /\ (reply # "ok" => faults' = faults + 1)
        /\ (reply = "ok" => faults' = faults) /\ \A r \in Requests : r # eng[e].job => results'[r] = results[r]
    BY <1>14, <1>a, <2>0 DEF XAdd, AddResult, Replied, TypeOK
  <2>2. CASE reply # "ok"
    <3>1. Failed'
      BY <2>1, <2>2, <1>a DEF Failed
    <3> QED BY <3>1 DEF RecreatedInv
  <2>3. CASE reply = "ok"
    <3>1. OnlyMoves(e) /\ eng[e].pc = "publish" /\ eng'[e].pc = "record" /\ eng'[e].job = eng[e].job
      BY <1>14, <2>3, StepFacts DEF XAdd, TypeOK, PCs, SameJob
    <3>2. Failed => Failed'
      BY <2>1, <1>k
    <3>3. SUFFICES ASSUME NEW r \in expired', results'[r] # <<>>, resultTtl'[r] = "none", ~ Failed'
                   PROVE  \E f \in Engines : eng'[f].pc = "record" /\ eng'[f].job = r
      BY DEF RecreatedInv
    <3>4. CASE r = eng[e].job
      BY <3>1, <3>4
    <3>5. CASE r # eng[e].job
      <4>1. PICK f \in Engines : eng[f].pc = "record" /\ eng[f].job = r
        BY <3>2, <3>3, <3>5, <2>1, <1>c DEF RecreatedInv
      <4> QED BY <4>1, <3>1, <3>5 DEF OnlyMoves
    <3> QED BY <3>4, <3>5
  <2> QED BY <2>2, <2>3
<1>15. ASSUME NEW reply \in Replies, Record(e, reply) PROVE RecreatedInv'
  <2>0. eng[e].job \in Requests
    BY <1>15, <1>b DEF Record, Busy
  <2>1. UNCHANGED <<results, expired, crashes>> /\ (reply # "ok" => faults' = faults + 1)
        /\ (reply = "ok" => faults' = faults) /\ \A r \in Requests : r # eng[e].job => resultTtl'[r] = resultTtl[r]
    BY <1>15, <1>a, <2>0 DEF Record, RecordResult, Replied, TypeOK
  <2>2. CASE reply # "ok"
    <3>1. Failed'
      BY <2>1, <2>2, <1>a DEF Failed
    <3> QED BY <3>1 DEF RecreatedInv
  <2>3. CASE reply = "ok"
    <3>1. results[eng[e].job] # <<>> => resultTtl'[eng[e].job] # "none"
      BY <1>15, <2>0, <2>3 DEF Record, RecordResult, Lands, TtlAfter, TypeOK
    <3>2. OnlyMoves(e)
      BY <1>15, RecordMove DEF Rests, Keeps
    <3>3. Failed => Failed'
      BY <2>1, <1>k
    <3>4. SUFFICES ASSUME NEW r \in expired', results'[r] # <<>>, resultTtl'[r] = "none", ~ Failed'
                   PROVE  \E f \in Engines : eng'[f].pc = "record" /\ eng'[f].job = r
      BY DEF RecreatedInv
    <3>5. r # eng[e].job
      BY <3>1, <3>4, <2>1
    <3>6. PICK f \in Engines : eng[f].pc = "record" /\ eng[f].job = r
      BY <3>3, <3>4, <3>5, <2>1, <1>c DEF RecreatedInv
    <3> QED BY <3>2, <3>5, <3>6 DEF OnlyMoves
  <2> QED BY <2>2, <2>3
<1>16. CASE Restart(e)
  <2>1. Spares(e)
    BY <1>16, <1>k, RestartMove DEF Spares, Rests, Keeps, SameJob, Busy, Restart, NoCommand, streamsVars, resultVars
  <2> QED BY <2>1, SparesRecreated
<1>17. CASE BackendToken(e)
  <2>1. Spares(e)
    BY <1>17, <1>k, BackendTokenMove DEF Spares, Rests, Keeps, SameJob, Busy, BackendToken, NoCommand, streamsVars, resultVars
  <2> QED BY <2>1, SparesRecreated
<1>18. ASSUME NEW outcome \in Outcomes, BackendEnds(e, outcome) PROVE RecreatedInv'
  <2>1. Spares(e)
    BY <1>18, <1>k, BackendEndsMove DEF Spares, Rests, Keeps, SameJob, Busy, BackendEnds, NoCommand, streamsVars, resultVars
  <2> QED BY <2>1, SparesRecreated
<1>19. CASE HeartbeatLost(e)
  <2>1. Spares(e)
    BY <1>19, <1>k, HeartbeatLostMove DEF Spares, Rests, Keeps, SameJob, Busy, HeartbeatLost, NoCommand, streamsVars, resultVars
  <2> QED BY <2>1, SparesRecreated
<1>20. CASE Crash(e)
  <2>1. Spares(e)
    BY <1>20, <1>a, CrashMove DEF Failed, Spares, Rests, Keeps, SameJob, Busy, Crash, NoCommand, streamsVars, resultVars
  <2> QED BY <2>1, SparesRecreated
<1> QED
  BY <1>1, <1>2, <1>3, <1>4, <1>5, <1>6, <1>7, <1>8, <1>9, <1>10,
     <1>11, <1>12, <1>13, <1>14, <1>15, <1>16, <1>17, <1>18, <1>19, <1>20
  DEF Worker, EngineStep, BackendStep

\* Attempt ids are fresh, and with reliable heartbeats an executing engine holds the lease.
LEMMA OwnerWorker ==
  ASSUME TypeOK, JobsAssigned, OwnerInv,
         NEW e \in Engines, Worker(e)
  PROVE  OwnerInv'
<1> UNCHANGED fe
  BY DEF Worker
<1>a. Busy(e) => eng[e].job \in Requests
  BY DEF JobsAssigned
<1>b. \A r \in Requests : attempts[r] \in Nat
  BY DEF TypeOK
<1>1. ASSUME NEW reply \in Replies, NextJob(e, reply) PROVE OwnerInv'
  <2>1. UNCHANGED <<lease, attempts>>
    BY <1>1 DEF NextJob, ReadGroup, Deliver, Undelivered, queueVars, statusVars, resultVars
  <2> QED BY <1>1, <2>1, NextJobMove, <1>a, <1>b
             DEF Rests, Keeps, SameJob, OnlyMoves, Busy, OwnerInv, Executing, Terminal
<1>2. ASSUME NEW reply \in Replies, NextNone(e, reply) PROVE OwnerInv'
  <2>1. UNCHANGED <<lease, attempts>>
    BY <1>2 DEF NextNone, ReadOnly, queueVars, statusVars, resultVars
  <2> QED BY <1>2, <2>1, NextNoneMove, <1>a, <1>b
             DEF Rests, Keeps, SameJob, OnlyMoves, Busy, OwnerInv, Executing, Terminal
<1>3. ASSUME NEW reply \in Replies, Reclaim(e, reply) PROVE OwnerInv'
  <2>1. UNCHANGED <<lease, attempts>>
    BY <1>3 DEF Reclaim, AutoClaim, Claim, queueVars, statusVars, resultVars
  <2> QED BY <1>3, <2>1, ReclaimMove, <1>a, <1>b
             DEF Rests, Keeps, SameJob, OnlyMoves, Busy, OwnerInv, Executing, Terminal
<1>4. ASSUME NEW reply \in Replies, ReclaimNone(e, reply) PROVE OwnerInv'
  <2>1. UNCHANGED <<lease, attempts>>
    BY <1>4 DEF ReclaimNone, ReadOnly, queueVars, statusVars, resultVars
  <2> QED BY <1>4, <2>1, ReclaimNoneMove, <1>a, <1>b
             DEF Rests, Keeps, SameJob, OnlyMoves, Busy, OwnerInv, Executing, Terminal
<1>5. ASSUME NEW reply \in Replies, Ack(e, reply) PROVE OwnerInv'
  <2>1. UNCHANGED <<lease, attempts>>
    BY <1>5 DEF Ack, Acknowledge, Remove, queueVars, statusVars, resultVars
  <2> QED BY <1>5, <2>1, AckMove, <1>a, <1>b
             DEF Rests, Keeps, SameJob, OnlyMoves, Busy, OwnerInv, Executing, Terminal
<1>6. CASE CheckDeadline(e)
  <2>1. UNCHANGED <<lease, attempts>>
    BY <1>6 DEF CheckDeadline, NoCommand, streamsVars, queueVars, statusVars, resultVars
  <2> QED BY <1>6, <2>1, CheckDeadlineMove, <1>a, <1>b
             DEF Rests, Keeps, SameJob, OnlyMoves, Busy, OwnerInv, Executing, Terminal
<1>7. ASSUME NEW reply \in Replies, CancelLate(e, reply) PROVE OwnerInv'
  <2>1. UNCHANGED <<lease, attempts>>
    BY <1>7 DEF CancelLate, CloseReservation, queueVars, statusVars, resultVars
  <2> QED BY <1>7, <2>1, CancelLateMove, <1>a, <1>b
             DEF Rests, Keeps, SameJob, OnlyMoves, Busy, OwnerInv, Executing, Terminal
<1>8. ASSUME NEW reply \in Replies, CheckStatus(e, reply) PROVE OwnerInv'
  <2>1. UNCHANGED <<lease, attempts>>
    BY <1>8 DEF CheckStatus, ReadOnly, queueVars, statusVars, resultVars
  <2> QED BY <1>8, <2>1, CheckStatusMove, <1>a, <1>b
             DEF Rests, Keeps, SameJob, OnlyMoves, Busy, OwnerInv, Executing, Terminal
<1>9. ASSUME NEW reply \in Replies, Acquire(e, reply) PROVE OwnerInv'
  <2>0. eng[e].job \in Requests
    BY <1>9, <1>a DEF Acquire, Busy
  <2>1. /\ \A r \in Requests : lease'[r] = lease[r] \/ (r = eng[e].job /\ lease[r] = 0 /\ lease'[r] = attempts[r] + 1)
        /\ \A r \in Requests : attempts'[r] = IF r = eng[e].job THEN attempts[r] + 1 ELSE attempts[r]
        /\ reply = "ok" /\ lease[eng[e].job] = 0 => lease'[eng[e].job] = attempts[eng[e].job] + 1
    BY <1>9, <2>0 DEF Acquire, AcquireLease, Lands, TypeOK
  <2>2. \A r \in Requests : attempts[r] \in Nat /\ lease[r] \in Nat
    BY DEF TypeOK
  <2>3. \A f \in Engines : eng[f].att \in Nat
    BY DEF TypeOK, EngineState
  <2> QED BY <1>9, <2>0, <2>1, <2>2, <2>3, AcquireMove
             DEF Rests, Keeps, SameJob, OnlyMoves, Busy, OwnerInv, Executing, JobsAssigned
<1>10. ASSUME NEW reply \in Replies, Release(e, reply) PROVE OwnerInv'
  <2>0. eng[e].job \in Requests
    BY <1>10, <1>a DEF Release, Busy
  <2>1. /\ UNCHANGED attempts
        /\ \A r \in Requests : lease'[r] = lease[r] \/ (r = eng[e].job /\ lease[r] = eng[e].att /\ lease'[r] = 0)
    BY <1>10, <2>0 DEF Release, ReleaseLease, TypeOK
  <2>2. \A r \in Requests : attempts[r] \in Nat
    BY DEF TypeOK
  <2> QED BY <1>10, <2>0, <2>1, <2>2, ReleaseMove
             DEF Rests, Keeps, SameJob, OnlyMoves, Busy, OwnerInv, Executing, JobsAssigned
<1>11. ASSUME NEW reply \in Replies, Settle(e, reply) PROVE OwnerInv'
  <2>1. UNCHANGED <<lease, attempts>>
    BY <1>11 DEF Settle, CloseReservation, queueVars, statusVars, resultVars
  <2> QED BY <1>11, <2>1, SettleMove, <1>a, <1>b
             DEF Rests, Keeps, SameJob, OnlyMoves, Busy, OwnerInv, Executing, Terminal
<1>12. CASE Refuse(e)
  <2>1. UNCHANGED <<lease, attempts>>
    BY <1>12 DEF Refuse, NoCommand, streamsVars, queueVars, statusVars, resultVars
  <2> QED BY <1>12, <2>1, RefuseMove, <1>a, <1>b
             DEF Rests, Keeps, SameJob, OnlyMoves, Busy, OwnerInv, Executing, Terminal
<1>13. CASE Start(e)
  <2>1. UNCHANGED <<lease, attempts>>
    BY <1>13 DEF Start, NoCommand, streamsVars, queueVars, statusVars, resultVars
  <2> QED BY <1>13, <2>1, StartMove, <1>a, <1>b
             DEF Rests, Keeps, SameJob, OnlyMoves, Busy, OwnerInv, Executing, Terminal
<1>14. ASSUME NEW reply \in Replies, XAdd(e, reply) PROVE OwnerInv'
  <2>1. UNCHANGED <<lease, attempts>>
    BY <1>14 DEF XAdd, AddResult, queueVars, statusVars, resultVars
  <2> QED BY <1>14, <2>1, XAddMove, <1>a, <1>b
             DEF Rests, Keeps, SameJob, OnlyMoves, Busy, OwnerInv, Executing, Terminal
<1>15. ASSUME NEW reply \in Replies, Record(e, reply) PROVE OwnerInv'
  <2>1. UNCHANGED <<lease, attempts>>
    BY <1>15 DEF Record, RecordResult, queueVars, statusVars, resultVars
  <2> QED BY <1>15, <2>1, RecordMove, <1>a, <1>b
             DEF Rests, Keeps, SameJob, OnlyMoves, Busy, OwnerInv, Executing, Terminal
<1>16. CASE Restart(e)
  <2>1. UNCHANGED <<lease, attempts>>
    BY <1>16 DEF Restart, NoCommand, streamsVars, queueVars, statusVars, resultVars
  <2> QED BY <1>16, <2>1, RestartMove, <1>a, <1>b
             DEF Rests, Keeps, SameJob, OnlyMoves, Busy, OwnerInv, Executing, Terminal
<1>17. CASE BackendToken(e)
  <2>1. UNCHANGED <<lease, attempts>>
    BY <1>17 DEF BackendToken, NoCommand, streamsVars, queueVars, statusVars, resultVars
  <2> QED BY <1>17, <2>1, BackendTokenMove, <1>a, <1>b
             DEF Rests, Keeps, SameJob, OnlyMoves, Busy, OwnerInv, Executing, Terminal
<1>18. ASSUME NEW outcome \in Outcomes, BackendEnds(e, outcome) PROVE OwnerInv'
  <2>1. UNCHANGED <<lease, attempts>>
    BY <1>18 DEF BackendEnds, NoCommand, streamsVars, queueVars, statusVars, resultVars
  <2> QED BY <1>18, <2>1, BackendEndsMove, <1>a, <1>b
             DEF Rests, Keeps, SameJob, OnlyMoves, Busy, OwnerInv, Executing, Terminal
<1>19. CASE HeartbeatLost(e)
  <2>1. UNCHANGED <<lease, attempts>>
    BY <1>19 DEF HeartbeatLost, NoCommand, streamsVars, queueVars, statusVars, resultVars
  <2> QED BY <1>19, <2>1, HeartbeatLostMove, <1>a, <1>b
             DEF Rests, Keeps, SameJob, OnlyMoves, Busy, OwnerInv, Executing, Terminal
<1>20. CASE Crash(e)
  <2>1. UNCHANGED <<lease, attempts>>
    BY <1>20 DEF Crash, NoCommand, streamsVars, queueVars, statusVars, resultVars
  <2> QED BY <1>20, <2>1, CrashMove, <1>a, <1>b
             DEF Rests, Keeps, SameJob, OnlyMoves, Busy, OwnerInv, Executing, Terminal
<1> QED
  BY <1>1, <1>2, <1>3, <1>4, <1>5, <1>6, <1>7, <1>8, <1>9, <1>10,
     <1>11, <1>12, <1>13, <1>14, <1>15, <1>16, <1>17, <1>18, <1>19, <1>20
  DEF Worker, EngineStep, BackendStep

\* The front end's steps preserve the invariant: a reservation is opened only by a
\* request no engine has seen.
LEMMA InvFrontEnd ==
  ASSUME IInv, NEW r \in Requests, FrontEnd(r)
  PROVE  IInv'
<1> USE DEF IInv
<1>a. TypeOK' /\ UNCHANGED <<eng, attempts, crashes>>
  BY TypeFrontEnd DEF FrontEnd, engineVars
<1>b. /\ \A q \in Requests : fe[q] # "idle" => fe'[q] # "idle"
      /\ \A q \in Requests : res'[q] = "reserved" => res[q] = "reserved" \/ fe[q] = "idle"
      /\ \A q \in Requests : status'[q] = "completed" => status[q] = "completed"
      /\ \A i \in 1..Len(queue') :
           \/ i \in 1..Len(queue) /\ queue'[i] = queue[i]
           \/ fe'[queue'[i]] # "idle"
      /\ \A i \in 1..delivered : queue'[i] = queue[i]
      /\ UNCHANGED <<delivered, pel, results, resultTtl, expired, finished, lease>>
      /\ faults' >= faults
  <2> USE DEF Goto, Positions, queueVars, statusVars, resultVars, TypeOK
  <2>1. CASE Reject(r)
    BY <2>1 DEF Reject, NoCommand, streamsVars
  <2>2. ASSUME NEW reply \in Replies, Reserve(r, reply) PROVE <1>b!:
    BY <2>2 DEF Reserve, ReserveQuota, Replied
  <2>3. ASSUME NEW reply \in Replies, PublishJob(r, reply) PROVE <1>b!:
    <3>1. delivered' = delivered /\ pel' = pel /\ queue' \in {queue, Append(queue, r)}
      BY <2>3 DEF PublishJob, AddJob, Enqueue
    <3>2. fe' = [fe EXCEPT ![r] = fe'[r]] /\ fe'[r] # "idle"
          /\ UNCHANGED <<results, resultTtl, expired, finished, lease, status, res>>
          /\ faults' >= faults
      BY <2>3 DEF PublishJob, AddJob, Replied
    <3>a. queue \in Seq(Requests) /\ delivered \in 0..Len(queue)
      OBVIOUS
    <3>3. \A i \in 1..Len(queue') : (i \in 1..Len(queue) /\ queue'[i] = queue[i]) \/ queue'[i] = r
      BY ONLY <3>1, <3>a, r \in Requests, SMTT(30)
    <3>4. \A i \in 1..delivered : queue'[i] = queue[i]
      BY ONLY <3>1, <3>a, r \in Requests, SMTT(30)
    <3> QED BY <3>1, <3>2, <3>3, <3>4
  <2>4. ASSUME NEW reply \in Replies, PublishStatus(r, reply) PROVE <1>b!:
    BY <2>4 DEF PublishStatus, MarkQueued, Replied
  <2>5. ASSUME NEW reply \in Replies, CancelDispatch(r, reply) PROVE <1>b!:
    BY <2>5 DEF CancelDispatch, CloseReservation, Replied
  <2>6. CASE Drop(r)
    BY <2>6 DEF Drop, NoCommand, streamsVars
  <2> QED BY <2>1, <2>2, <2>3, <2>4, <2>5, <2>6 DEF FrontEnd, Arrive, DispatchStep
<1>c. finished \subseteq Requests /\ \A i \in 1..Len(queue) : queue[i] \in Requests
  BY DEF TypeOK
<1>d. \A q \in Requests : Acked(q)' => Acked(q)
  BY <1>b DEF Acked
<1>1. JobsAssigned'
  BY <1>a DEF JobsAssigned, Busy
<1>2. JobsDispatched'
  BY <1>a, <1>b, <1>c DEF JobsDispatched, JobsAssigned, Busy
<1>3. SettledInv'
  BY <1>a, <1>b, <1>c DEF SettledInv, Ending, JobsAssigned, JobsDispatched, Busy
<1>4. FinishedInv'
  BY <1>a, <1>b, <1>d DEF FinishedInv, AckedIsFinished, Decided
<1>5. ExpiresInv'
  BY <1>a, <1>b, <1>d DEF ExpiresInv, AckedExpires, Expires
<1>6. OwnerInv'
  BY <1>a, <1>b DEF OwnerInv, Executing, Busy
<1>7. RecreatedInv'
  <2>2. Failed => Failed'
    BY <1>a, <1>b, FailuresGrow DEF TypeOK
  <2> QED BY <1>a, <1>b, <2>2 DEF RecreatedInv
<1> QED BY <1>a, <1>1, <1>2, <1>3, <1>4, <1>5, <1>6, <1>7

\* The steps of time preserve the invariant.
LEMMA InvTime ==
  ASSUME IInv, NEW r \in Requests, Time(r)
  PROVE  IInv'
<1> USE DEF IInv
<1>a. TypeOK' /\ UNCHANGED <<eng, attempts, crashes, fe>>
  BY TypeTime DEF Time, BecomeStale, PassDeadline, LeaseExpires, KeyExpires, engineVars
<1>b. /\ \A q \in Requests : res'[q] = "reserved" => res[q] = "reserved"
      /\ \A q \in Requests : status'[q] = "completed" => status[q] = "completed"
      /\ \A q \in Requests : lease'[q] = lease[q] \/
           /\ lease'[q] = 0
           /\ HeartbeatsReliable => \A e \in Engines :
                ~ (eng[e].heart = "beating" /\ eng[e].job = q /\ eng[e].att = lease[q])
      /\ expired \subseteq expired'
      /\ \A q \in Requests \ expired' : results'[q] = results[q] /\ resultTtl'[q] = resultTtl[q]
      /\ \A q \in expired' : results'[q] # <<>> =>
           q \in expired /\ results'[q] = results[q] /\ resultTtl'[q] = resultTtl[q]
      /\ UNCHANGED <<queue, delivered, pel, finished, faults>>
  <2> USE DEF queueVars, statusVars, resultVars, TypeOK
  <2>1. CASE BecomeStale(r)
    BY <2>1 DEF BecomeStale, GrowStale, Age
  <2>2. CASE PassDeadline(r)
    BY <2>2 DEF PassDeadline, DeadlinePasses
  <2>3. CASE LeaseExpires(r)
    BY <2>3 DEF LeaseExpires, LeaseLapses, Tended
  <2>4. CASE ReservationExpires(r)
    BY <2>4 DEF ReservationExpires
  <2>5. CASE StatusExpires(r)
    BY <2>5 DEF StatusExpires
  <2>6. CASE ResultExpires(r)
    BY <2>6 DEF ResultExpires
  <2> QED BY <2>1, <2>2, <2>3, <2>4, <2>5, <2>6 DEF Time, KeyExpires
<1>c. finished \subseteq Requests /\ \A q \in Requests : attempts[q] \in Nat
  BY DEF TypeOK
<1>1. JobsAssigned' /\ JobsDispatched'
  BY <1>a, <1>b DEF JobsAssigned, JobsDispatched, Busy
<1>2. SettledInv'
  BY <1>a, <1>b, <1>c DEF SettledInv, Ending, JobsAssigned, Busy
<1>3. FinishedInv'
  BY <1>a, <1>b DEF FinishedInv, AckedIsFinished, Acked, Decided
<1>4. ExpiresInv'
  BY <1>a, <1>b DEF ExpiresInv, AckedExpires, Acked, Expires, JobsAssigned, Busy
<1>5. OwnerInv'
  BY <1>a, <1>b, <1>c DEF OwnerInv, Executing, Busy, JobsAssigned
<1>6. RecreatedInv'
  BY <1>a, <1>b DEF RecreatedInv, Failed
<1> QED BY <1>a, <1>1, <1>2, <1>3, <1>4, <1>5, <1>6

\* The invariant holds initially.
LEMMA InvInit == Init => IInv
<1> SUFFICES ASSUME Init PROVE IInv
  OBVIOUS
<1>1. TypeOK
  BY TypeInit
<1>2. \A e \in Engines : eng[e].pc = "idle" /\ eng[e].att = 0
  BY DEF Init, EngineInit, At
<1>3. /\ queue = <<>> /\ delivered = 0 /\ finished = {}
      /\ \A r \in Requests : status[r] = "none" /\ lease[r] = 0 /\ attempts[r] = 0
  BY DEF Init, StreamsInit, QueueInit, EngineInit
<1>4. JobsAssigned /\ JobsDispatched /\ SettledInv
  BY <1>2, <1>3 DEF JobsAssigned, JobsDispatched, SettledInv, Ending, Busy
<1>5. FinishedInv /\ ExpiresInv
  BY <1>2, <1>3 DEF FinishedInv, ExpiresInv, AckedIsFinished, AckedExpires, Acked, Decided
<1>6. OwnerInv
  BY <1>2, <1>3 DEF OwnerInv, Executing, Busy
<1>7. RecreatedInv
  BY DEF Init, StreamsInit, RecreatedInv
<1> QED BY <1>1, <1>4, <1>5, <1>6, <1>7 DEF IInv

\* Every step preserves the invariant.
LEMMA InvNext == IInv /\ [Next]_vars => IInv'
<1> SUFFICES ASSUME IInv, [Next]_vars PROVE IInv'
  OBVIOUS
<1>1. ASSUME NEW r \in Requests, FrontEnd(r) PROVE IInv'
  BY <1>1, InvFrontEnd
<1>2. ASSUME NEW r \in Requests, Time(r) PROVE IInv'
  BY <1>2, InvTime
<1>3. ASSUME NEW e \in Engines, Worker(e) PROVE IInv'
  BY <1>3, TypeWorker, DispatchedWorker, SettledWorker, FinishedWorker, ExpiresWorker,
     RecreatedWorker, OwnerWorker
     DEF IInv
<1>4. CASE UNCHANGED vars
  <2>1. UNCHANGED <<queue, delivered, pel, stale, status, statusTtl, results, resultTtl, finished,
                    expired, lease, res, late, faults, fe, eng, attempts, crashes>>
    BY <1>4 DEF vars, streamsVars, queueVars, statusVars, resultVars, engineVars
  <2> QED BY <2>1
             DEF IInv, TypeOK, JobsAssigned, JobsDispatched, SettledInv, FinishedInv,
             ExpiresInv, RecreatedInv, Failed,
                      OwnerInv, AckedIsFinished, AckedExpires, Acked, Busy, Ending, Decided,
                      Expires, Executing
<1> QED BY <1>1, <1>2, <1>3, <1>4 DEF Next

-----------------------------------------------------------------------------
\* The inductive invariant holds in every reachable state.
THEOREM Invariance == Spec => []IInv
<1>1. Init => IInv
  BY InvInit
<1>2. IInv /\ [Next]_vars => IInv'
  BY InvNext
<1> QED BY <1>1, <1>2, PTL DEF Spec

\* Type correctness of the data plane.
THEOREM TypeCorrect == Spec => []TypeOK
<1>1. IInv => TypeOK
  BY DEF IInv
<1> QED BY <1>1, Invariance, PTL

\* An entry of the request stream is acknowledged (main, run_job) only after a terminal
\* event was written for it, whatever crashes and fails.
THEOREM NoJobLost == Spec => []AckedIsFinished
<1>1. IInv => AckedIsFinished
  BY DEF IInv, FinishedInv
<1> QED BY <1>1, Invariance, PTL

\* When a terminal event is in the result stream, reconcile_quota or cancel_quota has
\* closed the request's reservation, or it expired.
THEOREM FinishedSettled == Spec => []FinishedIsSettled
<1>1. IInv => FinishedIsSettled
  BY DEF IInv, SettledInv, FinishedIsSettled
<1> QED BY <1>1, Invariance, PTL

\* The result stream of an acknowledged job has an expiration or an engine is about to set it
\* (publish_result's XADD and EXPIRE), unless the stream was created again after it had
\* expired and its writer then failed.
THEOREM StreamsExpire == Spec => []AckedStreamExpires
<1>1. IInv => AckedStreamExpires
  BY DEF IInv, ExpiresInv, AckedExpires, Expires, RecreatedInv, Failed, AckedStreamExpires
<1> QED BY <1>1, Invariance, PTL

\* While heartbeats keep their leases, at most one engine is inside execute_attempt for a
\* request.
THEOREM OneOwner == HeartbeatsReliable => (Spec => []SingleOwner)
<1> SUFFICES ASSUME HeartbeatsReliable PROVE Spec => []SingleOwner
  OBVIOUS
<1>1. IInv => SingleOwner
  BY DEF IInv, OwnerInv, SingleOwner, Executing, Busy
<1> QED BY <1>1, Invariance, PTL

-----------------------------------------------------------------------------
(***************************************************************************)
(* CompletedIsWhole.  It rests on what an engine that can still complete   *)
(* its attempt owes to the result stream: every chunk it counted is there, *)
(* except the one it is about to XADD.  An engine whose XADD or MULTI      *)
(* block failed owes nothing, since the attempt can only end as failed.    *)
(***************************************************************************)

\* The attempt of e can still end with a completed event.
Owes(e) ==
  \/ eng[e].pc \in {"execute", "stream"}
  \/ eng[e].pc \in {"publish", "record"} /\ eng[e].ev # "failed"
  \/ eng[e].pc \in {"release", "settle"} /\ eng[e].outcome = "ok"

\* How many chunks of it are in the result stream.
Held(e) ==
  IF eng[e].pc = "publish" /\ eng[e].ev = "token" THEN eng[e].sent - 1 ELSE eng[e].sent

\* The n-th chunk of an attempt, and a stream that holds it.
IsChunk(event, attempt, n) == event.kind = "token" /\ event.attempt = attempt /\ event.n = n
Chunk(stream, attempt, n) == \E j \in 1..Len(stream) : IsChunk(stream[j], attempt, n)

\* e has no attempt yet.
Fresh(e) == eng[e].pc \in {"begin", "status", "lease"} => eng[e].sent = 0

\* e owes no chunk that its result stream does not hold.
Pays(e) ==
  Owes(e) /\ eng[e].job \notin expired => \A n \in 1..Held(e) : Chunk(results[eng[e].job], eng[e].att, n)

\* The inductive invariant of CompletedIsWhole, next to IInv.
WholeInv ==
  /\ \A e \in Engines : Fresh(e) /\ Pays(e)
  /\ CompletedIsWhole

-----------------------------------------------------------------------------
\* A step of e after which it owes nothing new: nothing yet, or no more than before.
Honest(e) ==
  /\ OnlyMoves(e)
  /\ Fresh(e)'
  /\ Owes(e)' => \/ Held(e)' = 0
                 \/ Owes(e) /\ SameJob(e) /\ Held(e)' = Held(e)

\* An engine without work owes nothing.
LEMMA RestsHonest ==
  ASSUME NEW e \in Engines, Rests(e)
  PROVE  Honest(e)
BY DEF Rests, Busy, Honest, Fresh, Owes

\* The steps of e that do not append an event are honest, and leave the streams alone.
LEMMA WorkerHonest ==
  ASSUME TypeOK, JobsAssigned, NEW e \in Engines, Fresh(e), Worker(e),
         \A reply \in Replies : ~ XAdd(e, reply)
  PROVE  Honest(e) /\ UNCHANGED <<results, expired>>
<1> DEFINE Goal == Honest(e) /\ UNCHANGED <<results, expired>>
<1> SUFFICES Goal
  OBVIOUS
<1>a. eng \in [Engines -> EngineState] /\ eng[e].sent \in Nat
  BY DEF TypeOK, EngineState
<1>1. ASSUME NEW reply \in Replies, NextJob(e, reply) PROVE Goal
  <2>1. UNCHANGED <<results, expired>>
    BY <1>1 DEF NextJob, ReadGroup, resultVars
  <2> QED BY <1>1, <2>1, NextJobMove, RestsHonest DEF Honest, Fresh, Owes
<1>2. ASSUME NEW reply \in Replies, NextNone(e, reply) PROVE Goal
  BY <1>2, NextNoneMove, RestsHonest DEF NextNone, ReadOnly, resultVars
<1>3. ASSUME NEW reply \in Replies, Reclaim(e, reply) PROVE Goal
  <2>1. UNCHANGED <<results, expired>>
    BY <1>3 DEF Reclaim, AutoClaim, resultVars
  <2> QED BY <1>3, <2>1, ReclaimMove, RestsHonest DEF Honest, Fresh, Owes
<1>4. ASSUME NEW reply \in Replies, ReclaimNone(e, reply) PROVE Goal
  BY <1>4, ReclaimNoneMove, RestsHonest DEF ReclaimNone, ReadOnly, resultVars
<1>5. ASSUME NEW reply \in Replies, Ack(e, reply) PROVE Goal
  BY <1>5, AckMove, RestsHonest DEF Ack, Acknowledge, resultVars
<1>6. CASE CheckDeadline(e)
  <2>1. UNCHANGED <<results, expired>>
    BY <1>6 DEF CheckDeadline, NoCommand, streamsVars, resultVars
  <2> QED BY <1>6, <2>1, CheckDeadlineMove DEF Honest, Fresh, Owes, Keeps
<1>7. ASSUME NEW reply \in Replies, CancelLate(e, reply) PROVE Goal
  <2>1. UNCHANGED <<results, expired>>
    BY <1>7 DEF CancelLate, CloseReservation, resultVars
  <2> QED BY <1>7, <2>1, CancelLateMove, RestsHonest DEF Honest, Fresh, Owes, Keeps
<1>8. ASSUME NEW reply \in Replies, CheckStatus(e, reply) PROVE Goal
  <2>1. UNCHANGED <<results, expired>>
    BY <1>8 DEF CheckStatus, ReadOnly, resultVars
  <2> QED BY <1>8, <2>1, CheckStatusMove, RestsHonest DEF Honest, Fresh, Owes, Keeps
<1>9. ASSUME NEW reply \in Replies, Acquire(e, reply) PROVE Goal
  <2>1. UNCHANGED <<results, expired>>
    BY <1>9 DEF Acquire, AcquireLease, resultVars
  <2>2. eng[e].job \in Requests
    BY <1>9 DEF Acquire, JobsAssigned, Busy
  <2> QED BY <1>9, <2>1, <2>2, AcquireMove, RestsHonest DEF Honest, Fresh, Owes, Held
<1>10. ASSUME NEW reply \in Replies, Release(e, reply) PROVE Goal
  <2>1. UNCHANGED <<results, expired>>
    BY <1>10 DEF Release, ReleaseLease, resultVars
  <2>2. CASE reply = "ok"
    BY <1>10, <1>a, <2>1, <2>2, StepFacts DEF Release, PCs, Honest, Fresh, Owes, Held
  <2> QED BY <1>10, <1>a, <2>1, <2>2, ResetFacts, RestsHonest DEF Release, PCs, Rests, Busy
<1>11. ASSUME NEW reply \in Replies, Settle(e, reply) PROVE Goal
  <2>1. UNCHANGED <<results, expired>>
    BY <1>11 DEF Settle, CloseReservation, resultVars
  <2>2. CASE reply = "ok"
    BY <1>11, <1>a, <2>1, <2>2, PublishFacts DEF Settle, Kinds, Honest, Fresh, Owes, Held
  <2> QED BY <1>11, <1>a, <2>1, <2>2, ResetFacts, RestsHonest DEF Settle, PCs, Rests, Busy
<1>12. CASE Refuse(e)
  <2>1. UNCHANGED <<results, expired>>
    BY <1>12 DEF Refuse, NoCommand, streamsVars, resultVars
  <2> QED BY <1>12, <1>a, <2>1, EndFacts DEF Refuse, Outcomes, Honest, Fresh, Owes
<1>13. CASE Start(e)
  <2>1. UNCHANGED <<results, expired>>
    BY <1>13 DEF Start, NoCommand, streamsVars, resultVars
  <2> QED BY <1>13, <2>1, StartMove DEF Honest, Fresh, Owes, Held, Keeps
<1>14. ASSUME NEW reply \in Replies, Record(e, reply) PROVE Goal
  <2>1. UNCHANGED <<results, expired>>
    BY <1>14 DEF Record, RecordResult
  <2>2. CASE reply = "ok"
    BY <1>14, <1>a, <2>1, <2>2, StepFacts
    DEF Record, PCs, Terminal, Honest, Fresh, Owes, Held
  <2>3. CASE reply # "ok" /\ eng[e].ev \notin Terminal
    BY <1>14, <1>a, <2>1, <2>3, EndFacts
    DEF Record, PublishFails, Outcomes, Honest, Fresh, Owes
  <2>4. CASE reply # "ok" /\ eng[e].ev \in Terminal
    BY <1>14, <1>a, <2>1, <2>4, ResetFacts, RestsHonest
    DEF Record, PublishFails, PCs, Rests, Busy
  <2> QED BY <2>2, <2>3, <2>4
<1>15. CASE Restart(e)
  BY <1>15, RestartMove, RestsHonest DEF Restart, NoCommand, streamsVars, resultVars
<1>16. CASE BackendToken(e)
  <2>1. UNCHANGED <<results, expired>>
    BY <1>16 DEF BackendToken, NoCommand, streamsVars, resultVars
  <2> QED BY <1>16, <1>a, <2>1, BackendTokenMove DEF Honest, Fresh, Owes, Held
<1>17. ASSUME NEW outcome \in Outcomes, BackendEnds(e, outcome) PROVE Goal
  <2>1. UNCHANGED <<results, expired>>
    BY <1>17 DEF BackendEnds, NoCommand, streamsVars, resultVars
  <2> QED BY <1>17, <1>a, <2>1, EndFacts DEF BackendEnds, Honest, Fresh, Owes, Held
<1>18. CASE HeartbeatLost(e)
  <2>1. UNCHANGED <<results, expired>>
    BY <1>18 DEF HeartbeatLost, NoCommand, streamsVars, resultVars
  <2>2. /\ OnlyMoves(e) /\ SameJob(e)
        /\ eng'[e].pc = eng[e].pc /\ eng'[e].ev = eng[e].ev /\ eng'[e].sent = eng[e].sent
        /\ eng'[e].outcome = eng[e].outcome
    BY <1>18, <1>a, HeartbeatFacts DEF HeartbeatLost
  <2>3. Fresh(e)' /\ Held(e)' = Held(e) /\ (Owes(e)' => Owes(e))
    BY <2>2 DEF Fresh, Held, Owes
  <2> QED BY <2>1, <2>2, <2>3 DEF Honest
<1>19. CASE Crash(e)
  BY <1>19, CrashMove, RestsHonest DEF Crash, NoCommand, streamsVars, resultVars
<1> HIDE DEF Goal
<1> QED
  BY <1>1, <1>2, <1>3, <1>4, <1>5, <1>6, <1>7, <1>8, <1>9, <1>10,
     <1>11, <1>12, <1>13, <1>14, <1>15, <1>16, <1>17, <1>18, <1>19
  DEF Worker, EngineStep, BackendStep

\* XADD appends, and what was in a stream stays where it was.
LEMMA Appended ==
  ASSUME TypeOK, NEW r \in Requests, NEW event \in Event, NEW reply \in Replies,
         AddResult(r, event, reply)
  PROVE  /\ expired' = expired
         /\ \A q \in Requests :
              /\ Len(results[q]) <= Len(results'[q])
              /\ \A j \in 1..Len(results[q]) : results'[q][j] = results[q][j]
              /\ \A i \in 1..Len(results'[q]) :
                   i \in 1..Len(results[q]) \/ (q = r /\ results'[q][i] = event /\ i = Len(results[q]) + 1)
         /\ reply = "ok" =>
              Len(results[r]) + 1 \in 1..Len(results'[r])
              /\ results'[r][Len(results[r]) + 1] = event
<1>1. \A q \in Requests : results[q] \in Seq(Event) /\ Len(results[q]) \in Nat
  BY DEF TypeOK
<1>2. results' = IF Lands(reply) THEN [results EXCEPT ![r] = Append(@, event)] ELSE results
  BY DEF AddResult
<1>3. expired' = expired
  BY DEF AddResult
<1>4. CASE ~ Lands(reply)
  BY <1>1, <1>2, <1>3, <1>4 DEF Lands
<1>5. CASE Lands(reply)
  <2>1. \A q \in Requests : results'[q] = IF q = r THEN Append(results[r], event) ELSE results[q]
    BY <1>2, <1>5 DEF TypeOK
  <2>2. /\ Len(results'[r]) = Len(results[r]) + 1
        /\ \A j \in 1..Len(results[r]) : results'[r][j] = results[r][j]
        /\ results'[r][Len(results[r]) + 1] = event
    <3>1. /\ Len(Append(results[r], event)) = Len(results[r]) + 1
          /\ \A j \in 1..Len(results[r]) : Append(results[r], event)[j] = results[r][j]
          /\ Append(results[r], event)[Len(results[r]) + 1] = event
      BY <1>1
    <3>2. results'[r] = Append(results[r], event)
      BY <2>1
    <3> QED BY ONLY <3>1, <3>2
  <2>3. ASSUME NEW q \in Requests
        PROVE  /\ Len(results[q]) <= Len(results'[q])
               /\ \A j \in 1..Len(results[q]) : results'[q][j] = results[q][j]
               /\ \A i \in 1..Len(results'[q]) :
                    i \in 1..Len(results[q]) \/ (q = r /\ results'[q][i] = event /\ i = Len(results[q]) + 1)
    <3>1. CASE q = r
      <4>1. \A i \in 1..Len(results'[r]) : i \in 1..Len(results[r]) \/ i = Len(results[r]) + 1
        BY ONLY <1>1, <2>2, r \in Requests
      <4>2. Len(results[r]) <= Len(results'[r])
        BY ONLY <1>1, <2>2, r \in Requests
      <4> QED BY ONLY <2>2, <3>1, <4>1, <4>2
    <3>2. CASE q # r
      BY <1>1, <2>1, <3>2
    <3> QED BY <3>1, <3>2
  <2>4. Len(results[r]) + 1 \in 1..Len(results'[r]) /\ results'[r][Len(results[r]) + 1] = event
    BY ONLY <1>1, <2>2, r \in Requests
  <2> QED BY <1>3, <2>3, <2>4
<1> QED BY <1>4, <1>5

\* Chunks stay where they are when e appends an event.
LEMMA ChunksStay ==
  ASSUME TypeOK, NEW r \in Requests, NEW event \in Event, NEW reply \in Replies,
         AddResult(r, event, reply),
         NEW q \in Requests, NEW attempt, NEW n, Chunk(results[q], attempt, n)
  PROVE  Chunk(results'[q], attempt, n)
<1>1. PICK j \in 1..Len(results[q]) : IsChunk(results[q][j], attempt, n)
  BY DEF Chunk
<1>2. Len(results[q]) \in Nat /\ Len(results'[q]) \in Nat
  <2>1. results[q] \in Seq(Event)
    BY DEF TypeOK
  <2>2. results'[q] \in Seq(Event)
    BY <2>1 DEF AddResult, TypeOK
  <2> QED BY <2>1, <2>2
<1>3. j \in 1..Len(results'[q]) /\ results'[q][j] = results[q][j]
  BY <1>1, <1>2, Appended
<1> QED BY <1>1, <1>3 DEF Chunk
-----------------------------------------------------------------------------
\* e appends its event: the chunk it counted, or the completion of what it paid.
LEMMA WholeXAdd ==
  ASSUME TypeOK, JobsAssigned, WholeInv, NEW e \in Engines, NEW reply \in Replies,
         XAdd(e, reply)
  PROVE  WholeInv'
<1> DEFINE r == eng[e].job
           event == [kind |-> eng[e].ev, attempt |-> eng[e].att, n |-> eng[e].sent]
<1>a. eng \in [Engines -> EngineState] /\ eng[e] \in EngineState /\ eng[e].sent \in Nat
  BY DEF TypeOK, EngineState
<1>b. r \in Requests /\ eng[e].pc = "publish"
  BY DEF XAdd, JobsAssigned, Busy
<1>c. event \in Event
  BY <1>a DEF Event, EngineState
<1>d. AddResult(r, event, reply)
  BY DEF XAdd
<1>e. expired' = expired
  BY <1>b, <1>c, <1>d, Appended
<1> HIDE DEF r, event
<1>1. ASSUME NEW f \in Engines, f # e PROVE Fresh(f)' /\ Pays(f)'
  <2>1. eng'[f] = eng[f]
    BY <1>1, XAddMove DEF Rests, Keeps, OnlyMoves
  <2>2. Fresh(f)'
    BY <2>1 DEF WholeInv, Fresh
  <2>3. ASSUME Owes(f)', eng'[f].job \notin expired', NEW n \in (1..Held(f))'
        PROVE  Chunk(results'[eng[f].job], eng[f].att, n)
    <3>1. Chunk(results[eng[f].job], eng[f].att, n)
      BY <2>1, <2>3, <1>e DEF WholeInv, Pays, Owes, Held
    <3>2. eng[f].job \in Requests
      BY <2>1, <2>3 DEF JobsAssigned, Busy, Owes
    <3> QED BY <3>1, <3>2, <1>b, <1>c, <1>d, ChunksStay
  <2> QED BY <2>1, <2>2, <2>3 DEF Pays
<1>2. Fresh(e)' /\ Pays(e)'
  <2>1. CASE reply # "ok" /\ eng[e].ev \notin Terminal
    <3>1. eng'[e].pc = "release" /\ eng'[e].outcome = "err"
      BY <2>1, <1>a, EndFacts DEF XAdd, PublishFails, Outcomes
    <3> QED BY <3>1 DEF Fresh, Pays, Owes
  <2>2. CASE reply # "ok" /\ eng[e].ev \in Terminal
    <3>1. eng'[e].pc = "idle"
      BY <2>2, <1>a, ResetFacts DEF XAdd, PublishFails, PCs
    <3> QED BY <3>1 DEF Fresh, Pays, Owes
  <2>3. CASE reply = "ok"
    <3>1. /\ eng'[e].pc = "record" /\ eng'[e].ev = eng[e].ev /\ eng'[e].sent = eng[e].sent
          /\ SameJob(e)
      BY <2>3, <1>a, StepFacts DEF XAdd, PCs
    <3>2. Fresh(e)'
      BY <3>1 DEF Fresh
    <3>3. ASSUME eng[e].ev # "failed", r \notin expired, NEW n \in 1..eng[e].sent
          PROVE  Chunk(results'[r], eng[e].att, n)
      <4>1. CASE n \in 1..Held(e)
        <5>1. Chunk(results[r], eng[e].att, n)
          BY <3>3, <4>1, <1>b DEF WholeInv, Pays, Owes, r
        <5> QED BY <5>1, <1>b, <1>c, <1>d, ChunksStay
      <4>2. CASE n \notin 1..Held(e)
        <5>1. eng[e].ev = "token" /\ n = eng[e].sent
          BY <1>a, <1>b, <3>3, <4>2 DEF Held
        <5>2. IsChunk(event, eng[e].att, n)
          BY <5>1 DEF IsChunk, event
        <5>3. Len(results[r]) + 1 \in 1..Len(results'[r])
              /\ results'[r][Len(results[r]) + 1] = event
          BY <2>3, <1>b, <1>c, <1>d, Appended
        <5> QED BY <5>2, <5>3 DEF Chunk
      <4> QED BY <4>1, <4>2
    <3>4. Owes(e)' => eng[e].ev # "failed"
      BY <3>1 DEF Owes
    <3>5. Held(e)' = eng[e].sent
      BY <3>1 DEF Held
    <3>6. eng'[e].job = r /\ eng'[e].att = eng[e].att
      BY <3>1 DEF SameJob, r
    <3>7. ASSUME Owes(e)', eng'[e].job \notin expired', NEW n \in (1..Held(e))'
          PROVE  Chunk(results'[r], eng[e].att, n)
      BY <3>3, <3>4, <3>5, <3>6, <3>7, <1>e
    <3> QED BY <3>2, <3>6, <3>7 DEF Pays
  <2> QED BY <2>1, <2>2, <2>3
<1>3. CompletedIsWhole'
  <2> SUFFICES ASSUME NEW q \in Requests \ expired, NEW i \in 1..Len(results'[q]),
                      results'[q][i].kind = "completed", NEW n \in 1..results'[q][i].n
               PROVE  \E j \in 1..(i - 1) : IsChunk(results'[q][j], results'[q][i].attempt, n)
    BY <1>e DEF CompletedIsWhole, IsChunk
  <2>a. Len(results[q]) \in Nat
    BY DEF TypeOK
  <2>1. CASE i \in 1..Len(results[q])
    <3>1. results'[q][i] = results[q][i]
      BY <2>1, <1>b, <1>c, <1>d, Appended
    <3>2. PICK j \in 1..(i - 1) : IsChunk(results[q][j], results[q][i].attempt, n)
      BY <2>1, <3>1 DEF WholeInv, CompletedIsWhole, IsChunk
    <3>3. j \in 1..Len(results[q])
      BY <2>1, <2>a
    <3>4. results'[q][j] = results[q][j]
      BY <3>3, <1>b, <1>c, <1>d, Appended
    <3> QED BY <3>1, <3>2, <3>4
  <2>2. CASE i \notin 1..Len(results[q])
    <3>1. q = r /\ results'[q][i] = event /\ i = Len(results[q]) + 1
      BY <2>2, <1>b, <1>c, <1>d, Appended
    <3>2. eng[e].ev = "completed" /\ n \in 1..eng[e].sent /\ results'[q][i].attempt = eng[e].att
      BY <3>1 DEF event
    <3>3. Chunk(results[r], eng[e].att, n)
      BY <3>1, <3>2, <1>b DEF WholeInv, Pays, Owes, Held, r
    <3>4. PICK j \in 1..Len(results[q]) : IsChunk(results[q][j], eng[e].att, n)
      BY <3>1, <3>3 DEF Chunk
    <3>5. results'[q][j] = results[q][j]
      BY <1>b, <1>c, <1>d, Appended
    <3>6. j \in 1..(i - 1)
      BY <3>1, <2>a
    <3> QED BY <3>2, <3>4, <3>5, <3>6
  <2> QED BY <2>1, <2>2
<1> QED BY <1>1, <1>2, <1>3 DEF WholeInv

\* The steps of an engine preserve the invariant.
LEMMA WholeWorker ==
  ASSUME TypeOK, JobsAssigned, WholeInv, NEW e \in Engines, Worker(e)
  PROVE  WholeInv'
<1>1. ASSUME NEW reply \in Replies, XAdd(e, reply) PROVE WholeInv'
  BY <1>1, WholeXAdd
<1>2. CASE \A reply \in Replies : ~ XAdd(e, reply)
  <2>1. Honest(e) /\ results' = results /\ expired' = expired
    BY <1>2, WorkerHonest DEF WholeInv
  <2>2. ASSUME NEW f \in Engines, f # e PROVE Fresh(f)' /\ Pays(f)'
    <3>1. eng'[f] = eng[f]
      BY <2>1, <2>2 DEF Honest, OnlyMoves
    <3> QED BY <2>1, <3>1 DEF WholeInv, Fresh, Pays, Owes, Held
  <2>3. Fresh(e)' /\ Pays(e)'
    <3>1. CASE Held(e)' = 0
      BY <2>1, <3>1 DEF Honest, Pays
    <3>2. CASE Owes(e) /\ SameJob(e) /\ Held(e)' = Held(e)
      BY <2>1, <3>2 DEF Honest, WholeInv, Pays, SameJob
    <3> QED BY <2>1, <3>1, <3>2 DEF Honest, Pays
  <2>4. CompletedIsWhole'
    BY <2>1 DEF WholeInv, CompletedIsWhole
  <2> QED BY <2>2, <2>3, <2>4 DEF WholeInv
<1> QED BY <1>1, <1>2

\* So do those of the front end and of time: a stream that expires makes no promise.
LEMMA WholeOthers ==
  ASSUME TypeOK, JobsAssigned, WholeInv, NEW r \in Requests, FrontEnd(r) \/ Time(r)
  PROVE  WholeInv'
<1>1. /\ eng' = eng /\ expired \subseteq expired'
      /\ \A q \in Requests \ expired' : results'[q] = results[q]
  <2> USE DEF resultVars, TypeOK, engineVars
  <2>1. CASE FrontEnd(r)
    BY <2>1 DEF FrontEnd, Arrive, DispatchStep, Reject, Reserve, PublishJob, PublishStatus,
                CancelDispatch, Drop, ReserveQuota, AddJob, MarkQueued, CloseReservation,
                NoCommand, streamsVars
  <2>2. CASE ResultExpires(r) /\ UNCHANGED <<fe, engineVars>>
    BY <2>2 DEF ResultExpires
  <2>3. CASE \/ BecomeStale(r) \/ PassDeadline(r) \/ LeaseExpires(r)
             \/ (ReservationExpires(r) \/ StatusExpires(r)) /\ UNCHANGED <<fe, engineVars>>
    BY <2>3 DEF BecomeStale, GrowStale, PassDeadline, DeadlinePasses, LeaseExpires, LeaseLapses,
                ReservationExpires, StatusExpires
  <2> QED BY <2>1, <2>2, <2>3 DEF Time, KeyExpires
<1>2. \A e \in Engines : Fresh(e)'
  BY <1>1 DEF WholeInv, Fresh
<1>3. ASSUME NEW e \in Engines PROVE Pays(e)'
  <2>1. SUFFICES ASSUME Owes(e), eng[e].job \notin expired'
                 PROVE  \A n \in 1..Held(e) : Chunk(results'[eng[e].job], eng[e].att, n)
    BY <1>1 DEF Pays, Owes, Held
  <2>2. eng[e].job \in Requests
    BY <2>1 DEF JobsAssigned, Busy, Owes
  <2>3. results'[eng[e].job] = results[eng[e].job]
    BY <1>1, <2>1, <2>2
  <2>4. \A n \in 1..Held(e) : Chunk(results[eng[e].job], eng[e].att, n)
    BY <1>1, <2>1 DEF WholeInv, Pays
  <2> QED BY <2>3, <2>4
<1>4. CompletedIsWhole'
  BY <1>1 DEF WholeInv, CompletedIsWhole
<1> QED BY <1>2, <1>3, <1>4 DEF WholeInv

-----------------------------------------------------------------------------
\* What the engines owe holds in every reachable state.
THEOREM WholeInvariance == Spec => []WholeInv
<1>1. Init => WholeInv
  <2> SUFFICES ASSUME Init PROVE WholeInv
    OBVIOUS
  <2>1. \A e \in Engines : eng[e].pc = "idle"
    BY DEF Init, EngineInit, At
  <2>2. \A r \in Requests : results[r] = <<>>
    BY DEF Init, StreamsInit
  <2>3. CompletedIsWhole
    BY <2>2 DEF CompletedIsWhole
  <2> QED BY <2>1, <2>3 DEF WholeInv, Fresh, Pays, Owes
<1>2. IInv /\ WholeInv /\ [Next]_vars => WholeInv'
  <2> SUFFICES ASSUME IInv, WholeInv, [Next]_vars PROVE WholeInv'
    OBVIOUS
  <2>0. TypeOK /\ JobsAssigned
    BY DEF IInv
  <2>1. CASE UNCHANGED vars
    <3>1. UNCHANGED <<results, expired, eng>>
      BY <2>1 DEF vars, streamsVars, resultVars, engineVars
    <3> QED BY <3>1 DEF WholeInv, Fresh, Pays, Owes, Held, CompletedIsWhole
  <2>2. CASE Next
    BY <2>0, <2>2, WholeWorker, WholeOthers DEF Next
  <2> QED BY <2>1, <2>2
<1> QED BY <1>1, <1>2, Invariance, PTL DEF Spec

(***************************************************************************)
(* A completed event follows every chunk of its attempt, although leases   *)
(* lapse under running attempts, two engines write to one stream at once   *)
(* and replies of publish_result are lost.                                 *)
(***************************************************************************)
THEOREM CompletionsWhole == Spec => []CompletedIsWhole
<1>1. WholeInv => CompletedIsWhole
  BY DEF WholeInv
<1> QED BY <1>1, WholeInvariance, PTL
=============================================================================
