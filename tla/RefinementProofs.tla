-------------------------- MODULE RefinementProofs --------------------------
(***************************************************************************)
(* The data plane implements JobQueue and ResultLog and, while heartbeats  *)
(* keep their leases, AttemptLog; with its clients it implements           *)
(* Subscription.  Proofs for every number of requests and engines and      *)
(* every bound.                                                            *)
(*                                                                         *)
(* JobQueue: one lemma per action of an engine, and one each for the front *)
(* end and for time, that the step is a step of the abstract queue or      *)
(* unseen.  QueueInv says what the mapping needs besides IInv: failures    *)
(* stay within their bounds, an engine at rest holds no job, and a front   *)
(* end that may still send its job has not sent it.                        *)
(*                                                                         *)
(* AttemptLog: BoundInv bounds the attempt ids of a request; LogInv says   *)
(* what each engine's attempt has written to its result stream so far, so  *)
(* that the engine's next XADD is one the log allows.                      *)
(*                                                                         *)
(* ResultLog: the part of LogInv that speaks of one engine alone           *)
(* (LocalInv) and WholeInv hold without leases too, and are enough.        *)
(*                                                                         *)
(* Subscription: a step of the data plane is an event of ResultLog, a      *)
(* change of the status, or nothing a client sees; what SubscriptionProofs *)
(* shows of clients then holds at the data plane (ClientsServed).          *)
(***************************************************************************)
EXTENDS DataPlaneProofs, EndToEnd, FiniteSetTheorems

\* What the refinement of JobQueue needs besides IInv.
QueueInv ==
  /\ faults <= MaxFaults /\ crashes <= MaxCrashes
  /\ \A e \in Engines : ~ Busy(e) => eng[e].job = NoJob
  /\ \A i \in 1..Len(queue) : fe[queue[i]] \notin {"idle", "reserved"}

\* The abstract position of an engine, by its pc.
LEMMA StageOf ==
  ASSUME NEW e \in Engines
  PROVE  /\ eng[e].pc \in {"idle", "reclaim", "begin", "down"} => Stage(e) = eng[e].pc
         /\ eng[e].pc \in {"status", "lease"} => Stage(e) = "open"
         /\ Executing(e) => Stage(e) = "run"
         /\ eng[e].pc \in {"cancel", "release", "settle", "ack"} => Stage(e) = "finish"
         /\ Ending(e) => Stage(e) = "finish"
BY DEF Stage, Executing, Ending

\* The same after a step.
LEMMA StageOfNext ==
  ASSUME NEW e \in Engines
  PROVE  /\ eng'[e].pc \in {"idle", "reclaim", "begin", "down"} => Stage(e)' = eng'[e].pc
         /\ eng'[e].pc \in {"status", "lease"} => Stage(e)' = "open"
         /\ Executing(e)' => Stage(e)' = "run"
         /\ eng'[e].pc \in {"cancel", "release", "settle", "ack"} => Stage(e)' = "finish"
         /\ Ending(e)' => Stage(e)' = "finish"
BY DEF Stage, Executing, Ending

\* A step of one engine changes the work of that engine alone.
LEMMA WorkGoes ==
  ASSUME NEW e \in Engines, OnlyMoves(e), NEW pc, NEW job, Stage(e)' = pc, eng'[e].job = job
  PROVE  Jobs!Goes(e, Jobs!Holding(pc, job))
<1>1. \A f \in Engines : f # e => Stage(f)' = Stage(f) /\ eng'[f].job = eng[f].job
  BY DEF OnlyMoves, Stage, Executing
<1> QED BY <1>1 DEF Jobs!Goes, Jobs!Holding

\* A step of the abstract queue, or none.
JobStep == Jobs!JobNext \/ UNCHANGED Jobs!jobVars

\* A step without a failed reply or a kill, and one with.
NoFailure == late' = late /\ faults' = faults /\ crashes' = crashes
Failure ==
  /\ late' = late
  /\ faults + crashes < MaxFaults + MaxCrashes /\ faults' + crashes' = faults + crashes + 1
  /\ faults' <= MaxFaults /\ crashes' <= MaxCrashes

\* A reply costs a failure, or nothing.
LEMMA ReplyCosts ==
  ASSUME TypeOK, QueueInv, NEW reply \in Replies, Replied(reply), late' = late,
         crashes' = crashes
  PROVE  (reply = "ok" => NoFailure) /\ (reply # "ok" => Failure)
BY BoundsAssumption, MaxFaultsAssumption DEF TypeOK, QueueInv, Replied, NoFailure, Failure

\* The abstract actions' bookkeeping of failures.
LEMMA WorksOrFails ==
  (NoFailure => Jobs!Works) /\ (Failure => Jobs!Fails)
BY DEF NoFailure, Failure, Jobs!Works, Jobs!Fails

\* A step of e keeps QueueInv.
LEMMA QueueKept ==
  ASSUME QueueInv, NEW e \in Engines, OnlyMoves(e), Busy(e)' \/ eng'[e].job = NoJob,
         queue' = queue, fe' = fe, NoFailure \/ Failure
  PROVE  QueueInv'
<1>1. \A f \in Engines : ~ Busy(f)' => eng'[f].job = NoJob
  BY DEF QueueInv, OnlyMoves, Busy
<1> QED BY <1>1 DEF QueueInv, NoFailure, Failure

\* A step of e that the abstract engine does not see.
LEMMA Unseen ==
  ASSUME NEW e \in Engines, OnlyMoves(e), Stage(e)' = Stage(e), eng'[e].job = eng[e].job,
         UNCHANGED queueVars, NoFailure
  PROVE  JobStep
<1>1. \A f \in Engines : Stage(f)' = Stage(f) /\ eng'[f].job = eng[f].job
  BY DEF OnlyMoves, Stage, Executing
<1>2. UNCHANGED Jobs!jobVars
  BY <1>1 DEF Jobs!jobVars, Jobs!queueVars, queueVars, NoFailure
<1> QED BY <1>2 DEF JobStep

\* The entries XAUTOCLAIM looks at are the same in both specifications.
LEMMA SameCardinality == \A S : Jobs!Cardinality(S) = Cardinality(S)
BY DEF Jobs!Cardinality, Cardinality

\* What XAUTOCLAIM finds is the same in both specifications.
LEMMA SameScan ==
  /\ Jobs!Scanned = Scanned
  /\ \A r : Jobs!FirstStale(r) <=> FirstStale(r)
  /\ Jobs!NoneStale <=> NoneStale
<1>1. \A i : Jobs!PendingBefore(i) = PendingBefore(i)
  BY DEF Jobs!PendingBefore, PendingBefore
<1>2. Jobs!Scanned = Scanned
  BY <1>1, SameCardinality DEF Jobs!Scanned, Scanned
<1> QED BY <1>1, <1>2 DEF Jobs!FirstStale, FirstStale, Jobs!NoneStale, NoneStale

\* e is left without its job.
LEMMA Leaves ==
  ASSUME NEW e \in Engines, OnlyMoves(e), NEW pc \in {"idle", "down"},
         eng'[e].pc = pc, eng'[e].job = NoJob
  PROVE  Jobs!Goes(e, Jobs!Without(pc))
<1>1. Stage(e)' = pc
  BY StageOfNext
<1> QED BY <1>1, WorkGoes DEF Jobs!Without

\* e goes on with its job.
LEMMA GoesOn ==
  ASSUME NEW e \in Engines, OnlyMoves(e), eng'[e].job = eng[e].job,
         NEW from, NEW to, Stage(e) = from, Stage(e)' = to
  PROVE  Jobs!Moves(e, from, to)
<1>1. PICK job : job = eng[e].job
  OBVIOUS
<1>2. Jobs!Goes(e, Jobs!Holding(to, job))
  BY <1>1, WorkGoes
<1> QED BY <1>1, <1>2 DEF Jobs!Moves, Jobs!Goes, Jobs!Holding

\* A failure that leaves e without its job; the command it waited for may have been executed.
LEMMA GivesUp ==
  ASSUME NEW e \in Engines, OnlyMoves(e), eng'[e].job = NoJob, eng'[e].pc \in {"idle", "down"},
         Failure,
         \/ UNCHANGED queueVars
         \/ eng[e].pc = "idle" /\ \E r \in Requests : Undelivered(r) /\ Deliver(r)
         \/ eng[e].pc = "reclaim" /\ \E r \in Requests : FirstStale(r) /\ Claim(r)
         \/ eng[e].pc = "ack" /\ Remove(eng[e].job)
  PROVE  JobStep
<1>1. PICK pc \in {"idle", "down"} : eng'[e].pc = pc
  OBVIOUS
<1>2. \E q \in {"idle", "down"} : Jobs!Goes(e, Jobs!Without(q))
  BY <1>1, Leaves
<1>3. Jobs!Fails
  BY WorksOrFails
<1>4. \/ UNCHANGED Jobs!queueVars
      \/ Stage(e) = "idle" /\ \E r \in Requests : Jobs!Undelivered(r) /\ Jobs!Deliver(r)
      \/ Stage(e) = "reclaim" /\ \E r \in Requests : Jobs!FirstStale(r) /\ Jobs!Claim(r)
      \/ Stage(e) = "finish" /\ Jobs!Remove(eng[e].job)
  <2>1. CASE UNCHANGED queueVars
    BY <2>1 DEF Jobs!queueVars, queueVars
  <2>2. CASE eng[e].pc = "idle" /\ \E r \in Requests : Undelivered(r) /\ Deliver(r)
    BY <2>2, StageOf DEF Undelivered, Deliver, Jobs!Undelivered, Jobs!Deliver
  <2>3. CASE eng[e].pc = "reclaim" /\ \E r \in Requests : FirstStale(r) /\ Claim(r)
    BY <2>3, StageOf, SameScan DEF Claim, Jobs!Claim
  <2>4. CASE eng[e].pc = "ack" /\ Remove(eng[e].job)
    BY <2>4, StageOf DEF Remove, Jobs!Remove
  <2> QED BY <2>1, <2>2, <2>3, <2>4
<1>5. Jobs!Interrupted(e)
  BY <1>2, <1>3, <1>4 DEF Jobs!Interrupted
<1> QED BY <1>5 DEF JobStep, Jobs!JobNext

-----------------------------------------------------------------------------
(* The loop of main.                                                       *)

\* NextJob is Jobs!Take, or an interrupted read of the group.
LEMMA NextJobRefines ==
  ASSUME TypeOK, QueueInv, NEW e \in Engines, NEW reply \in Replies, NextJob(e, reply),
         fe' = fe
  PROVE  JobStep /\ QueueInv'
<1>1. PICK r \in Requests :
        /\ ReadGroup(r, reply)
        /\ IF reply = "ok" THEN Begin(e, r)
           ELSE \E pc \in {"idle", "down"} : Reset(e, pc)
  BY DEF NextJob
<1>2. eng[e].pc = "idle" /\ eng \in [Engines -> EngineState]
  BY DEF NextJob, TypeOK
<1>3. (reply = "ok" => NoFailure) /\ (reply # "ok" => Failure)
  BY <1>1, ReplyCosts DEF NextJob, ReadGroup
<1>q. queue' = queue
  BY <1>1 DEF ReadGroup, Deliver, queueVars
<1>4. CASE reply = "ok"
  <2>1. OnlyMoves(e) /\ eng'[e].pc = "begin" /\ eng'[e].job = r
    BY <1>1, <1>2, <1>4, BeginFacts
  <2>2. Jobs!Goes(e, Jobs!Holding("begin", r))
    BY <2>1, StageOfNext, WorkGoes
  <2>3. Jobs!Undelivered(r) /\ Jobs!Deliver(r)
    BY <1>1, <1>4 DEF ReadGroup, Lands, Undelivered, Deliver, Jobs!Undelivered, Jobs!Deliver
  <2>4. Stage(e) = "idle" /\ Jobs!Works
    BY <1>2, <1>3, <1>4, StageOf, WorksOrFails
  <2>5. Jobs!Take(e)
    BY <2>2, <2>3, <2>4 DEF Jobs!Take
  <2>6. QueueInv'
    BY <1>3, <1>4, <1>q, <2>1, QueueKept DEF Busy
  <2> QED BY <2>5, <2>6 DEF JobStep, Jobs!JobNext, Jobs!EngineStep
<1>5. CASE reply # "ok"
  <2>1. OnlyMoves(e) /\ eng'[e].job = NoJob /\ eng'[e].pc \in {"idle", "down"}
    BY <1>1, <1>2, <1>5, ResetFacts DEF PCs
  <2>2. UNCHANGED queueVars \/ (Undelivered(r) /\ Deliver(r))
    BY <1>1 DEF ReadGroup
  <2>3. QueueInv'
    BY <1>3, <1>5, <1>q, <2>1, QueueKept
  <2> QED BY <1>2, <1>3, <1>5, <2>1, <2>2, <2>3, GivesUp
<1> QED BY <1>4, <1>5

\* NextNone is Jobs!NothingNew, or interrupted.
LEMMA NextNoneRefines ==
  ASSUME TypeOK, QueueInv, NEW e \in Engines, NEW reply \in Replies, NextNone(e, reply),
         fe' = fe
  PROVE  JobStep /\ QueueInv'
<1>1. eng[e].pc = "idle" /\ eng \in [Engines -> EngineState] /\ eng[e].job = NoJob
  BY DEF NextNone, TypeOK, QueueInv, Busy
<1>2. (reply = "ok" => NoFailure) /\ (reply # "ok" => Failure) /\ UNCHANGED queueVars
  BY ReplyCosts DEF NextNone, ReadOnly
<1>3. CASE reply = "ok"
  <2>1. OnlyMoves(e) /\ eng'[e].job = NoJob /\ eng'[e].pc = "reclaim"
    BY <1>1, <1>3, StepFacts DEF NextNone, PCs, SameJob
  <2>2. Jobs!Moves(e, "idle", "reclaim")
    BY <1>1, <2>1, GoesOn, StageOf, StageOfNext
  <2>3. UNCHANGED Jobs!queueVars /\ Jobs!Works /\ delivered = Len(queue)
    BY <1>2, <1>3, WorksOrFails DEF NextNone, queueVars, Jobs!queueVars
  <2>4. Jobs!NothingNew(e)
    BY <2>2, <2>3 DEF Jobs!NothingNew
  <2>5. QueueInv'
    BY <1>2, <1>3, <2>1, QueueKept DEF queueVars
  <2> QED BY <2>4, <2>5 DEF JobStep, Jobs!JobNext, Jobs!EngineStep
<1>4. CASE reply # "ok"
  <2>1. OnlyMoves(e) /\ eng'[e].job = NoJob /\ eng'[e].pc \in {"idle", "down"}
    BY <1>1, <1>4, ResetFacts DEF NextNone, PCs
  <2>2. QueueInv'
    BY <1>2, <1>4, <2>1, QueueKept DEF queueVars
  <2> QED BY <1>2, <1>4, <2>1, <2>2, GivesUp
<1> QED BY <1>3, <1>4

\* Reclaim is Jobs!Recover of the same entry, or interrupted.
LEMMA ReclaimRefines ==
  ASSUME TypeOK, QueueInv, NEW e \in Engines, NEW reply \in Replies, Reclaim(e, reply),
         fe' = fe
  PROVE  JobStep /\ QueueInv'
<1>1. PICK r \in Requests :
        /\ AutoClaim(r, reply)
        /\ IF reply = "ok" THEN Begin(e, r) ELSE Reset(e, "down")
  BY DEF Reclaim
<1>2. eng[e].pc = "reclaim" /\ eng \in [Engines -> EngineState]
  BY DEF Reclaim, TypeOK
<1>3. (reply = "ok" => NoFailure) /\ (reply # "ok" => Failure)
  BY <1>1, ReplyCosts DEF Reclaim, AutoClaim
<1>q. queue' = queue
  BY <1>1 DEF AutoClaim, Claim, queueVars
<1>4. CASE reply = "ok"
  <2>1. OnlyMoves(e) /\ eng'[e].pc = "begin" /\ eng'[e].job = r
    BY <1>1, <1>2, <1>4, BeginFacts
  <2>2. Jobs!Goes(e, Jobs!Holding("begin", r))
    BY <2>1, StageOfNext, WorkGoes
  <2>3. Jobs!FirstStale(r) /\ Jobs!Claim(r)
    BY <1>1, <1>4, SameScan DEF AutoClaim, Lands, Claim, Jobs!Claim
  <2>4. Stage(e) = "reclaim" /\ Jobs!Works
    BY <1>2, <1>3, <1>4, StageOf, WorksOrFails
  <2>5. Jobs!Recover(e)
    BY <2>2, <2>3, <2>4 DEF Jobs!Recover
  <2>6. QueueInv'
    BY <1>3, <1>4, <1>q, <2>1, QueueKept DEF Busy
  <2> QED BY <2>5, <2>6 DEF JobStep, Jobs!JobNext, Jobs!EngineStep
<1>5. CASE reply # "ok"
  <2>1. OnlyMoves(e) /\ eng'[e].job = NoJob /\ eng'[e].pc \in {"idle", "down"}
    BY <1>1, <1>2, <1>5, ResetFacts DEF PCs
  <2>2. UNCHANGED queueVars \/ (FirstStale(r) /\ Claim(r))
    BY <1>1 DEF AutoClaim
  <2>3. QueueInv'
    BY <1>3, <1>5, <1>q, <2>1, QueueKept
  <2> QED BY <1>2, <1>3, <1>5, <2>1, <2>2, <2>3, GivesUp
<1> QED BY <1>4, <1>5

\* ReclaimNone is Jobs!NothingStale, or interrupted.
LEMMA ReclaimNoneRefines ==
  ASSUME TypeOK, QueueInv, NEW e \in Engines, NEW reply \in Replies, ReclaimNone(e, reply),
         fe' = fe
  PROVE  JobStep /\ QueueInv'
<1>1. /\ OnlyMoves(e) /\ eng'[e].job = NoJob /\ eng[e].pc = "reclaim"
      /\ eng'[e].pc = (IF reply = "ok" THEN "idle" ELSE "down")
  BY ResetFacts DEF ReclaimNone, TypeOK, PCs
<1>2. (reply = "ok" => NoFailure) /\ (reply # "ok" => Failure) /\ UNCHANGED queueVars
  BY ReplyCosts DEF ReclaimNone, ReadOnly
<1>q. QueueInv'
  BY <1>1, <1>2, QueueKept DEF queueVars
<1>3. CASE reply = "ok"
  <2>1. eng[e].job = NoJob
    BY <1>1 DEF QueueInv, Busy
  <2>2. Jobs!Moves(e, "reclaim", "idle")
    BY <1>1, <1>3, <2>1, GoesOn, StageOf, StageOfNext
  <2>3. Jobs!NoneStale
    BY SameScan DEF ReclaimNone
  <2>4. UNCHANGED Jobs!queueVars /\ Jobs!Works
    BY <1>2, <1>3, WorksOrFails DEF queueVars, Jobs!queueVars
  <2>5. Jobs!NothingStale(e)
    BY <2>2, <2>3, <2>4 DEF Jobs!NothingStale
  <2> QED BY <1>q, <2>5 DEF JobStep, Jobs!JobNext, Jobs!EngineStep
<1>4. CASE reply # "ok"
  BY <1>1, <1>2, <1>4, <1>q, GivesUp
<1> QED BY <1>3, <1>4, <1>q

\* Ack removes the entry, and the abstract engine is without a job again.
LEMMA AckRefines ==
  ASSUME TypeOK, QueueInv, NEW e \in Engines, NEW reply \in Replies, Ack(e, reply),
         fe' = fe
  PROVE  JobStep /\ QueueInv'
<1>1. /\ OnlyMoves(e) /\ eng'[e].job = NoJob /\ eng[e].pc = "ack"
      /\ eng'[e].pc = (IF reply = "ok" THEN "idle" ELSE "down")
  BY ResetFacts DEF Ack, TypeOK, PCs
<1>2. /\ (reply = "ok" => NoFailure) /\ (reply # "ok" => Failure)
      /\ IF Lands(reply) THEN Remove(eng[e].job) ELSE UNCHANGED queueVars
  BY ReplyCosts DEF Ack, Acknowledge
<1>q. QueueInv'
  <2>1. queue' = queue
    BY <1>2 DEF Remove, queueVars
  <2> QED BY <1>1, <1>2, <2>1, QueueKept
<1>3. CASE reply = "ok"
  <2>1. Jobs!Goes(e, Jobs!Without("idle")) /\ Stage(e) = "finish"
    BY <1>1, <1>3, Leaves, StageOf
  <2>2. Jobs!Remove(eng[e].job)
    BY <1>2, <1>3 DEF Lands, Remove, Jobs!Remove
  <2>3. Jobs!Works
    BY <1>2, <1>3, WorksOrFails
  <2>4. Jobs!Acknowledge(e)
    BY <2>1, <2>2, <2>3 DEF Jobs!Acknowledge
  <2> QED BY <1>q, <2>4 DEF JobStep, Jobs!JobNext, Jobs!EngineStep
<1>4. CASE reply # "ok"
  BY <1>1, <1>2, <1>4, <1>q, GivesUp
<1> QED BY <1>3, <1>4, <1>q

-----------------------------------------------------------------------------
(* run_job.                                                                *)

\* What an action of run_job that uses no entry does to the rest.
Silent == queue' = queue /\ delivered' = delivered /\ pel' = pel /\ stale' = stale

\* CheckDeadline decides as the abstract engine does, by the same deadline.
LEMMA CheckDeadlineRefines ==
  ASSUME TypeOK, QueueInv, NEW e \in Engines, CheckDeadline(e), fe' = fe
  PROVE  JobStep /\ QueueInv'
<1>1. PICK to : to = IF eng[e].job \in late THEN "finish" ELSE "open"
  OBVIOUS
<1>2. /\ OnlyMoves(e) /\ eng'[e].job = eng[e].job /\ eng[e].pc = "begin"
      /\ eng'[e].pc = IF eng[e].job \in late THEN "cancel" ELSE "status"
  BY StepFacts DEF CheckDeadline, TypeOK, PCs, SameJob
<1>3. Stage(e) = "begin" /\ Stage(e)' = to
  BY <1>1, <1>2, StageOf, StageOfNext
<1>4. Jobs!Moves(e, "begin", to)
  BY <1>2, <1>3, GoesOn
<1>5. Silent /\ NoFailure
  BY DEF CheckDeadline, NoCommand, streamsVars, queueVars, Silent, NoFailure
<1>6. Jobs!CheckDeadline(e)
  BY <1>1, <1>4, <1>5, WorksOrFails DEF Jobs!CheckDeadline, Jobs!queueVars, Silent
<1>7. QueueInv'
  BY <1>2, <1>5, QueueKept DEF Busy, Silent
<1> QED BY <1>6, <1>7 DEF JobStep, Jobs!JobNext, Jobs!EngineStep

\* A command of run_job fails, and the job is left pending.
LEMMA ErrRefines ==
  ASSUME TypeOK, QueueInv, NEW e \in Engines, Reset(e, "idle"), Silent, Failure, fe' = fe
  PROVE  JobStep /\ QueueInv'
<1>1. OnlyMoves(e) /\ eng'[e].job = NoJob /\ eng'[e].pc = "idle"
  BY ResetFacts DEF TypeOK, PCs
<1>2. QueueInv'
  BY <1>1, QueueKept DEF Silent
<1> QED BY <1>1, <1>2, GivesUp DEF Silent, queueVars

\* The job is on its way to its acknowledgement and stays there.
LEMMA FinishingRefines ==
  ASSUME QueueInv, NEW e \in Engines, OnlyMoves(e), eng'[e].job = eng[e].job,
         eng[e].pc \in {"cancel", "release", "settle", "ack"} \/ Ending(e),
         eng'[e].pc \in {"cancel", "release", "settle", "ack"} \/ Ending(e)',
         Silent, NoFailure, fe' = fe
  PROVE  JobStep /\ QueueInv'
<1>1. Stage(e)' = Stage(e)
  BY StageOf, StageOfNext
<1>2. QueueInv'
  BY QueueKept DEF Silent, Busy, Ending
<1> QED BY <1>1, <1>2, Unseen DEF Silent, queueVars

\* CancelLate is unseen, or gives the job up.
LEMMA CancelLateRefines ==
  ASSUME TypeOK, QueueInv, NEW e \in Engines, NEW reply \in Replies, CancelLate(e, reply), fe' = fe
  PROVE  JobStep /\ QueueInv'
<1>1. (reply = "ok" => NoFailure) /\ (reply # "ok" => Failure) /\ Silent
  BY ReplyCosts DEF CancelLate, CloseReservation, queueVars, Silent
<1>2. CASE reply # "ok"
  BY <1>1, <1>2, ErrRefines DEF CancelLate
<1>3. CASE reply = "ok"
  <2>1. /\ OnlyMoves(e) /\ eng'[e].job = eng[e].job /\ eng[e].pc = "cancel"
        /\ eng'[e].pc = "publish" /\ eng'[e].ev = "failed"
    BY <1>3, PublishFacts DEF CancelLate, TypeOK, Kinds, SameJob
  <2> QED BY <1>1, <1>3, <2>1, FinishingRefines DEF Ending, Terminal
<1> QED BY <1>2, <1>3

\* CheckStatus goes on to the lease, to the acknowledgement, or gives up.
LEMMA CheckStatusRefines ==
  ASSUME TypeOK, QueueInv, NEW e \in Engines, NEW reply \in Replies, CheckStatus(e, reply), fe' = fe
  PROVE  JobStep /\ QueueInv'
<1>1. (reply = "ok" => NoFailure) /\ (reply # "ok" => Failure) /\ Silent
  BY ReplyCosts DEF CheckStatus, ReadOnly, queueVars, Silent
<1>2. CASE reply # "ok"
  BY <1>1, <1>2, ErrRefines DEF CheckStatus
<1>3. CASE reply = "ok"
  <2>1. /\ OnlyMoves(e) /\ eng'[e].job = eng[e].job /\ eng[e].pc = "status"
        /\ eng'[e].pc \in {"ack", "lease"}
    BY <1>3, StepFacts DEF CheckStatus, TypeOK, PCs, SameJob
  <2>2. QueueInv'
    BY <1>1, <1>3, <2>1, QueueKept DEF Silent, Busy
  <2>3. CASE eng'[e].pc = "lease"
    <3>1. Stage(e)' = Stage(e)
      BY <2>1, <2>3, StageOf, StageOfNext
    <3> QED BY <1>1, <1>3, <2>1, <2>2, <3>1, Unseen DEF Silent, queueVars
  <2>4. CASE eng'[e].pc = "ack"
    <3>1. Jobs!Moves(e, "open", "finish")
      BY <2>1, <2>4, StageOf, StageOfNext, GoesOn
    <3>2. Jobs!Decide(e)
      BY <1>1, <1>3, <3>1, WorksOrFails DEF Jobs!Decide, Jobs!queueVars, Silent
    <3> QED BY <2>2, <3>2 DEF JobStep, Jobs!JobNext, Jobs!EngineStep
  <2> QED BY <2>1, <2>3, <2>4
<1> QED BY <1>2, <1>3

\* Acquire runs the job, or leaves it pending.
LEMMA AcquireRefines ==
  ASSUME TypeOK, JobsAssigned, QueueInv, NEW e \in Engines, NEW reply \in Replies,
         Acquire(e, reply), fe' = fe
  PROVE  JobStep /\ QueueInv'
<1>1. (reply = "ok" => NoFailure) /\ (reply # "ok" => Failure) /\ Silent
  BY ReplyCosts DEF Acquire, AcquireLease, queueVars, Silent
<1>a. eng[e].pc = "lease" /\ eng[e].job \in Requests
  BY DEF Acquire, JobsAssigned, Busy
<1>2. CASE reply # "ok"
  BY <1>1, <1>2, ErrRefines DEF Acquire
<1>3. CASE reply = "ok" /\ lease[eng[e].job] = 0
  <2>1. attempts[eng[e].job] + 1 \in Nat
    BY <1>a DEF TypeOK
  <2>2. OnlyMoves(e) /\ eng'[e].job = eng[e].job /\ eng'[e].pc = "execute"
    BY <1>3, <2>1, AcquireFacts DEF Acquire, TypeOK
  <2>3. Executing(e)'
    BY <2>2 DEF Executing
  <2>4. Jobs!Moves(e, "open", "run")
    BY <1>a, <2>2, <2>3, StageOf, StageOfNext, GoesOn
  <2>5. Jobs!Decide(e)
    BY <1>1, <1>3, <2>4, WorksOrFails DEF Jobs!Decide, Jobs!queueVars, Silent
  <2>6. QueueInv'
    BY <1>1, <1>3, <2>2, QueueKept DEF Silent, Busy
  <2> QED BY <2>5, <2>6 DEF JobStep, Jobs!JobNext, Jobs!EngineStep
<1>4. CASE reply = "ok" /\ lease[eng[e].job] # 0
  <2>1. OnlyMoves(e) /\ eng'[e].job = NoJob /\ eng'[e].pc = "idle"
    BY <1>4, ResetFacts DEF Acquire, TypeOK, PCs
  <2>2. Stage(e) = "open" /\ Jobs!Goes(e, Jobs!Without("idle"))
    BY <1>a, <2>1, StageOf, Leaves
  <2>3. Jobs!Decide(e)
    BY <1>1, <1>4, <2>2, WorksOrFails DEF Jobs!Decide, Jobs!queueVars, Silent
  <2>4. QueueInv'
    BY <1>1, <1>4, <2>1, QueueKept DEF Silent
  <2> QED BY <2>3, <2>4 DEF JobStep, Jobs!JobNext, Jobs!EngineStep
<1> QED BY <1>2, <1>3, <1>4

\* Release is unseen, or gives the job up.
LEMMA ReleaseRefines ==
  ASSUME TypeOK, QueueInv, NEW e \in Engines, NEW reply \in Replies, Release(e, reply), fe' = fe
  PROVE  JobStep /\ QueueInv'
<1>1. (reply = "ok" => NoFailure) /\ (reply # "ok" => Failure) /\ Silent
  BY ReplyCosts DEF Release, ReleaseLease, queueVars, Silent
<1>2. CASE reply # "ok"
  BY <1>1, <1>2, ErrRefines DEF Release
<1>3. CASE reply = "ok"
  <2>1. /\ OnlyMoves(e) /\ eng'[e].job = eng[e].job /\ eng[e].pc = "release"
        /\ eng'[e].pc = "settle"
    BY <1>3, StepFacts DEF Release, TypeOK, PCs, SameJob
  <2> QED BY <1>1, <1>3, <2>1, FinishingRefines
<1> QED BY <1>2, <1>3

\* Settle is unseen, or gives the job up.
LEMMA SettleRefines ==
  ASSUME TypeOK, QueueInv, NEW e \in Engines, NEW reply \in Replies, Settle(e, reply), fe' = fe
  PROVE  JobStep /\ QueueInv'
<1>1. (reply = "ok" => NoFailure) /\ (reply # "ok" => Failure) /\ Silent
  BY ReplyCosts DEF Settle, CloseReservation, queueVars, Silent
<1>2. CASE reply # "ok"
  BY <1>1, <1>2, ErrRefines DEF Settle
<1>3. CASE reply = "ok"
  <2>1. /\ OnlyMoves(e) /\ eng'[e].job = eng[e].job /\ eng[e].pc = "settle"
        /\ eng'[e].pc = "publish" /\ eng'[e].ev \in Terminal
    BY <1>3, PublishFacts DEF Settle, TypeOK, Kinds, Terminal, SameJob
  <2> QED BY <1>1, <1>3, <2>1, FinishingRefines DEF Ending
<1> QED BY <1>2, <1>3

-----------------------------------------------------------------------------
(* execute_attempt and publish_result.                                     *)

\* The attempt goes on.
LEMMA RunningRefines ==
  ASSUME QueueInv, NEW e \in Engines, OnlyMoves(e), eng'[e].job = eng[e].job,
         Executing(e), Executing(e)', Silent, NoFailure, fe' = fe
  PROVE  JobStep /\ QueueInv'
<1>1. Stage(e)' = Stage(e)
  BY StageOf, StageOfNext
<1>2. QueueInv'
  BY QueueKept DEF Silent, Busy, Executing
<1> QED BY <1>1, <1>2, Unseen DEF Silent, queueVars

\* The attempt ends, by itself or with a failed command.
LEMMA EndRefines ==
  ASSUME TypeOK, QueueInv, NEW e \in Engines, NEW outcome \in Outcomes, EndAttempt(e, outcome),
         Executing(e), Silent, NoFailure \/ Failure, fe' = fe
  PROVE  JobStep /\ QueueInv'
<1>1. OnlyMoves(e) /\ eng'[e].job = eng[e].job /\ eng'[e].pc = "release"
  BY EndFacts DEF TypeOK, SameJob
<1>2. Jobs!Moves(e, "run", "finish")
  BY <1>1, StageOf, StageOfNext, GoesOn
<1>3. Jobs!AttemptEnds(e)
  BY <1>2, WorksOrFails DEF Jobs!AttemptEnds, Jobs!Replied, Jobs!queueVars, Silent
<1>4. QueueInv'
  BY <1>1, QueueKept DEF Silent, Busy
<1> QED BY <1>3, <1>4 DEF JobStep, Jobs!JobNext

\* The steps of execute_attempt: the job runs until the attempt ends.
LEMMA AttemptRefines ==
  ASSUME TypeOK, QueueInv, NEW e \in Engines, fe' = fe,
         \/ Refuse(e) \/ Start(e) \/ BackendStep(e) \/ HeartbeatLost(e)
  PROVE  JobStep /\ QueueInv'
<1>1. Silent /\ NoFailure
  BY DEF Refuse, Start, BackendStep, BackendToken, BackendEnds, HeartbeatLost, NoCommand,
         streamsVars, queueVars, Silent, NoFailure
<1>2. CASE Refuse(e)
  BY <1>1, <1>2, EndRefines DEF Refuse, Outcomes, Executing
<1>3. CASE Start(e)
  <2>1. OnlyMoves(e) /\ eng'[e].job = eng[e].job /\ Executing(e) /\ Executing(e)'
    BY <1>3, StartMove DEF Keeps, SameJob, Executing, Terminal
  <2> QED BY <1>1, <2>1, RunningRefines
<1>4. CASE BackendToken(e)
  <2>1. OnlyMoves(e) /\ eng'[e].job = eng[e].job /\ Executing(e) /\ Executing(e)'
    BY <1>4, BackendTokenMove DEF SameJob, Executing, Terminal
  <2> QED BY <1>1, <2>1, RunningRefines
<1>5. ASSUME NEW outcome \in Outcomes, BackendEnds(e, outcome) PROVE JobStep /\ QueueInv'
  BY <1>1, <1>5, EndRefines DEF BackendEnds, Executing
<1>6. CASE HeartbeatLost(e)
  <2>1. /\ OnlyMoves(e) /\ eng'[e].job = eng[e].job /\ eng'[e].pc = eng[e].pc
        /\ eng'[e].ev = eng[e].ev
    BY <1>6, HeartbeatLostMove DEF Keeps, SameJob
  <2>2. Stage(e)' = Stage(e)
    BY <2>1 DEF Stage, Executing
  <2>3. QueueInv'
    <3>1. Busy(e)' \/ eng'[e].job = NoJob
      BY <2>1 DEF QueueInv, Busy
    <3> QED BY <1>1, <2>1, <3>1, QueueKept DEF Silent
  <2> QED BY <1>1, <2>1, <2>2, <2>3, Unseen DEF Silent, queueVars
<1> QED BY <1>2, <1>3, <1>4, <1>5, <1>6 DEF BackendStep

\* XAdd and Record are unseen, end the attempt or give the job up.
LEMMA PublishRefines ==
  ASSUME TypeOK, QueueInv, NEW e \in Engines, NEW reply \in Replies, fe' = fe,
         XAdd(e, reply) \/ Record(e, reply)
  PROVE  JobStep /\ QueueInv'
<1>1. (reply = "ok" => NoFailure) /\ (reply # "ok" => Failure) /\ Silent
  BY ReplyCosts DEF XAdd, AddResult, Record, RecordResult, queueVars, Silent
<1>2. eng[e].pc \in {"publish", "record"}
  BY DEF XAdd, Record
<1>3. CASE reply # "ok" /\ eng[e].ev \in Terminal
  BY <1>1, <1>3, ErrRefines DEF XAdd, Record, PublishFails
<1>4. CASE reply # "ok" /\ eng[e].ev \notin Terminal
  <2>1. EndAttempt(e, "err") /\ Executing(e) /\ "err" \in Outcomes
    BY <1>2, <1>4 DEF XAdd, Record, PublishFails, Executing, Outcomes
  <2> QED BY <1>1, <1>4, <2>1, EndRefines
<1>5. CASE reply = "ok"
  <2>1. /\ OnlyMoves(e) /\ eng'[e].job = eng[e].job /\ eng'[e].ev = eng[e].ev
        /\ \/ eng'[e].pc = "record"
           \/ eng'[e].pc = "ack" /\ eng[e].ev \in Terminal
           \/ eng'[e].pc = "stream" /\ eng[e].ev \notin Terminal
    BY <1>5, StepFacts DEF XAdd, Record, TypeOK, PCs, SameJob
  <2>2. CASE eng[e].ev \in Terminal
    BY <1>1, <1>2, <1>5, <2>1, <2>2, FinishingRefines DEF Ending
  <2>3. CASE eng[e].ev \notin Terminal
    BY <1>1, <1>2, <1>5, <2>1, <2>3, RunningRefines DEF Executing
  <2> QED BY <2>2, <2>3
<1> QED BY <1>3, <1>4, <1>5

-----------------------------------------------------------------------------
(* Processes, front ends and time.                                         *)

\* Heartbeats are unseen; a kill interrupts; a restarted engine is idle.
LEMMA ProcessRefines ==
  ASSUME TypeOK, QueueInv, NEW e \in Engines, fe' = fe, Crash(e) \/ Restart(e)
  PROVE  JobStep /\ QueueInv'
<1>1. Silent
  BY DEF Crash, Restart, NoCommand, streamsVars, queueVars, Silent
<1>2. CASE Crash(e)
  <2>1. OnlyMoves(e) /\ eng'[e].job = NoJob /\ eng'[e].pc = "down"
    BY <1>2, ResetFacts DEF Crash, TypeOK, PCs
  <2>2. Failure
    BY <1>2, BoundsAssumption, MaxFaultsAssumption
       DEF Crash, NoCommand, streamsVars, Failure, QueueInv, TypeOK
  <2>3. QueueInv'
    BY <1>1, <2>1, <2>2, QueueKept DEF Silent
  <2> QED BY <1>1, <2>1, <2>2, <2>3, GivesUp DEF Silent, queueVars
<1>3. CASE Restart(e)
  <2>1. /\ OnlyMoves(e) /\ eng'[e].job = NoJob /\ eng'[e].pc = "idle" /\ eng[e].pc = "down"
    BY <1>3, ResetFacts DEF Restart, TypeOK, PCs
  <2>2. eng[e].job = NoJob /\ NoFailure
    BY <1>3, <2>1 DEF QueueInv, Busy, Restart, NoCommand, streamsVars, NoFailure
  <2>3. Jobs!Moves(e, "down", "idle")
    BY <2>1, <2>2, StageOf, StageOfNext, GoesOn
  <2>4. Jobs!Restart(e)
    BY <1>1, <2>2, <2>3, WorksOrFails DEF Jobs!Restart, Jobs!queueVars, Silent
  <2>5. QueueInv'
    BY <1>1, <2>1, <2>2, QueueKept DEF Silent
  <2> QED BY <2>4, <2>5 DEF JobStep, Jobs!JobNext, Jobs!EngineStep
<1> QED BY <1>2, <1>3

\* Every step of an engine is a step of the abstract queue.
LEMMA WorkerRefines ==
  ASSUME TypeOK, JobsAssigned, QueueInv, NEW e \in Engines, Worker(e)
  PROVE  JobStep /\ QueueInv'
<1>1. fe' = fe
  BY DEF Worker
<1> QED BY <1>1, NextJobRefines, NextNoneRefines, ReclaimRefines, ReclaimNoneRefines, AckRefines,
           CheckDeadlineRefines, CancelLateRefines, CheckStatusRefines, AcquireRefines,
           ReleaseRefines, SettleRefines, AttemptRefines, PublishRefines, ProcessRefines
        DEF Worker, EngineStep

\* A step that leaves the engines alone.
LEMMA EnginesRest ==
  ASSUME eng' = eng
  PROVE  [f \in Engines |-> [pc |-> Stage(f), job |-> eng[f].job]]'
           = [f \in Engines |-> [pc |-> Stage(f), job |-> eng[f].job]]
BY DEF Stage, Executing

\* The front end sends a job once; its other commands are unseen, or fail.
LEMMA FrontEndRefines ==
  ASSUME TypeOK, QueueInv, NEW r \in Requests, FrontEnd(r)
  PROVE  JobStep /\ QueueInv'
<1>a. eng' = eng /\ crashes' = crashes
  BY DEF FrontEnd, engineVars
<1>b. fe \in [Requests -> Positions] /\ queue \in Seq(Requests)
  BY DEF TypeOK
\* A handler that writes no entry.
<1>1. ASSUME Silent, NoFailure \/ Failure, NEW position, fe' = [fe EXCEPT ![r] = position],
             fe[r] \notin {"idle", "reserved"} => position \notin {"idle", "reserved"}
      PROVE  JobStep /\ QueueInv'
  <2>1. QueueInv'
    <3>1. \A i \in 1..Len(queue) : fe'[queue[i]] \notin {"idle", "reserved"}
      BY <1>1, <1>b DEF QueueInv
    <3>2. \A e \in Engines : ~ Busy(e)' => eng'[e].job = NoJob
      BY <1>a DEF QueueInv, Busy
    <3> QED BY <1>1, <3>1, <3>2 DEF QueueInv, Silent, NoFailure, Failure
  <2>2. CASE NoFailure
    <3>1. UNCHANGED Jobs!jobVars
      BY <1>1, <1>a, <2>2, EnginesRest DEF Jobs!jobVars, Jobs!queueVars, Silent, NoFailure
    <3> QED BY <2>1, <3>1 DEF JobStep
  <2>3. CASE Failure
    <3>1. Jobs!ReplyFails
      BY <1>1, <1>a, <2>3, EnginesRest, WorksOrFails DEF Jobs!ReplyFails, Jobs!queueVars, Silent
    <3> QED BY <2>1, <3>1 DEF JobStep, Jobs!JobNext
  <2> QED BY <1>1, <2>2, <2>3
<1>2. CASE Reject(r) \/ Drop(r)
  <2>1. Silent /\ NoFailure
    BY <1>2, <1>a DEF Reject, Drop, NoCommand, streamsVars, queueVars, Silent, NoFailure
  <2> QED BY <1>1, <1>2, <2>1 DEF Reject, Drop, Goto
<1>3. ASSUME NEW reply \in Replies,
             Reserve(r, reply) \/ PublishStatus(r, reply) \/ CancelDispatch(r, reply)
      PROVE  JobStep /\ QueueInv'
  <2>1. Silent /\ (NoFailure \/ Failure)
    BY <1>3, <1>a, ReplyCosts DEF Reserve, PublishStatus, CancelDispatch, ReserveQuota, MarkQueued,
       CloseReservation, queueVars, Silent
  <2>2. CASE Reserve(r, reply)
    BY <1>1, <2>1, <2>2 DEF Reserve, Goto
  <2>3. CASE PublishStatus(r, reply)
    BY <1>1, <2>1, <2>3 DEF PublishStatus, Goto
  <2>4. CASE CancelDispatch(r, reply)
    BY <1>1, <2>1, <2>4 DEF CancelDispatch, Goto
  <2> QED BY <1>3, <2>2, <2>3, <2>4
<1>4. ASSUME NEW reply \in Replies, PublishJob(r, reply) PROVE JobStep /\ QueueInv'
  <2>1. /\ NoFailure \/ Failure
        /\ fe[r] = "reserved"
        /\ fe' = [fe EXCEPT ![r] = IF reply = "ok" THEN "added" ELSE "cancelling"]
    BY <1>4, <1>a, ReplyCosts DEF PublishJob, AddJob, Goto
  <2>2. CASE ~ Lands(reply)
    <3>1. Silent
      BY <1>4, <2>2 DEF PublishJob, AddJob, queueVars, Silent
    <3> QED BY <1>1, <2>1, <3>1
  <2>3. CASE Lands(reply)
    <3>1. Enqueue(r)
      BY <1>4, <2>3 DEF PublishJob, AddJob
    <3>2. ~ Jobs!Sent(r)
      BY <1>4 DEF PublishJob, QueueInv, Jobs!Sent
    <3>3. Jobs!Works \/ Jobs!Fails
      BY <2>1, WorksOrFails
    <3>4. Jobs!Send(r)
      BY <1>a, <3>1, <3>2, <3>3, EnginesRest DEF Jobs!Send, Jobs!Enqueue, Enqueue, Jobs!Replied
    <3>5. \A i \in 1..Len(queue') : queue'[i] = r \/ (i \in 1..Len(queue) /\ queue'[i] = queue[i])
      <4>1. queue' = Append(queue, r)
        BY <3>1 DEF Enqueue
      <4> QED BY ONLY <1>b, <4>1, r \in Requests, SMTT(30)
    <3>6. QueueInv'
      <4>1. \A i \in 1..Len(queue') : fe'[queue'[i]] \notin {"idle", "reserved"}
        BY <1>b, <2>1, <3>5 DEF QueueInv
      <4>2. \A e \in Engines : ~ Busy(e)' => eng'[e].job = NoJob
        BY <1>a DEF QueueInv, Busy
      <4> QED BY <2>1, <4>1, <4>2 DEF QueueInv, NoFailure, Failure
    <3> QED BY <3>4, <3>6 DEF JobStep, Jobs!JobNext
  <2> QED BY <2>2, <2>3
<1> QED BY <1>2, <1>3, <1>4 DEF FrontEnd, Arrive, DispatchStep

\* Entries go stale and deadlines pass in both specifications.
LEMMA TimeRefines ==
  ASSUME TypeOK, QueueInv, NEW r \in Requests, Time(r)
  PROVE  JobStep /\ QueueInv'
<1>a. eng' = eng /\ crashes' = crashes /\ fe' = fe /\ faults' = faults /\ queue' = queue
  BY DEF Time, BecomeStale, GrowStale, Age, PassDeadline, DeadlinePasses, LeaseExpires, LeaseLapses,
         KeyExpires, ReservationExpires, StatusExpires, ResultExpires, engineVars, queueVars
<1>1. QueueInv'
  BY <1>a DEF QueueInv, Busy
<1>2. CASE BecomeStale(r)
  <2>1. Age(r) /\ late' = late
    BY <1>2 DEF BecomeStale, GrowStale
  <2>2. Jobs!GrowStale(r)
    BY <1>a, <2>1, EnginesRest DEF Jobs!GrowStale, Jobs!Age, Age, Jobs!Works
  <2> QED BY <1>1, <2>2 DEF JobStep, Jobs!JobNext
<1>3. CASE PassDeadline(r)
  <2>1. r \notin late /\ late' = late \cup {r} /\ UNCHANGED queueVars
    BY <1>3 DEF PassDeadline, DeadlinePasses
  <2>2. Jobs!PassDeadline(r)
    BY <1>a, <2>1, EnginesRest DEF Jobs!PassDeadline, Jobs!queueVars, queueVars
  <2> QED BY <1>1, <2>2 DEF JobStep, Jobs!JobNext
<1>4. CASE LeaseExpires(r) \/ KeyExpires(r)
  <2>1. late' = late /\ UNCHANGED queueVars
    BY <1>4 DEF LeaseExpires, LeaseLapses, KeyExpires, ReservationExpires, StatusExpires,
                ResultExpires
  <2>2. UNCHANGED Jobs!jobVars
    BY <1>a, <2>1, EnginesRest DEF Jobs!jobVars, Jobs!queueVars, queueVars
  <2> QED BY <1>1, <2>2 DEF JobStep
<1> QED BY <1>2, <1>3, <1>4 DEF Time

\* Initially the abstract queue is empty and its engines idle.
LEMMA JobsInit == Init => Jobs!JobInit /\ QueueInv
<1> SUFFICES ASSUME Init PROVE Jobs!JobInit /\ QueueInv
  OBVIOUS
<1>1. \A e \in Engines : eng[e].pc = "idle" /\ eng[e].job = NoJob
  BY DEF Init, EngineInit, At
<1>2. /\ queue = <<>> /\ delivered = 0 /\ pel = {} /\ stale = {} /\ late = {} /\ faults = 0
      /\ crashes = 0
  BY DEF Init, StreamsInit, QueueInit, EngineInit
<1>3. \A e \in Engines : Stage(e) = "idle"
  BY <1>1, StageOf
<1>4. Jobs!JobInit
  BY <1>1, <1>2, <1>3 DEF Jobs!JobInit, Jobs!QueueInit, Jobs!Without, Jobs!Holding
<1>5. QueueInv
  BY <1>1, <1>2, BoundsAssumption, MaxFaultsAssumption DEF QueueInv
<1> QED BY <1>4, <1>5

\* Every step is a step of the abstract queue, or leaves it alone.
LEMMA JobsNext == IInv /\ QueueInv /\ [Next]_vars => QueueInv' /\ [Jobs!JobNext]_(Jobs!jobVars)
<1> SUFFICES ASSUME IInv, QueueInv, [Next]_vars
             PROVE  QueueInv' /\ JobStep
  BY DEF JobStep
<1>0. TypeOK /\ JobsAssigned
  BY DEF IInv
<1>1. CASE UNCHANGED vars
  <2>1. UNCHANGED <<queue, delivered, pel, stale, late, faults, fe, eng, crashes>>
    BY <1>1 DEF vars, streamsVars, queueVars, engineVars
  <2>2. UNCHANGED Jobs!jobVars
    BY <2>1, EnginesRest DEF Jobs!jobVars, Jobs!queueVars
  <2> QED BY <2>1, <2>2 DEF QueueInv, Busy, JobStep
<1>2. CASE Next
  BY <1>0, <1>2, WorkerRefines, FrontEndRefines, TimeRefines DEF Next
<1> QED BY <1>1, <1>2

\* QueueInv holds in every reachable state.
THEOREM QueueInvariance == Spec => []QueueInv
<1> QED BY JobsInit, JobsNext, Invariance, PTL DEF Spec

(***************************************************************************)
(* The data plane implements JobQueue: every step of a front end, of an    *)
(* engine and of time is a step of the abstract queue or leaves it alone.  *)
(***************************************************************************)
THEOREM RefinesJobQueue == Spec => ImplementsJobQueue
<1> QED BY JobsInit, JobsNext, Invariance, PTL DEF Spec, ImplementsJobQueue, Jobs!JobSpec

-----------------------------------------------------------------------------
(* How many attempts a request can have.                                   *)

\* r was delivered at least once.
Delivered(r) == \E i \in 1..delivered : queue[i] = r

\* The engines that hold r and found it in time.
Ahead(r) == {e \in Engines : eng[e].job = r /\ eng[e].pc \in {"status", "lease"}}

(***************************************************************************)
(* Each attempt of r is paid for by r's first delivery, or by an entry     *)
(* that went stale before the deadline.  Once the deadline has passed only *)
(* the engines that checked it before may still draw an id.                *)
(***************************************************************************)
Bound(r) ==
  IF r \in late THEN attempts[r] + Cardinality(Ahead(r)) <= MaxAttempts
  ELSE IF r \in stale \/ ~ Delivered(r)
         THEN attempts[r] + Cardinality(Undecided(r)) < MaxAttempts
  ELSE attempts[r] + Cardinality(Undecided(r)) <= MaxAttempts

\* A job is in the stream once, a pending entry was delivered, and attempts are bounded.
BoundInv ==
  /\ \A i, j \in 1..Len(queue) : queue[i] = queue[j] => i = j
  /\ \A r \in pel : Delivered(r)
  /\ \A r \in Requests : Bound(r)

\* Sets of engines are finite.
LEMMA EnginesCounted ==
  ASSUME NEW S \in SUBSET Engines
  PROVE  IsFiniteSet(S) /\ Cardinality(S) \in Nat
BY EnginesAssumption, FS_Subset, FS_CardinalityType

\* The engines Bound counts, now and after a step.
LEMMA Counted ==
  ASSUME NEW r
  PROVE  /\ Ahead(r) \in SUBSET Undecided(r) /\ Undecided(r) \in SUBSET Engines
         /\ IsFiniteSet(Ahead(r)) /\ Cardinality(Ahead(r)) \in Nat
         /\ IsFiniteSet(Undecided(r)) /\ Cardinality(Undecided(r)) \in Nat
         /\ Cardinality(Ahead(r)) <= Cardinality(Undecided(r))
<1>1. Ahead(r) \in SUBSET Undecided(r) /\ Undecided(r) \in SUBSET Engines
  BY DEF Ahead, Undecided
<1>2. IsFiniteSet(Undecided(r)) /\ Cardinality(Undecided(r)) \in Nat
  BY <1>1, EnginesCounted
<1>3. Ahead(r) \in SUBSET Engines
  BY <1>1
<1>4. IsFiniteSet(Ahead(r)) /\ Cardinality(Ahead(r)) \in Nat
  BY <1>3, EnginesCounted
<1>5. Cardinality(Ahead(r)) <= Cardinality(Undecided(r))
  BY <1>1, <1>2, FS_Subset
<1> QED BY <1>1, <1>2, <1>4, <1>5

\* What Bound says of the next state.
LEMMA BoundNext ==
  ASSUME NEW r, NEW A, NEW U, A = Ahead(r)', U = Undecided(r)',
         r \in late' => attempts'[r] + Cardinality(A) <= MaxAttempts,
         r \notin late' /\ (r \in stale' \/ ~ Delivered(r)')
           => attempts'[r] + Cardinality(U) < MaxAttempts,
         r \notin late' /\ r \notin stale' /\ Delivered(r)'
           => attempts'[r] + Cardinality(U) <= MaxAttempts
  PROVE  Bound(r)'
BY DEF Bound

\* A step after which no more engines count.
Fewer(r) ==
  /\ r \in late => Ahead(r)' \subseteq Ahead(r)
  /\ Undecided(r)' \subseteq Undecided(r)

\* Such a step keeps the bound, if the request was not delivered less or staler.
LEMMA FewerBound ==
  ASSUME TypeOK, NEW r \in Requests, Bound(r), Fewer(r), attempts'[r] = attempts[r],
         r \in late' <=> r \in late, r \in stale' => r \in stale, Delivered(r) => Delivered(r)'
  PROVE  Bound(r)'
<1>1. PICK A, U : A = Ahead(r)' /\ U = Undecided(r)'
  OBVIOUS
<1>2. A \in SUBSET Engines /\ U \in SUBSET Undecided(r)
  BY <1>1 DEF Fewer, Ahead
<1>3. IsFiniteSet(U) /\ Cardinality(U) <= Cardinality(Undecided(r))
  BY <1>2, Counted, FS_Subset
<1>4. /\ Cardinality(A) \in Nat /\ Cardinality(U) \in Nat
      /\ Cardinality(Ahead(r)) \in Nat /\ Cardinality(Undecided(r)) \in Nat
  BY <1>2, <1>3, Counted, EnginesCounted, FS_CardinalityType
<1>5. attempts[r] \in Nat /\ MaxAttempts \in Nat
  BY MaxAttemptsAssumption DEF TypeOK
<1>6. ASSUME r \in late' PROVE attempts'[r] + Cardinality(A) <= MaxAttempts
  <2>1. A \in SUBSET Ahead(r)
    BY <1>1, <1>6 DEF Fewer
  <2>2. Cardinality(A) <= Cardinality(Ahead(r))
    BY <2>1, Counted, FS_Subset
  <2> QED BY <1>4, <1>5, <1>6, <2>2 DEF Bound
<1>7. r \notin late' /\ (r \in stale' \/ ~ Delivered(r)')
        => attempts'[r] + Cardinality(U) < MaxAttempts
  BY <1>3, <1>4, <1>5 DEF Bound
<1>8. r \notin late' /\ r \notin stale' /\ Delivered(r)'
        => attempts'[r] + Cardinality(U) <= MaxAttempts
  BY <1>3, <1>4, <1>5 DEF Bound
<1> QED BY <1>1, <1>6, <1>7, <1>8, BoundNext

\* A step of e that leaves the queue alone.
LEMMA FewerKeeps ==
  ASSUME TypeOK, BoundInv, \A r \in Requests : Fewer(r),
         queue' = queue, delivered' = delivered, pel' \subseteq pel, stale' \subseteq stale,
         late' = late, attempts' = attempts
  PROVE  BoundInv'
<1>1. \A r : Delivered(r)' <=> Delivered(r)
  BY DEF Delivered
<1>2. \A r \in Requests : Bound(r)'
  BY <1>1, FewerBound DEF BoundInv
<1> QED BY <1>1, <1>2 DEF BoundInv

\* An engine that leaves the part of run_job before the lease.
LEMMA MovesOn ==
  ASSUME NEW e \in Engines, OnlyMoves(e),
         \/ eng'[e].pc \notin {"begin", "status", "lease"}
         \/ eng'[e].job = eng[e].job /\ eng'[e].pc = eng[e].pc
         \/ eng'[e].job = eng[e].job /\ eng[e].pc = "status" /\ eng'[e].pc = "lease"
         \/ /\ eng'[e].job = eng[e].job /\ eng[e].pc = "begin" /\ eng'[e].pc = "status"
            /\ eng[e].job \notin late,
         NEW r
  PROVE  Fewer(r)
BY DEF Fewer, Ahead, Undecided, OnlyMoves

\* An engine begins r, at the cost of its first delivery or of its staleness.
LEMMA TakesJob ==
  ASSUME TypeOK, NEW e \in Engines, OnlyMoves(e), NEW r \in Requests,
         eng'[e].job = r, eng'[e].pc = "begin", eng[e].pc \in {"idle", "reclaim"},
         Bound(r), r \in stale \/ ~ Delivered(r), attempts' = attempts, late' = late,
         r \notin stale', Delivered(r)'
  PROVE  Bound(r)'
<1>1. PICK A, U : A = Ahead(r)' /\ U = Undecided(r)'
  OBVIOUS
<1>2. A = Ahead(r) /\ U = Undecided(r) \cup {e} /\ e \notin Undecided(r)
  BY <1>1 DEF Ahead, Undecided, OnlyMoves
<1>3. Cardinality(U) = Cardinality(Undecided(r)) + 1
  BY <1>2, Counted, FS_AddElement
<1>4. attempts[r] \in Nat /\ MaxAttempts \in Nat
  BY MaxAttemptsAssumption DEF TypeOK
<1>5. r \in late' => attempts'[r] + Cardinality(A) <= MaxAttempts
  BY <1>2 DEF Bound
<1>6. r \notin late' => attempts'[r] + Cardinality(U) <= MaxAttempts
  BY <1>3, <1>4, Counted DEF Bound
<1> QED BY <1>1, <1>5, <1>6, BoundNext

\* An engine draws an attempt id and counts no more.
LEMMA DrawsId ==
  ASSUME TypeOK, NEW e \in Engines, OnlyMoves(e), NEW r \in Requests,
         eng[e].job = r, eng[e].pc = "lease", eng'[e].pc \notin {"begin", "status", "lease"},
         Bound(r), attempts'[r] = attempts[r] + 1, late' = late, stale' = stale,
         Delivered(r)' <=> Delivered(r)
  PROVE  Bound(r)'
<1>1. PICK A, U : A = Ahead(r)' /\ U = Undecided(r)'
  OBVIOUS
<1>2. /\ A = Ahead(r) \ {e} /\ e \in Ahead(r)
      /\ U = Undecided(r) \ {e} /\ e \in Undecided(r)
  BY <1>1 DEF Ahead, Undecided, OnlyMoves
<1>3. Cardinality(U) = Cardinality(Undecided(r)) - 1 /\ Cardinality(A) = Cardinality(Ahead(r)) - 1
  <2>1. IsFiniteSet(Undecided(r)) /\ IsFiniteSet(Ahead(r))
    BY Counted
  <2>2. Cardinality(Undecided(r) \ {e}) = Cardinality(Undecided(r)) - 1
    BY <1>2, <2>1, FS_RemoveElement
  <2>3. Cardinality(Ahead(r) \ {e}) = Cardinality(Ahead(r)) - 1
    BY <1>2, <2>1, FS_RemoveElement
  <2> QED BY <1>2, <2>2, <2>3
<1>4. /\ attempts[r] \in Nat /\ MaxAttempts \in Nat
      /\ Cardinality(Ahead(r)) \in Nat /\ Cardinality(Undecided(r)) \in Nat
  BY MaxAttemptsAssumption, Counted DEF TypeOK
<1>5. /\ attempts'[r] + Cardinality(A) = attempts[r] + Cardinality(Ahead(r))
      /\ attempts'[r] + Cardinality(U) = attempts[r] + Cardinality(Undecided(r))
  BY <1>3, <1>4
<1> QED BY <1>1, <1>5, BoundNext DEF Bound

-----------------------------------------------------------------------------
\* The bound: the steps of an engine.
LEMMA BoundWorker ==
  ASSUME TypeOK, JobsAssigned, BoundInv, NEW e \in Engines, Worker(e)
  PROVE  BoundInv'
<1>a. eng \in [Engines -> EngineState] /\ queue \in Seq(Requests) /\ delivered \in Nat
      /\ delivered <= Len(queue) /\ Len(queue) \in Nat
  BY DEF TypeOK
<1> USE DEF queueVars
<1>1. ASSUME NEW reply \in Replies, NextJob(e, reply) PROVE BoundInv'
  <2>1. PICK r \in Requests :
          /\ ReadGroup(r, reply)
          /\ IF reply = "ok" THEN Begin(e, r) ELSE \E pc \in {"idle", "down"} : Reset(e, pc)
    BY <1>1 DEF NextJob
  <2>2. /\ r = queue[delivered + 1] /\ delivered + 1 \in 1..Len(queue) /\ late' = late
        /\ attempts' = attempts /\ queue' = queue /\ stale' = stale /\ eng[e].pc = "idle"
    BY <1>1, <1>a, <2>1 DEF ReadGroup, Undelivered, Deliver, NextJob
  <2>3. ~ Delivered(r) /\ r \notin stale
    <3>1. ~ Delivered(r)
      BY <1>a, <2>2 DEF BoundInv, Delivered
    <3> QED BY <3>1 DEF BoundInv, TypeOK
  <2>4. CASE Lands(reply)
    <3>1. delivered' = delivered + 1 /\ pel' = pel \cup {r}
      BY <2>1, <2>4 DEF ReadGroup, Deliver
    <3>2. /\ Delivered(r)'
          /\ \A q : Delivered(q) => Delivered(q)'
          /\ \A q : Delivered(q)' => Delivered(q) \/ q = r
      BY <1>a, <2>2, <3>1 DEF Delivered
    <3>3. ASSUME NEW q \in Requests PROVE Bound(q)'
      <4>1. CASE reply = "ok"
        <5>1. OnlyMoves(e) /\ eng'[e].pc = "begin" /\ eng'[e].job = r
          BY <1>a, <2>1, <4>1, BeginFacts
        <5>2. CASE q = r
          BY <2>2, <2>3, <3>2, <5>1, <5>2, TakesJob DEF BoundInv
        <5>3. CASE q # r
          <6>1. Fewer(q)
            BY <5>1, <5>3 DEF Fewer, Ahead, Undecided, OnlyMoves
          <6> QED BY <2>2, <3>2, <6>1, FewerBound DEF BoundInv
        <5> QED BY <5>2, <5>3
      <4>2. CASE reply # "ok"
        <5>1. OnlyMoves(e) /\ eng'[e].pc \in {"idle", "down"}
          BY <1>a, <2>1, <4>2, ResetFacts DEF PCs
        <5>2. Fewer(q)
          BY <5>1, MovesOn
        <5> QED BY <2>2, <3>2, <5>2, FewerBound DEF BoundInv
      <4> QED BY <4>1, <4>2
    <3> QED BY <2>2, <3>1, <3>2, <3>3 DEF BoundInv
  <2>5. CASE ~ Lands(reply)
    <3>1. OnlyMoves(e) /\ eng'[e].pc \in {"idle", "down"}
      BY <1>a, <2>1, <2>5, ResetFacts DEF PCs, Lands
    <3>2. \A q \in Requests : Fewer(q)
      BY <3>1, MovesOn
    <3>3. UNCHANGED queueVars
      BY <2>1, <2>5 DEF ReadGroup
    <3> QED BY <2>2, <3>2, <3>3, FewerKeeps
  <2> QED BY <2>4, <2>5
<1>2. ASSUME NEW reply \in Replies, Reclaim(e, reply) PROVE BoundInv'
  <2>1. PICK r \in Requests :
          /\ AutoClaim(r, reply)
          /\ IF reply = "ok" THEN Begin(e, r) ELSE Reset(e, "down")
    BY <1>2 DEF Reclaim
  <2>2. /\ r \in stale /\ late' = late /\ attempts' = attempts /\ queue' = queue
        /\ delivered' = delivered /\ pel' = pel /\ eng[e].pc = "reclaim"
        /\ stale' = IF Lands(reply) THEN stale \ {r} ELSE stale
    BY <1>2, <2>1 DEF AutoClaim, FirstStale, Claim, Reclaim
  <2>3. \A q : Delivered(q)' <=> Delivered(q)
    BY <2>2 DEF Delivered
  <2>4. Delivered(r)
    BY <2>2 DEF BoundInv, TypeOK
  <2>5. CASE reply = "ok"
    <3>1. OnlyMoves(e) /\ eng'[e].pc = "begin" /\ eng'[e].job = r
      BY <1>a, <2>1, <2>5, BeginFacts
    <3>2. ASSUME NEW q \in Requests PROVE Bound(q)'
      <4>1. CASE q = r
        BY <2>2, <2>3, <2>4, <2>5, <3>1, <4>1, TakesJob DEF BoundInv, Lands
      <4>2. CASE q # r
        <5>1. Fewer(q)
          BY <3>1, <4>2 DEF Fewer, Ahead, Undecided, OnlyMoves
        <5> QED BY <2>2, <2>3, <5>1, FewerBound DEF BoundInv
      <4> QED BY <4>1, <4>2
    <3> QED BY <2>2, <2>3, <3>2 DEF BoundInv
  <2>6. CASE reply # "ok"
    <3>1. OnlyMoves(e) /\ eng'[e].pc = "down"
      BY <1>a, <2>1, <2>6, ResetFacts DEF PCs
    <3>2. \A q \in Requests : Fewer(q)
      BY <3>1, MovesOn
    <3> QED BY <2>2, <3>2, FewerKeeps
  <2> QED BY <2>5, <2>6
<1>3. ASSUME NEW reply \in Replies, Acquire(e, reply) PROVE BoundInv'
  <2>1. PICK r \in Requests : r = eng[e].job
    BY <1>3 DEF Acquire, JobsAssigned, Busy
  <2>2. /\ eng[e].pc = "lease" /\ UNCHANGED queueVars /\ late' = late
        /\ attempts' = [attempts EXCEPT ![r] = attempts[r] + 1]
    BY <1>3, <2>1 DEF Acquire, AcquireLease
  <2>3. OnlyMoves(e) /\ eng'[e].pc \notin {"begin", "status", "lease"}
    BY <1>3, <2>1, AcquireMove DEF Rests, Busy
  <2>4. \A q : Delivered(q)' <=> Delivered(q)
    BY <2>2 DEF Delivered
  <2>5. ASSUME NEW q \in Requests PROVE Bound(q)'
    <3>1. CASE q = r
      <4>1. attempts'[r] = attempts[r] + 1
        BY <2>2 DEF TypeOK
      <4> QED BY <2>1, <2>2, <2>3, <2>4, <3>1, <4>1, DrawsId DEF BoundInv
    <3>2. CASE q # r
      <4>1. attempts'[q] = attempts[q] /\ Fewer(q)
        BY <2>2, <2>3, <3>2, MovesOn DEF TypeOK
      <4> QED BY <2>2, <2>4, <4>1, FewerBound DEF BoundInv
    <3> QED BY <3>1, <3>2
  <2> QED BY <2>2, <2>4, <2>5 DEF BoundInv
<1>4. ASSUME NEW reply \in Replies, Ack(e, reply) PROVE BoundInv'
  <2>1. \A q \in Requests : Fewer(q)
    BY <1>4, AckMove, MovesOn DEF Rests, Busy
  <2>2. /\ queue' = queue /\ delivered' = delivered /\ pel' \subseteq pel /\ stale' \subseteq stale
        /\ late' = late /\ attempts' = attempts
    BY <1>4 DEF Ack, Acknowledge, Remove
  <2> QED BY <2>1, <2>2, FewerKeeps
<1>5. ASSUME \A reply \in Replies : ~ NextJob(e, reply) /\ ~ Reclaim(e, reply)
                                   /\ ~ Acquire(e, reply) /\ ~ Ack(e, reply)
      PROVE  BoundInv'
  <2>1. UNCHANGED <<queueVars, late, attempts>>
    BY <1>5
    DEF Worker, EngineStep, BackendStep, NextNone, ReclaimNone, CheckDeadline, CancelLate,
        CheckStatus, Release, Settle, Refuse, Start, XAdd, Record, Restart, BackendToken,
        BackendEnds, HeartbeatLost, Crash, NoCommand, streamsVars, ReadOnly, CloseReservation,
        ReleaseLease, AddResult, RecordResult
  <2>2. ASSUME NEW r \in Requests PROVE Fewer(r)
    <3>1. ASSUME NEW reply \in Replies, NextNone(e, reply) PROVE Fewer(r)
      BY <3>1, NextNoneMove, MovesOn DEF Rests, Busy
    <3>2. ASSUME NEW reply \in Replies, ReclaimNone(e, reply) PROVE Fewer(r)
      BY <3>2, ReclaimNoneMove, MovesOn DEF Rests, Busy
    <3>3. CASE CheckDeadline(e)
      <4>1. /\ Keeps(e) /\ eng[e].pc = "begin"
            /\ eng'[e].pc = IF eng[e].job \in late THEN "cancel" ELSE "status"
        BY <3>3, <1>a, StepFacts DEF CheckDeadline, PCs, Keeps
      <4> QED BY <4>1, MovesOn DEF Keeps, SameJob
    <3>4. ASSUME NEW reply \in Replies, CancelLate(e, reply) PROVE Fewer(r)
      BY <3>4, CancelLateMove, MovesOn DEF Rests, Busy, Keeps
    <3>5. ASSUME NEW reply \in Replies, CheckStatus(e, reply) PROVE Fewer(r)
      BY <3>5, CheckStatusMove, MovesOn DEF Rests, Busy, Keeps, SameJob
    <3>6. ASSUME NEW reply \in Replies, Release(e, reply) PROVE Fewer(r)
      BY <3>6, ReleaseMove, MovesOn DEF Rests, Busy, Keeps
    <3>7. ASSUME NEW reply \in Replies, Settle(e, reply) PROVE Fewer(r)
      BY <3>7, SettleMove, MovesOn DEF Rests, Busy, Keeps
    <3>8. CASE Refuse(e)
      BY <3>8, RefuseMove, MovesOn DEF Keeps
    <3>9. CASE Start(e)
      BY <3>9, StartMove, MovesOn DEF Keeps
    <3>10. ASSUME NEW reply \in Replies, XAdd(e, reply) PROVE Fewer(r)
      BY <3>10, XAddMove, MovesOn DEF Rests, Busy, Keeps
    <3>11. ASSUME NEW reply \in Replies, Record(e, reply) PROVE Fewer(r)
      BY <3>11, RecordMove, MovesOn DEF Rests, Busy, Keeps
    <3>12. CASE Restart(e)
      BY <3>12, RestartMove, MovesOn DEF Rests, Busy
    <3>13. CASE BackendToken(e)
      BY <3>13, BackendTokenMove, MovesOn
    <3>14. ASSUME NEW outcome \in Outcomes, BackendEnds(e, outcome) PROVE Fewer(r)
      BY <3>14, BackendEndsMove, MovesOn DEF Keeps
    <3>15. CASE HeartbeatLost(e)
      BY <3>15, HeartbeatLostMove, MovesOn DEF Keeps, SameJob
    <3>16. CASE Crash(e)
      BY <3>16, CrashMove, MovesOn DEF Rests, Busy
    <3> QED
      BY <1>5, <3>1, <3>2, <3>3, <3>4, <3>5, <3>6, <3>7, <3>8, <3>9, <3>10, <3>11, <3>12, <3>13,
         <3>14, <3>15, <3>16
      DEF Worker, EngineStep, BackendStep
  <2> QED BY <2>1, <2>2, FewerKeeps
<1> QED BY <1>1, <1>2, <1>3, <1>4, <1>5

\* The bound: the steps of the front end.  A job is added once.
LEMMA BoundFrontEnd ==
  ASSUME TypeOK, QueueInv, BoundInv, NEW r \in Requests, FrontEnd(r)
  PROVE  BoundInv'
<1>a. /\ eng' = eng /\ attempts' = attempts /\ late' = late /\ delivered' = delivered
      /\ pel' = pel /\ stale' = stale
      /\ \/ queue' = queue
         \/ queue' = Append(queue, r) /\ fe[r] = "reserved"
  BY DEF FrontEnd, Arrive, DispatchStep, Reject, Reserve, PublishJob, PublishStatus,
         CancelDispatch, Drop, ReserveQuota, AddJob, MarkQueued, CloseReservation, Enqueue,
         NoCommand, streamsVars, queueVars, engineVars
<1>b. queue \in Seq(Requests) /\ Len(queue) \in Nat /\ delivered \in Nat /\ delivered <= Len(queue)
  BY DEF TypeOK
<1>1. \A q \in Requests : Fewer(q)
  BY <1>a DEF Fewer, Ahead, Undecided
<1>2. CASE queue' = queue
  BY <1>a, <1>1, <1>2, FewerKeeps
<1>3. CASE queue' = Append(queue, r) /\ fe[r] = "reserved"
  <2>1. /\ Len(queue') = Len(queue) + 1 /\ queue'[Len(queue) + 1] = r
        /\ \A i \in 1..Len(queue) : queue'[i] = queue[i]
    BY <1>b, <1>3
  <2>2. \A i \in 1..Len(queue) : queue[i] # r
    BY <1>3 DEF QueueInv
  <2>3. \A i, j \in 1..Len(queue') : queue'[i] = queue'[j] => i = j
    <3>1. \A i \in 1..Len(queue') : i \in 1..Len(queue) \/ i = Len(queue) + 1
      BY <1>b, <2>1
    <3> QED BY <2>1, <2>2, <3>1 DEF BoundInv
  <2>4. \A q : Delivered(q)' <=> Delivered(q)
    <3>1. \A i \in 1..delivered : queue'[i] = queue[i]
      BY <1>b, <2>1
    <3> QED BY <1>a, <3>1 DEF Delivered
  <2>5. \A q \in Requests : Bound(q)'
    BY <1>a, <1>1, <2>4, FewerBound DEF BoundInv
  <2> QED BY <1>a, <2>3, <2>4, <2>5 DEF BoundInv
<1> QED BY <1>a, <1>2, <1>3

\* The bound: the steps of time.
LEMMA BoundTime ==
  ASSUME TypeOK, BoundInv, NEW r \in Requests, Time(r)
  PROVE  BoundInv'
<1>a. /\ eng' = eng /\ attempts' = attempts /\ queue' = queue /\ delivered' = delivered /\ pel' = pel
  BY DEF Time, BecomeStale, GrowStale, Age, PassDeadline, DeadlinePasses, LeaseExpires, LeaseLapses,
         KeyExpires, ReservationExpires, StatusExpires, ResultExpires, engineVars, queueVars
<1>b. \A q : Delivered(q)' <=> Delivered(q)
  BY <1>a DEF Delivered
<1>1. \A q : Fewer(q) /\ Ahead(q)' = Ahead(q) /\ Undecided(q)' = Undecided(q)
  BY <1>a DEF Fewer, Ahead, Undecided
<1>2. CASE BecomeStale(r)
  <2>1. /\ late' = late /\ stale' = stale \cup {r}
        /\ r \in late \/ attempts[r] + Cardinality(Undecided(r)) < MaxAttempts
    BY <1>2 DEF BecomeStale, GrowStale, Age
  <2>2. ASSUME NEW q \in Requests PROVE Bound(q)'
    <3>1. CASE q = r
      <4>1. PICK A, U : A = Ahead(r)' /\ U = Undecided(r)'
        OBVIOUS
      <4> QED BY <1>a, <1>1, <2>1, <3>1, <4>1, BoundNext DEF BoundInv, Bound
    <3>2. CASE q # r
      BY <1>a, <1>b, <1>1, <2>1, <3>2, FewerBound DEF BoundInv
    <3> QED BY <3>1, <3>2
  <2> QED BY <1>a, <1>b, <2>2 DEF BoundInv
<1>3. CASE PassDeadline(r)
  <2>1. r \notin late /\ late' = late \cup {r} /\ stale' = stale
    BY <1>3 DEF PassDeadline, DeadlinePasses, queueVars
  <2>2. ASSUME NEW q \in Requests PROVE Bound(q)'
    <3>1. CASE q = r
      <4>1. PICK A, U : A = Ahead(r)' /\ U = Undecided(r)'
        OBVIOUS
      <4>2. attempts[r] + Cardinality(Undecided(r)) <= MaxAttempts
        <5>1. attempts[r] \in Nat /\ MaxAttempts \in Nat /\ Cardinality(Undecided(r)) \in Nat
          BY MaxAttemptsAssumption, Counted DEF TypeOK
        <5> QED BY <2>1, <5>1 DEF BoundInv, Bound
      <4>3. attempts[r] + Cardinality(Ahead(r)) <= MaxAttempts
        <5>1. attempts[r] \in Nat /\ MaxAttempts \in Nat /\ Cardinality(Undecided(r)) \in Nat
              /\ Cardinality(Ahead(r)) \in Nat /\ Cardinality(Ahead(r)) <= Cardinality(Undecided(r))
          BY MaxAttemptsAssumption, Counted DEF TypeOK
        <5> QED BY <4>2, <5>1
      <4> QED BY <1>a, <1>1, <2>1, <3>1, <4>1, <4>3, BoundNext
    <3>2. CASE q # r
      BY <1>a, <1>b, <1>1, <2>1, <3>2, FewerBound DEF BoundInv
    <3> QED BY <3>1, <3>2
  <2> QED BY <1>a, <1>b, <2>2 DEF BoundInv
<1>4. CASE LeaseExpires(r) \/ KeyExpires(r)
  <2>1. late' = late /\ stale' = stale
    BY <1>4 DEF LeaseExpires, LeaseLapses, KeyExpires, ReservationExpires, StatusExpires,
                ResultExpires, queueVars
  <2> QED BY <1>a, <1>1, <2>1, FewerKeeps
<1> QED BY <1>2, <1>3, <1>4 DEF Time

\* The bound holds initially: nothing is delivered and no id is drawn.
LEMMA BoundInit == Init => BoundInv
<1> SUFFICES ASSUME Init PROVE BoundInv
  OBVIOUS
<1>1. /\ queue = <<>> /\ delivered = 0 /\ pel = {} /\ stale = {} /\ late = {}
      /\ attempts = [r \in Requests |-> 0]
      /\ \A e \in Engines : eng[e].pc = "idle"
  BY DEF Init, StreamsInit, QueueInit, EngineInit, At
<1>2. ASSUME NEW r \in Requests PROVE Bound(r)
  <2>1. Undecided(r) = {}
    BY <1>1 DEF Undecided
  <2>2. Cardinality(Undecided(r)) = 0
    BY <2>1, FS_EmptySet
  <2>3. ~ Delivered(r)
    BY <1>1 DEF Delivered
  <2> QED BY <1>1, <2>2, <2>3, MaxAttemptsAssumption DEF Bound
<1> QED BY <1>1, <1>2 DEF BoundInv

(***************************************************************************)
(* A request's attempts are bounded by how often its entry is delivered    *)
(* before the deadline, although every engine draws an id on its own.      *)
(***************************************************************************)
THEOREM AttemptsBounded == Spec => []BoundInv
<1>1. IInv /\ QueueInv /\ BoundInv /\ [Next]_vars => BoundInv'
  <2> SUFFICES ASSUME IInv, QueueInv, BoundInv, [Next]_vars PROVE BoundInv'
    OBVIOUS
  <2>0. TypeOK /\ JobsAssigned
    BY DEF IInv
  <2>1. CASE UNCHANGED vars
    <3>1. UNCHANGED <<queue, delivered, pel, stale, late, eng, attempts>>
      BY <2>1 DEF vars, streamsVars, queueVars, engineVars
    <3>2. \A r \in Requests : Fewer(r)
      BY <3>1 DEF Fewer, Ahead, Undecided
    <3> QED BY <2>0, <3>1, <3>2, FewerKeeps
  <2>2. CASE Next
    BY <2>0, <2>2, BoundWorker, BoundFrontEnd, BoundTime DEF Next
  <2> QED BY <2>1, <2>2
<1> QED BY <1>1, BoundInit, Invariance, QueueInvariance, PTL DEF Spec

\* Every attempt id drawn is one of the log's.
LEMMA AttemptsInRange ==
  ASSUME TypeOK, BoundInv, NEW r \in Requests
  PROVE  attempts[r] \in 0..MaxAttempts
<1>1. attempts[r] \in Nat /\ MaxAttempts \in Nat
  BY MaxAttemptsAssumption DEF TypeOK
<1>2. Cardinality(Ahead(r)) \in Nat /\ Cardinality(Undecided(r)) \in Nat
  BY Counted
<1> QED BY <1>1, <1>2 DEF BoundInv, Bound

-----------------------------------------------------------------------------
(* What an attempt has written.                                            *)

\* The attempt of e has written nothing.
Unbegun(e) ==
  eng[e].pc = "execute" \/ (eng[e].pc = "publish" /\ eng[e].ev = "started")

\* It has written its start and is at its last chunk, or at the one before.
Runs(e) ==
  \/ eng[e].pc = "stream"
  \/ eng[e].pc = "publish" /\ eng[e].ev = "token"
  \/ eng[e].pc = "record" /\ eng[e].ev \notin Terminal

\* It has written its start and may complete.
Begun(e) == Owes(e) /\ ~ Unbegun(e)

\* Its terminal event is yet to come.
Open(e) == Busy(e) /\ eng[e].att # 0 /\ ~ Decided(e)

\* What e's own state says about its attempt.
Local(e) ==
  /\ eng[e].sent <= MaxTokens
  /\ Unbegun(e) => eng[e].sent = 0
  /\ Owes(e) \/ eng[e].pc \in {"release", "settle"} => eng[e].att # 0
  /\ eng[e].att = 0 => eng[e].sent = 0
  /\ eng[e].pc = "publish" /\ eng[e].ev = "token" => eng[e].sent # 0

\* The stream s holds nothing of the attempt; its last start or chunk is the attempt's n-th.
Silence(s, attempt) == \A i \in 1..Len(s) : s[i].attempt # attempt
Tip(s, attempt, n) == \E i \in 1..Len(s) : Log!IsTip(s, i) /\ s[i].attempt = attempt /\ s[i].n = n

\* What e's attempt has in the result stream s.
Written(e, s) ==
  /\ Unbegun(e) => Silence(s, eng[e].att)
  /\ Open(e) => ~ Log!Ended(s, eng[e].att)
  /\ Runs(e) => Tip(s, eng[e].att, Held(e))
  /\ Begun(e) => Log!Started(s, eng[e].att)

\* It has it as long as the stream never expired.
Wrote(e) == Busy(e) /\ eng[e].job \notin expired => Written(e, results[eng[e].job])

\* What the refinement of AttemptLog needs besides: no event has an id that was not drawn.
LogInv ==
  /\ \A r \in Requests : \A i \in 1..Len(results[r]) : results[r][i].attempt <= attempts[r]
  /\ \A e \in Engines : Local(e)
  /\ \A e \in Engines : Wrote(e)

-----------------------------------------------------------------------------
(* An event at the end of a result stream.                                 *)

\* Where the events of the longer stream are.
LEMMA AppendPlaces ==
  ASSUME NEW s \in Seq(Event), NEW v \in Event, NEW t, t = Append(s, v)
  PROVE  /\ t \in Seq(Event) /\ Len(s) \in Nat /\ Len(t) = Len(s) + 1 /\ t[Len(s) + 1] = v
         /\ \A i \in 1..Len(s) : i \in 1..Len(t) /\ t[i] = s[i]
         /\ \A i \in 1..Len(t) : i \in 1..Len(s) \/ i = Len(s) + 1
<1>1. Len(s) \in Nat /\ Len(t) = Len(s) + 1 /\ t[Len(s) + 1] = v /\ t \in Seq(Event)
  OBVIOUS
<1>2. \A i \in 1..Len(s) : t[i] = s[i]
  OBVIOUS
<1>3. \A i \in 1..Len(s) : i \in 1..Len(t)
  BY <1>1
<1>4. \A i \in 1..Len(t) : i \in 1..Len(s) \/ i = Len(s) + 1
  BY <1>1
<1> QED BY <1>1, <1>2, <1>3, <1>4

\* An event of another attempt breaks no silence and ends nothing.
LEMMA AppendOther ==
  ASSUME NEW s \in Seq(Event), NEW v \in Event, NEW t, t = Append(s, v), NEW attempt
  PROVE  /\ Silence(s, attempt) /\ v.attempt # attempt => Silence(t, attempt)
         /\ ~ Log!Ended(s, attempt) /\ (v.attempt # attempt \/ v.kind \notin Terminal)
              => ~ Log!Ended(t, attempt)
<1>1. /\ \A i \in 1..Len(t) : i \in 1..Len(s) \/ i = Len(s) + 1
      /\ \A i \in 1..Len(s) : t[i] = s[i]
      /\ t[Len(s) + 1] = v
  BY AppendPlaces
<1>2. ASSUME Silence(s, attempt), v.attempt # attempt PROVE Silence(t, attempt)
  BY <1>1, <1>2 DEF Silence
<1>3. ASSUME ~ Log!Ended(s, attempt), v.attempt # attempt \/ v.kind \notin Terminal
      PROVE  ~ Log!Ended(t, attempt)
  BY <1>1, <1>3 DEF Log!Ended, Log!Terminal, Terminal
<1> QED BY <1>2, <1>3

\* A start stays, and so does the tip when a terminal event follows it.
LEMMA AppendKeeps ==
  ASSUME NEW s \in Seq(Event), NEW v \in Event, NEW t, t = Append(s, v), NEW attempt, NEW n
  PROVE  /\ Log!Started(s, attempt) => Log!Started(t, attempt)
         /\ Tip(s, attempt, n) /\ v.kind \in Terminal => Tip(t, attempt, n)
<1>1. /\ Len(s) \in Nat /\ Len(t) = Len(s) + 1 /\ t[Len(s) + 1] = v
      /\ \A i \in 1..Len(t) : i \in 1..Len(s) \/ i = Len(s) + 1
      /\ \A i \in 1..Len(s) : i \in 1..Len(t) /\ t[i] = s[i]
  BY AppendPlaces
<1>2. ASSUME Log!Started(s, attempt) PROVE Log!Started(t, attempt)
  BY <1>1, <1>2 DEF Log!Started
<1>3. ASSUME Tip(s, attempt, n), v.kind \in Terminal PROVE Tip(t, attempt, n)
  <2>1. PICK i \in 1..Len(s) : Log!IsTip(s, i) /\ s[i].attempt = attempt /\ s[i].n = n
    BY <1>3 DEF Tip
  <2>2. ASSUME NEW j \in (i + 1)..Len(t) PROVE t[j].kind \in Log!Terminal
    <3>1. CASE j \in 1..Len(s)
      <4>1. j \in (i + 1)..Len(s) /\ t[j] = s[j]
        BY <1>1, <3>1
      <4> QED BY <2>1, <4>1 DEF Log!IsTip
    <3>2. CASE j = Len(s) + 1
      BY <1>1, <1>3, <3>2 DEF Log!Terminal, Terminal
    <3> QED BY <1>1, <3>1, <3>2
  <2>3. Log!IsTip(t, i)
    BY <1>1, <2>1, <2>2 DEF Log!IsTip
  <2> QED BY <1>1, <2>1, <2>3 DEF Tip
<1> QED BY <1>2, <1>3

\* A start or a chunk is the new tip.
LEMMA AppendTip ==
  ASSUME NEW s \in Seq(Event), NEW v \in Event, NEW t, t = Append(s, v),
         v.kind \in {"started", "token"}
  PROVE  /\ Tip(t, v.attempt, v.n)
         /\ v = [kind |-> "started", attempt |-> v.attempt, n |-> 0] => Log!Started(t, v.attempt)
<1>1. /\ Len(s) \in Nat /\ Len(t) = Len(s) + 1 /\ t[Len(s) + 1] = v
  BY AppendPlaces
<1>2. Len(s) + 1 \in 1..Len(t) /\ (Len(s) + 2)..Len(t) = {} /\ (Len(s) + 1) + 1 = Len(s) + 2
  BY <1>1
<1>3. Log!IsTip(t, Len(s) + 1)
  BY <1>1, <1>2 DEF Log!IsTip
<1> QED BY <1>1, <1>2, <1>3 DEF Tip, Log!Started

-----------------------------------------------------------------------------
(* The steps of an engine that append nothing.                             *)

\* e begins an attempt with an id nobody used.
Draws(e) ==
  /\ eng'[e].job = eng[e].job /\ eng[e].job \in Requests
  /\ eng'[e].att = attempts[eng[e].job] + 1
  /\ eng'[e].pc = "execute"

\* A step of e after which it claims nothing new about its result stream.
Orderly(e) ==
  /\ OnlyMoves(e)
  /\ Local(e)'
  /\ Unbegun(e)' => (Unbegun(e) /\ SameJob(e)) \/ Draws(e)
  /\ Open(e)' => (Open(e) /\ SameJob(e)) \/ Draws(e)
  /\ Runs(e)' => Runs(e) /\ SameJob(e) /\ Held(e)' = Held(e)
  /\ Begun(e)' => Begun(e) /\ SameJob(e)

\* An engine that gives its job up.
LEMMA ResetOrderly ==
  ASSUME TypeOK, NEW e \in Engines, NEW pc \in {"idle", "down"}, Reset(e, pc)
  PROVE  Orderly(e)
<1>1. OnlyMoves(e) /\ eng'[e] = At(pc)
  BY ResetFacts DEF TypeOK, PCs
<1>2. eng'[e].pc \in {"idle", "down"} /\ eng'[e].att = 0 /\ eng'[e].sent = 0
  BY <1>1 DEF At
<1> QED BY <1>1, <1>2, BoundsAssumption DEF Orderly, Local, Unbegun, Open, Runs, Begun, Owes, Busy

\* A step before the attempt, or after the terminal event was appended.
LEMMA IdleOrderly ==
  ASSUME NEW e \in Engines, OnlyMoves(e), eng'[e].sent = 0, eng'[e].att = 0,
         eng'[e].pc \in {"idle", "reclaim", "begin", "status", "lease", "cancel", "ack", "down"}
           \/ (eng'[e].pc = "publish" /\ eng'[e].ev = "failed")
  PROVE  Orderly(e)
BY BoundsAssumption DEF Orderly, Local, Unbegun, Open, Runs, Begun, Owes, Busy, Terminal

\* The attempt ends.
LEMMA EndOrderly ==
  ASSUME TypeOK, NEW e \in Engines, Local(e), NEW outcome \in Outcomes, EndAttempt(e, outcome),
         Executing(e), eng[e].att # 0, outcome = "ok" => eng[e].pc = "stream"
  PROVE  Orderly(e)
<1>1. /\ OnlyMoves(e) /\ SameJob(e) /\ eng'[e].pc = "release" /\ eng'[e].sent = eng[e].sent
      /\ eng'[e].outcome = outcome
  BY EndFacts DEF TypeOK
<1>2. Open(e)
  BY DEF Open, Busy, Executing, Decided
<1>3. Local(e)'
  BY <1>1 DEF Local, SameJob, Unbegun
<1>4. Begun(e)' => Begun(e)
  BY <1>1 DEF Begun, Owes, Unbegun, Outcomes
<1> QED BY <1>1, <1>2, <1>3, <1>4 DEF Orderly, Unbegun, Runs

\* The steps of an engine that append no event are orderly.
LEMMA WorkerOrderly ==
  ASSUME TypeOK, JobsAssigned, OwnerInv, NEW e \in Engines, Local(e), Fresh(e), Worker(e),
         \A reply \in Replies : ~ XAdd(e, reply)
  PROVE  Orderly(e)
<1>a. eng \in [Engines -> EngineState] /\ eng[e].sent \in Nat /\ MaxTokens \in Nat
  BY BoundsAssumption DEF TypeOK, EngineState
<1>b. Executing(e) => eng[e].att # 0
  BY DEF OwnerInv
<1>1. ASSUME NEW reply \in Replies, NextJob(e, reply) PROVE Orderly(e)
  <2>1. CASE reply = "ok"
    <3>1. PICK r \in Requests : Begin(e, r)
      BY <1>1, <2>1 DEF NextJob
    <3> QED BY <1>a, <3>1, BeginFacts, IdleOrderly
  <2> QED BY <1>1, <2>1, ResetOrderly DEF NextJob
<1>2. ASSUME NEW reply \in Replies, NextNone(e, reply) PROVE Orderly(e)
  <2>1. CASE reply = "ok"
    <3>1. Keeps(e) /\ eng'[e].pc = "reclaim" /\ eng'[e].ev = eng[e].ev
      BY <1>2, <1>a, <2>1, StepFacts DEF NextNone, PCs, Keeps
    <3> QED BY <1>a, <3>1 DEF Keeps, SameJob, Orderly, Local, Unbegun, Open, Runs, Begun, Owes, Busy
  <2> QED BY <1>2, <2>1, ResetOrderly DEF NextNone
<1>3. ASSUME NEW reply \in Replies, Reclaim(e, reply) PROVE Orderly(e)
  <2>1. CASE reply = "ok"
    <3>1. PICK r \in Requests : Begin(e, r)
      BY <1>3, <2>1 DEF Reclaim
    <3> QED BY <1>a, <3>1, BeginFacts, IdleOrderly
  <2> QED BY <1>3, <2>1, ResetOrderly DEF Reclaim
<1>4. ASSUME NEW reply \in Replies, ReclaimNone(e, reply) PROVE Orderly(e)
  BY <1>4, ResetOrderly DEF ReclaimNone
<1>5. ASSUME NEW reply \in Replies, Ack(e, reply) PROVE Orderly(e)
  BY <1>5, ResetOrderly DEF Ack
<1>6. CASE CheckDeadline(e)
  BY <1>6, <1>a, CheckDeadlineMove
  DEF Keeps, SameJob, Orderly, Local, Unbegun, Open, Runs, Begun, Owes, Busy, Decided
<1>7. ASSUME NEW reply \in Replies, CancelLate(e, reply) PROVE Orderly(e)
  <2>1. CASE reply = "ok"
    <3>1. Keeps(e) /\ eng[e].pc = "cancel" /\ eng'[e].pc = "publish" /\ eng'[e].ev = "failed"
      BY <1>7, <2>1, <1>a, PublishFacts DEF CancelLate, Kinds, Keeps
    <3> QED BY <1>a, <3>1
        DEF Keeps, SameJob, Orderly, Local, Unbegun, Open, Runs, Begun, Owes, Busy, Decided
  <2> QED BY <1>7, <2>1, ResetOrderly DEF CancelLate
<1>8. ASSUME NEW reply \in Replies, CheckStatus(e, reply) PROVE Orderly(e)
  <2>1. CASE reply = "ok"
    <3>1. Keeps(e) /\ eng[e].pc = "status" /\ eng'[e].pc \in {"lease", "ack"}
      BY <1>8, <2>1, <1>a, StepFacts DEF CheckStatus, PCs, Keeps
    <3> QED BY <1>a, <3>1
        DEF Keeps, SameJob, Orderly, Local, Unbegun, Open, Runs, Begun, Owes, Busy, Decided
  <2> QED BY <1>8, <2>1, ResetOrderly DEF CheckStatus
<1>9. ASSUME NEW reply \in Replies, Acquire(e, reply) PROVE Orderly(e)
  <2>1. eng[e].job \in Requests /\ eng[e].pc = "lease" /\ attempts[eng[e].job] \in Nat
    BY <1>9 DEF Acquire, JobsAssigned, Busy, TypeOK
  <2>2. CASE reply = "ok" /\ lease[eng[e].job] = 0
    <3>1. /\ OnlyMoves(e) /\ eng'[e].pc = "execute" /\ eng'[e].sent = 0
          /\ eng'[e].job = eng[e].job /\ eng'[e].att = attempts[eng[e].job] + 1
      <4>1. PICK attempt \in Nat : attempt = attempts[eng[e].job] + 1
        BY <2>1
      <4>2. eng' = [eng EXCEPT ![e].pc = "execute", ![e].att = attempt, ![e].heart = "beating"]
        BY <1>9, <2>2, <4>1 DEF Acquire
      <4>3. eng[e].sent = 0
        BY <2>1 DEF Fresh
      <4> QED BY <1>a, <4>1, <4>2, <4>3, AcquireFacts
    <3>2. Draws(e) /\ eng'[e].att # 0
      BY <2>1, <3>1 DEF Draws
    <3> QED BY <1>a, <3>1, <3>2 DEF Orderly, Local, Unbegun, Runs, Begun, Owes
  <2> QED BY <1>9, <2>2, ResetOrderly DEF Acquire
<1>10. ASSUME NEW reply \in Replies, Release(e, reply) PROVE Orderly(e)
  <2>1. CASE reply = "ok"
    <3>1. Keeps(e) /\ eng[e].pc = "release" /\ eng'[e].pc = "settle" /\ eng'[e].outcome = eng[e].outcome
      BY <1>10, <2>1, <1>a, StepFacts DEF Release, PCs, Keeps
    <3> QED BY <1>a, <3>1
        DEF Keeps, SameJob, Orderly, Local, Unbegun, Open, Runs, Begun, Owes, Busy, Decided
  <2> QED BY <1>10, <2>1, ResetOrderly DEF Release
<1>11. ASSUME NEW reply \in Replies, Settle(e, reply) PROVE Orderly(e)
  <2>1. CASE reply = "ok"
    <3>1. /\ Keeps(e) /\ eng[e].pc = "settle" /\ eng'[e].pc = "publish"
          /\ eng'[e].ev = IF eng[e].outcome = "ok" THEN "completed" ELSE "failed"
      BY <1>11, <2>1, <1>a, PublishFacts DEF Settle, Kinds, Keeps
    <3> QED BY <1>a, <3>1
        DEF Keeps, SameJob, Orderly, Local, Unbegun, Open, Runs, Begun, Owes, Busy, Decided
  <2> QED BY <1>11, <2>1, ResetOrderly DEF Settle
<1>12. CASE Refuse(e)
  BY <1>12, <1>b, EndOrderly DEF Refuse, Outcomes, Executing
<1>13. CASE Start(e)
  BY <1>13, <1>a, StartMove
  DEF Keeps, SameJob, Orderly, Local, Unbegun, Open, Runs, Begun, Owes, Busy, Decided
<1>14. ASSUME NEW reply \in Replies, Record(e, reply) PROVE Orderly(e)
  <2>1. CASE reply = "ok"
    <3>1. /\ Keeps(e) /\ eng[e].pc = "record" /\ eng'[e].ev = eng[e].ev
          /\ eng'[e].pc = IF eng[e].ev \in Terminal THEN "ack" ELSE "stream"
      BY <1>14, <2>1, <1>a, StepFacts DEF Record, PCs, Keeps
    <3> QED BY <1>a, <3>1
        DEF Keeps, SameJob, Orderly, Local, Unbegun, Open, Runs, Begun, Owes, Busy, Decided, Held, Terminal
  <2>2. CASE reply # "ok" /\ eng[e].ev \in Terminal
    BY <1>14, <2>2, ResetOrderly DEF Record, PublishFails
  <2>3. CASE reply # "ok" /\ eng[e].ev \notin Terminal
    <3>1. Executing(e) /\ EndAttempt(e, "err")
      BY <1>14, <2>3 DEF Record, PublishFails, Executing
    <3> QED BY <1>b, <3>1, EndOrderly DEF Outcomes
  <2> QED BY <2>1, <2>2, <2>3
<1>15. CASE Restart(e)
  BY <1>15, ResetOrderly DEF Restart
<1>16. CASE BackendToken(e)
  <2>1. eng[e].sent < MaxTokens
    BY <1>16 DEF BackendToken
  <2> QED BY <1>16, <1>a, <2>1, BackendTokenMove
      DEF SameJob, Orderly, Local, Unbegun, Open, Runs, Begun, Owes, Busy, Decided, Held
<1>17. ASSUME NEW outcome \in Outcomes, BackendEnds(e, outcome) PROVE Orderly(e)
  BY <1>17, <1>b, EndOrderly DEF BackendEnds, Executing
<1>18. CASE HeartbeatLost(e)
  <2>1. /\ OnlyMoves(e) /\ SameJob(e)
        /\ eng'[e].pc = eng[e].pc /\ eng'[e].ev = eng[e].ev /\ eng'[e].sent = eng[e].sent
        /\ eng'[e].outcome = eng[e].outcome
    BY <1>18, <1>a, HeartbeatFacts DEF HeartbeatLost
  <2>2. /\ Unbegun(e)' = Unbegun(e) /\ Runs(e)' = Runs(e) /\ Held(e)' = Held(e)
        /\ Owes(e)' = Owes(e) /\ Busy(e)' = Busy(e) /\ Decided(e)' = Decided(e)
    BY <2>1 DEF Unbegun, Runs, Held, Owes, Busy, Decided
  <2>3. Local(e)'
    BY <2>1, <2>2 DEF Local, SameJob
  <2> QED BY <2>1, <2>2, <2>3 DEF Orderly, Open, Begun, SameJob
<1>19. CASE Crash(e)
  BY <1>19, ResetOrderly DEF Crash
<1> QED
  BY <1>1, <1>2, <1>3, <1>4, <1>5, <1>6, <1>7, <1>8, <1>9, <1>10,
     <1>11, <1>12, <1>13, <1>14, <1>15, <1>16, <1>17, <1>18, <1>19
  DEF Worker, EngineStep, BackendStep

\* Attempt ids are handed out in order.
LEMMA AttemptsGrow ==
  ASSUME TypeOK, JobsAssigned, NEW e \in Engines, Worker(e), NEW r \in Requests
  PROVE  attempts[r] <= attempts'[r] /\ attempts[r] \in Nat /\ attempts'[r] \in Nat
<1>1. attempts \in [Requests -> Nat]
  BY DEF TypeOK
<1>2. ASSUME NEW reply \in Replies, Acquire(e, reply)
      PROVE  attempts[r] <= attempts'[r] /\ attempts'[r] \in Nat
  <2>1. eng[e].job \in Requests
    BY <1>2 DEF Acquire, JobsAssigned, Busy
  <2>2. attempts' = [attempts EXCEPT ![eng[e].job] = attempts[eng[e].job] + 1]
    BY <1>2 DEF Acquire
  <2> QED BY <1>1, <2>1, <2>2
<1>3. CASE \A reply \in Replies : ~ Acquire(e, reply)
  <2>1. attempts' = attempts
    BY <1>3
    DEF Worker, EngineStep, BackendStep, NextJob, NextNone, Reclaim, ReclaimNone, Ack,
        CheckDeadline, CancelLate, CheckStatus, Release, Settle, Refuse, Start, XAdd, Record,
        Restart, BackendToken, BackendEnds, HeartbeatLost, Crash
  <2> QED BY <1>1, <2>1
<1> QED BY <1>1, <1>2, <1>3

\* What the streams hold for an engine that did not move stays true while they do.
LEMMA WrittenStays ==
  ASSUME NEW f \in Engines, eng'[f] = eng[f], NEW s, Written(f, s)
  PROVE  Written(f, s)'
BY DEF Written, Unbegun, Open, Runs, Held, Begun, Owes, Busy, Decided

\* What Wrote says of the next state.
LEMMA WroteNext ==
  ASSUME NEW f \in Engines,
         ASSUME Busy(f)', eng'[f].job \notin expired', NEW s, s = results'[eng'[f].job]
         PROVE  Written(f, s)'
  PROVE  Wrote(f)'
<1>1. SUFFICES ASSUME Busy(f)', eng'[f].job \notin expired'
               PROVE  Written(f, results[eng[f].job])'
  BY DEF Wrote
<1>2. PICK s : s = results'[eng'[f].job]
  OBVIOUS
<1>3. Written(f, s)'
  BY <1>1, <1>2
<1> QED BY <1>2, <1>3 DEF Written

\* The ids of a stream's events were drawn, so a fresh one is in none of them.
LEMMA FreshIsSilent ==
  ASSUME NEW s \in Seq(Event), NEW drawn \in Nat, NEW attempt \in Nat, attempt = drawn + 1,
         \A i \in 1..Len(s) : s[i].attempt <= drawn
  PROVE  Silence(s, attempt) /\ ~ Log!Ended(s, attempt)
<1>1. ASSUME NEW i \in 1..Len(s) PROVE s[i].attempt \in Nat
  <2>1. s[i] \in Event
    OBVIOUS
  <2> QED BY <2>1 DEF Event
<1>2. Silence(s, attempt)
  BY <1>1 DEF Silence
<1> QED BY <1>2 DEF Silence, Log!Ended

\* An orderly step keeps the invariant.
LEMMA OrderlyKeeps ==
  ASSUME TypeOK, LogInv, NEW e \in Engines, Orderly(e), results' = results, expired' = expired,
         \A r \in Requests : attempts[r] <= attempts'[r] /\ attempts[r] \in Nat /\ attempts'[r] \in Nat
  PROVE  LogInv'
<1>1. Orderly(e)
  OBVIOUS
<1>2. results' = results /\ expired' = expired
  OBVIOUS
<1>3. ASSUME NEW r \in Requests, NEW i \in 1..Len(results[r])
      PROVE  results[r][i].attempt <= attempts'[r]
  <2>1. results[r][i].attempt \in Nat
    <3>1. results[r] \in Seq(Event)
      BY DEF TypeOK
    <3>2. results[r][i] \in Event
      BY <3>1
    <3> QED BY <3>2 DEF Event
  <2>2. results[r][i].attempt <= attempts[r]
    BY DEF LogInv
  <2> QED BY <2>1, <2>2
<1>4. ASSUME NEW f \in Engines
      PROVE  Local(f)' /\ Wrote(f)'
  <2>1. CASE f # e
    <3>1. eng'[f] = eng[f]
      BY <1>1, <2>1 DEF Orderly, OnlyMoves
    <3>2. Local(f)'
      BY <3>1 DEF LogInv, Local, Unbegun, Owes
    <3>3. ASSUME Busy(f)', eng'[f].job \notin expired', NEW s, s = results'[eng'[f].job]
          PROVE  Written(f, s)'
      <4>1. Written(f, s)
        BY <1>2, <3>1, <3>3 DEF LogInv, Wrote, Busy
      <4> QED BY <3>1, <4>1, WrittenStays
    <3> QED BY <3>2, <3>3, WroteNext
  <2>2. CASE f = e
    <3>1. Local(e)'
      BY <1>1 DEF Orderly
    <3>2. ASSUME Busy(e)', eng'[e].job \notin expired', NEW s, s = results'[eng'[e].job]
          PROVE  Written(e, s)'
      <4>1. PICK a : a = eng'[e].att
        OBVIOUS
      <4>2. ASSUME Draws(e) PROVE Silence(s, a) /\ ~ Log!Ended(s, a)
        <5>1. PICK drawn \in Nat : drawn = attempts[eng[e].job]
          BY <4>2 DEF Draws, TypeOK
        <5>2. s \in Seq(Event) /\ a \in Nat /\ a = drawn + 1
          BY <1>2, <3>2, <4>1, <4>2, <5>1 DEF Draws, TypeOK
        <5>3. \A i \in 1..Len(s) : s[i].attempt <= drawn
          BY <1>2, <3>2, <4>2, <5>1 DEF Draws, LogInv
        <5> QED BY <5>2, <5>3, FreshIsSilent
      <4>3. ASSUME SameJob(e), Busy(e) PROVE Written(e, s) /\ a = eng[e].att
        BY <1>2, <3>2, <4>1, <4>3 DEF LogInv, Wrote, SameJob
      <4>4. Unbegun(e)' => Silence(s, a)
        <5>1. CASE Unbegun(e) /\ SameJob(e)
          BY <4>3, <5>1 DEF Written, Unbegun, Busy
        <5> QED BY <1>1, <4>2, <5>1 DEF Orderly
      <4>5. Open(e)' => ~ Log!Ended(s, a)
        <5>1. CASE Open(e) /\ SameJob(e)
          BY <4>3, <5>1 DEF Written, Open
        <5> QED BY <1>1, <4>2, <5>1 DEF Orderly
      <4>6. ASSUME Runs(e)' PROVE Tip(s, a, Held(e)')
        <5>1. Runs(e) /\ SameJob(e) /\ Held(e)' = Held(e)
          BY <1>1, <4>6 DEF Orderly
        <5>2. Tip(s, a, Held(e))
          BY <4>3, <5>1 DEF Written, Runs, Busy
        <5> QED BY <5>1, <5>2
      <4>7. Begun(e)' => Log!Started(s, a)
        <5>1. CASE Begun(e) /\ SameJob(e)
          BY <4>3, <5>1 DEF Written, Begun, Owes, Busy
        <5> QED BY <1>1, <5>1 DEF Orderly
      <4> QED BY <4>1, <4>4, <4>5, <4>6, <4>7 DEF Written
    <3>3. Wrote(e)'
      BY <3>2, WroteNext
    <3> QED BY <3>1, <3>3, <2>2
  <2> QED BY <2>1, <2>2
<1> QED BY <1>2, <1>3, <1>4 DEF LogInv

\* LogInv holds after a step of an engine that appends nothing.
LEMMA LogQuiet ==
  ASSUME TypeOK, JobsAssigned, OwnerInv, LogInv, NEW e \in Engines, Fresh(e), Worker(e),
         \A reply \in Replies : ~ XAdd(e, reply)
  PROVE  LogInv'
<1>1. Orderly(e)
  BY WorkerOrderly DEF LogInv
<1>2. results' = results /\ expired' = expired
  BY WorkerHonest
<1> QED BY <1>1, <1>2, OrderlyKeeps, AttemptsGrow

-----------------------------------------------------------------------------
(* The steps that append an event.                                         *)

\* The event e appends.
Said(e) == [kind |-> eng[e].ev, attempt |-> eng[e].att, n |-> eng[e].sent]

\* While e appends v, another engine's attempt of the same request is not at its chunks,
\* unless v is terminal.
LEMMA AppendElsewhere ==
  ASSUME TypeOK, OwnerInv, HeartbeatsReliable, NEW e \in Engines, NEW f \in Engines, e # f,
         eng[e].pc = "publish", Busy(f), eng[f].job = eng[e].job,
         NEW s \in Seq(Event), NEW v \in Event, v = Said(e), NEW t, t = Append(s, v),
         Written(f, s)
  PROVE  Written(f, t)
<1>1. v.attempt = eng[e].att /\ v.kind = eng[e].ev /\ Busy(e)
  BY DEF Said, Busy
<1>2. eng[f].att # 0 => v.attempt # eng[f].att
  BY <1>1 DEF OwnerInv
<1>3. Unbegun(f) => Silence(t, eng[f].att)
  <2>1. Unbegun(f) => Executing(f)
    BY DEF Unbegun, Executing, Terminal
  <2>2. Unbegun(f) => eng[f].att # 0
    BY <2>1 DEF OwnerInv
  <2> QED BY <1>2, <2>2, AppendOther DEF Written
<1>4. Open(f) => ~ Log!Ended(t, eng[f].att)
  BY <1>2, AppendOther DEF Written, Open
<1>5. ASSUME Runs(f) PROVE Tip(t, eng[f].att, Held(f))
  <2>1. Executing(f)
    BY <1>5 DEF Runs, Executing, Terminal
  <2>2. v.kind \in Terminal
    <3>1. SUFFICES ASSUME v.kind \notin Terminal PROVE FALSE
      OBVIOUS
    <3>2. Executing(e)
      BY <1>1, <3>1 DEF Executing
    <3> QED BY <1>1, <1>2, <2>1, <3>2 DEF OwnerInv
  <2> QED BY <1>5, <2>2, AppendKeeps DEF Written
<1>6. Begun(f) => Log!Started(t, eng[f].att)
  BY AppendKeeps DEF Written
<1> QED BY <1>3, <1>4, <1>5, <1>6 DEF Written

\* e appends, or fails to, and keeps its place.
LEMMA XAddLocal ==
  ASSUME TypeOK, OwnerInv, NEW e \in Engines, Local(e), NEW reply \in Replies, XAdd(e, reply)
  PROVE  OnlyMoves(e) /\ Local(e)'
<1>a. eng \in [Engines -> EngineState] /\ eng[e].pc = "publish"
  BY DEF TypeOK, XAdd
<1>1. CASE reply # "ok" /\ eng[e].ev \in Terminal
  BY <1>1, ResetOrderly DEF XAdd, PublishFails, Orderly
<1>2. CASE reply # "ok" /\ eng[e].ev \notin Terminal
  <2>1. Executing(e)
    BY <1>2, <1>a DEF Executing
  <2>2. EndAttempt(e, "err") /\ eng[e].att # 0
    BY <1>2, <2>1 DEF XAdd, PublishFails, OwnerInv
  <2> QED BY <2>1, <2>2, EndOrderly DEF Outcomes, Orderly
<1>3. CASE reply = "ok"
  <2>1. /\ eng'[e].pc = "record" /\ eng'[e].ev = eng[e].ev /\ SameJob(e)
        /\ eng'[e].sent = eng[e].sent /\ OnlyMoves(e)
    BY <1>3, <1>a, StepFacts DEF XAdd, PCs
  <2> QED BY <1>a, <2>1 DEF Local, SameJob, Unbegun, Owes
<1> QED BY <1>1, <1>2, <1>3

\* What e's own append makes of its attempt.
LEMMA AppendHere ==
  ASSUME TypeOK, OwnerInv, NEW e \in Engines, Local(e), NEW reply \in Replies, XAdd(e, reply),
         NEW s \in Seq(Event), NEW v \in Event, v = Said(e), NEW t, t = Append(s, v),
         Written(e, s)
  PROVE  Written(e, t)'
<1>a. eng \in [Engines -> EngineState] /\ eng[e].sent \in Nat /\ MaxTokens \in Nat
  BY BoundsAssumption DEF TypeOK, EngineState
<1>b. v.attempt = eng[e].att /\ v.kind = eng[e].ev /\ v.n = eng[e].sent /\ eng[e].pc = "publish"
  BY DEF Said, XAdd
<1>1. CASE reply # "ok" /\ eng[e].ev \in Terminal
  <2>1. eng'[e] = At("idle")
    BY <1>1, <1>a, ResetFacts DEF XAdd, PublishFails, PCs
  <2>2. eng'[e].pc = "idle" /\ eng'[e].att = 0 /\ eng'[e].sent = 0
    BY <2>1 DEF At
  <2> QED BY <2>2 DEF Written, Unbegun, Open, Runs, Begun, Owes, Busy
<1>2. CASE reply # "ok" /\ eng[e].ev \notin Terminal
  <2>1. /\ eng'[e].pc = "release" /\ eng'[e].outcome = "err" /\ SameJob(e)
        /\ eng'[e].sent = eng[e].sent
    BY <1>2, <1>a, EndFacts DEF XAdd, PublishFails, Outcomes
  <2>2. Executing(e)
    BY <1>2, <1>b DEF Executing
  <2>3. Open(e)
    BY <2>2, <1>b DEF Open, Busy, Decided, OwnerInv
  <2>4. ~ Log!Ended(t, eng[e].att)
    BY <1>2, <1>b, <2>3, AppendOther DEF Written
  <2> QED BY <2>1, <2>4 DEF Written, SameJob, Unbegun, Runs, Begun, Owes
<1>3. CASE reply = "ok"
  <2>1. /\ eng'[e].pc = "record" /\ eng'[e].ev = eng[e].ev /\ SameJob(e)
        /\ eng'[e].sent = eng[e].sent
    BY <1>3, <1>a, StepFacts DEF XAdd, PCs
  <2>3. Open(e)' => ~ Log!Ended(t, eng[e].att)
    <3>1. Open(e)' => eng[e].ev \notin Terminal /\ Open(e)
      BY <1>b, <2>1 DEF Open, Busy, Decided, SameJob
    <3> QED BY <1>b, <3>1, AppendOther DEF Written
  <2>4. Runs(e)' => Tip(t, eng[e].att, eng[e].sent)
    <3>1. Runs(e)' => eng[e].ev \in {"started", "token"}
      BY <1>a, <2>1 DEF Runs, Terminal, EngineState, Kinds
    <3> QED BY <1>b, <3>1, AppendTip
  <2>5. Begun(e)' => Log!Started(t, eng[e].att)
    <3>1. CASE eng[e].ev = "started"
      <4>1. eng[e].sent = 0
        BY <1>b, <3>1 DEF Local, Unbegun
      <4>2. v = [kind |-> "started", attempt |-> v.attempt, n |-> 0]
        BY <1>b, <3>1, <4>1 DEF Said
      <4> QED BY <1>b, <3>1, <4>2, AppendTip
    <3>2. CASE eng[e].ev # "started"
      <4>1. Begun(e)' => Begun(e)
        BY <1>b, <2>1, <3>2 DEF Begun, Owes, Unbegun
      <4> QED BY <4>1, AppendKeeps DEF Written
    <3> QED BY <3>1, <3>2
  <2>6. Held(e)' = eng[e].sent /\ ~ Unbegun(e)'
    BY <2>1 DEF Held, Unbegun
  <2> QED BY <2>1, <2>3, <2>4, <2>5, <2>6 DEF Written, SameJob
<1> QED BY <1>1, <1>2, <1>3

\* LogInv holds after an engine's XADD, whatever its reply.
LEMMA LogXAdd ==
  ASSUME TypeOK, JobsAssigned, OwnerInv, LogInv, HeartbeatsReliable, NEW e \in Engines,
         NEW reply \in Replies, XAdd(e, reply)
  PROVE  LogInv'
<1>1. PICK r, v : r = eng[e].job /\ v = Said(e)
  OBVIOUS
<1>2. r \in Requests /\ eng[e].pc = "publish" /\ Busy(e)
  BY <1>1 DEF XAdd, JobsAssigned, Busy
<1>3. v \in Event /\ v.attempt = eng[e].att
  BY <1>1 DEF Said, Event, EngineState, TypeOK
<1>4. AddResult(r, v, reply) /\ attempts' = attempts
  BY <1>1 DEF XAdd, Said
<1>5. expired' = expired
  BY <1>4 DEF AddResult
<1>6. OnlyMoves(e) /\ Local(e)'
  BY XAddLocal DEF LogInv
<1>7. PICK s, t : s = results[r] /\ t = Append(s, v)
  OBVIOUS
<1>8. s \in Seq(Event)
  BY <1>2, <1>7 DEF TypeOK
<1>9. CASE ~ Lands(reply)
  <2>1. results' = results
    BY <1>4, <1>9 DEF AddResult
  <2>2. Orderly(e)
    <3>1. CASE eng[e].ev \in Terminal
      BY <1>9, <3>1, ResetOrderly DEF XAdd, PublishFails, Lands
    <3>2. CASE eng[e].ev \notin Terminal
      <4>1. Executing(e)
        BY <1>2, <3>2 DEF Executing
      <4>2. EndAttempt(e, "err") /\ eng[e].att # 0
        BY <1>9, <3>2, <4>1 DEF XAdd, PublishFails, OwnerInv, Lands
      <4> QED BY <4>1, <4>2, EndOrderly DEF Outcomes, LogInv
    <3> QED BY <3>1, <3>2
  <2>3. \A q \in Requests : attempts[q] <= attempts'[q] /\ attempts[q] \in Nat /\ attempts'[q] \in Nat
    BY <1>4 DEF TypeOK
  <2> QED BY <1>5, <2>1, <2>2, <2>3, OrderlyKeeps
<1>10. CASE Lands(reply)
  <2>1. /\ results'[r] = t
        /\ \A q \in Requests : q # r => results'[q] = results[q]
    BY <1>2, <1>4, <1>7, <1>10 DEF AddResult, TypeOK
  <2>2. ASSUME NEW q \in Requests, NEW i \in 1..Len(results'[q])
        PROVE  results'[q][i].attempt <= attempts'[q]
    <3>1. CASE q = r /\ i = Len(s) + 1
      <4>1. results'[q][i] = v
        BY <1>3, <1>7, <1>8, <2>1, <3>1, AppendPlaces
      <4>2. eng[e].att <= attempts[r]
        BY <1>1, <1>2 DEF OwnerInv
      <4> QED BY <1>3, <1>4, <3>1, <4>1, <4>2
    <3>2. CASE q = r /\ i # Len(s) + 1
      <4>1. i \in 1..Len(s) /\ results'[q][i] = results[q][i]
        BY <1>3, <1>7, <1>8, <2>1, <2>2, <3>2, AppendPlaces
      <4> QED BY <1>4, <1>7, <3>2, <4>1 DEF LogInv
    <3>3. CASE q # r
      BY <1>4, <2>1, <2>2, <3>3 DEF LogInv
    <3> QED BY <3>1, <3>2, <3>3
  <2>3. ASSUME NEW f \in Engines PROVE Local(f)' /\ Wrote(f)'
    <3>1. CASE f = e
      <4>1. ASSUME Busy(f)', eng'[f].job \notin expired', NEW u, u = results'[eng'[f].job]
            PROVE  Written(f, u)'
        <5>1. eng'[e].job = r
          BY <3>1, <4>1, <1>1, XAddMove DEF Keeps, Rests, SameJob
        <5>2. u = t /\ r \notin expired
          BY <1>5, <2>1, <3>1, <4>1, <5>1
        <5>3. Written(e, s)
          BY <1>1, <1>2, <1>7, <5>2 DEF LogInv, Wrote
        <5>4. Written(e, t)'
          BY <1>1, <1>3, <1>7, <1>8, <5>3, AppendHere DEF LogInv
        <5> QED BY <3>1, <5>2, <5>4
      <4> QED BY <1>6, <3>1, <4>1, WroteNext
    <3>2. CASE f # e
      <4>1. eng'[f] = eng[f]
        BY <1>6, <3>2 DEF OnlyMoves
      <4>2. Local(f)'
        BY <4>1 DEF LogInv, Local, Unbegun, Owes
      <4>3. ASSUME Busy(f)', eng'[f].job \notin expired', NEW u, u = results'[eng'[f].job]
            PROVE  Written(f, u)'
        <5>1. Busy(f) /\ eng[f].job \in Requests /\ eng[f].job \notin expired
          BY <1>5, <4>1, <4>3 DEF Busy, JobsAssigned
        <5>2. PICK w : w = results[eng[f].job]
          OBVIOUS
        <5>3. Written(f, w)
          BY <5>1, <5>2 DEF LogInv, Wrote
        <5>4. Written(f, u)
          <6>1. CASE eng[f].job = r
            <7>1. w = s /\ u = t
              BY <1>7, <2>1, <4>1, <4>3, <5>2, <6>1
            <7> QED BY <1>1, <1>2, <1>3, <1>7, <1>8, <3>2, <5>1, <5>3, <6>1, <7>1, AppendElsewhere
          <6>2. CASE eng[f].job # r
            BY <2>1, <4>1, <4>3, <5>1, <5>2, <5>3, <6>2
          <6> QED BY <6>1, <6>2
        <5> QED BY <4>1, <5>4, WrittenStays
      <4> QED BY <4>2, <4>3, WroteNext
    <3> QED BY <3>1, <3>2
  <2> QED BY <2>2, <2>3 DEF LogInv
<1> QED BY <1>9, <1>10

\* The front end and time leave the engines and the result streams alone, unless one expires.
LEMMA LogUntouched ==
  ASSUME NEW r \in Requests, FrontEnd(r) \/ Time(r)
  PROVE  /\ eng' = eng /\ attempts' = attempts
         /\ (results' = results /\ expired' = expired) \/ ResultExpires(r)
<1> USE DEF resultVars, engineVars
<1>1. CASE FrontEnd(r)
  BY <1>1 DEF FrontEnd, Arrive, DispatchStep, Reject, Reserve, PublishJob, PublishStatus,
              CancelDispatch, Drop, ReserveQuota, AddJob, MarkQueued, CloseReservation,
              NoCommand, streamsVars
<1>2. CASE ResultExpires(r) /\ UNCHANGED <<fe, engineVars>>
  BY <1>2
<1>3. CASE \/ BecomeStale(r) \/ PassDeadline(r) \/ LeaseExpires(r)
           \/ (ReservationExpires(r) \/ StatusExpires(r)) /\ UNCHANGED <<fe, engineVars>>
  BY <1>3 DEF BecomeStale, GrowStale, PassDeadline, DeadlinePasses, LeaseExpires, LeaseLapses,
              ReservationExpires, StatusExpires
<1> QED BY <1>1, <1>2, <1>3 DEF Time, KeyExpires

\* LogInv survives a step that changes no engine and at most forgets streams.
LEMMA LogRests ==
  ASSUME TypeOK, JobsAssigned, LogInv, eng' = eng, attempts' = attempts, expired \subseteq expired',
         \A q \in Requests : results'[q] = results[q] \/ (q \in expired' /\ results'[q] = <<>>)
  PROVE  LogInv'
<1>1. ASSUME NEW q \in Requests, NEW i \in 1..Len(results'[q])
      PROVE  results'[q][i].attempt <= attempts'[q]
  <2>1. CASE results'[q] = results[q]
    BY <1>1, <2>1 DEF LogInv
  <2>2. CASE results'[q] = <<>>
    BY <1>1, <2>2
  <2> QED BY <2>1, <2>2
<1>2. ASSUME NEW f \in Engines PROVE Local(f)' /\ Wrote(f)'
  <2>1. Local(f)'
    BY DEF LogInv, Local, Unbegun, Owes
  <2>2. ASSUME Busy(f)', eng'[f].job \notin expired', NEW u, u = results'[eng'[f].job]
        PROVE  Written(f, u)'
    <3>1. Busy(f) /\ eng[f].job \in Requests
      BY <2>2 DEF Busy, JobsAssigned
    <3>2. eng[f].job \notin expired /\ u = results[eng[f].job]
      BY <2>2, <3>1
    <3>3. Written(f, u)
      BY <3>1, <3>2 DEF LogInv, Wrote
    <3> QED BY <3>3, WrittenStays
  <2> QED BY <2>1, <2>2, WroteNext
<1> QED BY <1>1, <1>2 DEF LogInv

\* The front end writes to no result stream, and one that expires makes no promise.
LEMMA LogOthers ==
  ASSUME TypeOK, JobsAssigned, LogInv, NEW r \in Requests, FrontEnd(r) \/ Time(r)
  PROVE  LogInv'
<1>1. /\ eng' = eng /\ attempts' = attempts
      /\ (results' = results /\ expired' = expired) \/ ResultExpires(r)
  BY LogUntouched
<1>2. /\ expired \subseteq expired'
      /\ \A q \in Requests : results'[q] = results[q] \/ (q \in expired' /\ results'[q] = <<>>)
  BY <1>1 DEF ResultExpires, TypeOK
<1> QED BY <1>1, <1>2, LogRests

-----------------------------------------------------------------------------
(* The abstract log's steps.                                               *)

\* A step of the abstract log, or none.
LogStep == Log!LogNext \/ UNCHANGED Log!logVars

\* The fields make the event.
LEMMA EventFields ==
  ASSUME NEW v \in Event
  PROVE  v = [kind |-> v.kind, attempt |-> v.attempt, n |-> v.n]
BY DEF Event

\* What an engine paid for is what the log requires of a completion.
LEMMA PaidHasChunks ==
  ASSUME NEW s \in Seq(Event), NEW attempt, NEW n \in Nat, \A m \in 1..n : Chunk(s, attempt, m)
  PROVE  Log!HasChunks(s, attempt, n)
<1>1. ASSUME NEW m \in 1..n
      PROVE  \E i \in 1..Len(s) : s[i] = [kind |-> "token", attempt |-> attempt, n |-> m]
  <2>1. PICK i \in 1..Len(s) : IsChunk(s[i], attempt, m)
    BY DEF Chunk
  <2>2. s[i] \in Event
    BY <2>1
  <2>3. s[i] = [kind |-> "token", attempt |-> attempt, n |-> m]
    BY <2>1, <2>2, EventFields DEF IsChunk
  <2> QED BY <2>1, <2>3
<1> QED BY <1>1 DEF Log!HasChunks

\* XADD of a result event is the abstract log's step for its kind.
LEMMA XAddExtends ==
  ASSUME IInv, WholeInv, LogInv, BoundInv, NEW e \in Engines, NEW reply \in Replies, XAdd(e, reply)
  PROVE  LogStep
<1>1. TypeOK /\ JobsAssigned /\ OwnerInv /\ Local(e) /\ Pays(e) /\ Wrote(e)
  BY DEF IInv, LogInv, WholeInv
<1>2. PICK r, v, a, n : r = eng[e].job /\ v = Said(e) /\ a = eng[e].att /\ n = eng[e].sent
  OBVIOUS
<1>3. r \in Requests /\ eng[e].pc = "publish" /\ Busy(e) /\ eng[e].ev \in Kinds
  BY <1>1, <1>2 DEF XAdd, JobsAssigned, Busy, TypeOK, EngineState
<1>4. a \in Nat /\ n \in Nat /\ MaxTokens \in Nat /\ n \in 0..MaxTokens
  BY <1>1, <1>2, BoundsAssumption DEF TypeOK, EngineState, Local
<1>5. v = [kind |-> eng[e].ev, attempt |-> a, n |-> n]
  BY <1>2 DEF Said
<1>6. AddResult(r, v, reply)
  BY <1>2 DEF XAdd, Said
<1>7. expired' = expired
  BY <1>6 DEF AddResult
<1>8. a \in 0..MaxAttempts
  <2>1. a <= attempts[r] /\ attempts[r] \in 0..MaxAttempts /\ MaxAttempts \in Nat
    BY <1>1, <1>2, <1>3, AttemptsInRange, MaxAttemptsAssumption DEF OwnerInv
  <2> QED BY <1>4, <2>1
<1>9. PICK s : s = results[r] /\ s \in Seq(Event)
  BY <1>1, <1>3 DEF TypeOK
<1>10. CASE ~ Lands(reply)
  BY <1>6, <1>7, <1>10 DEF AddResult, LogStep, Log!logVars
<1>11. CASE Lands(reply)
  <2>1. results' = [results EXCEPT ![r] = Append(@, v)]
    BY <1>6, <1>11 DEF AddResult
  <2>2. CASE r \in expired
    <3>1. Log!WriteLate(r, eng[e].ev, a, n)
      BY <1>5, <1>7, <2>1, <2>2 DEF Log!WriteLate
    <3>2. eng[e].ev \in Log!Kinds /\ a \in (1..MaxAttempts) \cup {0}
      BY <1>3, <1>4, <1>8, MaxAttemptsAssumption DEF Kinds, Log!Kinds
    <3> QED BY <1>3, <1>4, <3>1, <3>2 DEF LogStep, Log!LogNext
  <2>3. CASE r \notin expired
    <3>1. Written(e, s)
      BY <1>1, <1>2, <1>3, <1>9, <2>3 DEF Wrote
    <3>2. Log!Extend(r, eng[e].ev, a, n)
      BY <1>5, <1>7, <2>1, <2>3 DEF Log!Extend
    <3>3. a # 0 => a \in 1..MaxAttempts /\ ~ Log!Ended(s, a)
      <4>1. a # 0 => Open(e)
        BY <1>2, <1>3 DEF Open, Decided
      <4> QED BY <1>2, <1>4, <1>8, <3>1, <4>1, MaxAttemptsAssumption DEF Written
    <3>4. CASE eng[e].ev = "started"
      <4>1. a # 0 /\ n = 0 /\ Silence(s, a)
        BY <1>1, <1>2, <1>3, <3>1, <3>4 DEF Local, Owes, Unbegun, Written
      <4>2. Log!StartAttempt(r, a)
        BY <1>9, <3>2, <3>4, <4>1 DEF Log!StartAttempt, Silence
      <4> QED BY <1>3, <3>3, <4>1, <4>2 DEF LogStep, Log!LogNext
    <3>5. CASE eng[e].ev = "token"
      <4>1. a # 0 /\ n # 0 /\ Tip(s, a, n - 1)
        BY <1>1, <1>2, <1>3, <3>1, <3>5 DEF Local, Owes, Runs, Held, Written
      <4>2. PICK i \in 1..Len(s) : Log!IsTip(s, i) /\ s[i].attempt = a /\ s[i].n = n - 1
        BY <4>1 DEF Tip
      <4>3. s[i].n < MaxTokens /\ n = s[i].n + 1
        BY <1>4, <4>1, <4>2
      <4>4. Log!AddChunk(r)
        BY <1>9, <3>2, <3>3, <3>5, <4>1, <4>2, <4>3 DEF Log!AddChunk
      <4> QED BY <1>3, <4>4 DEF LogStep, Log!LogNext
    <3>6. CASE eng[e].ev = "completed"
      <4>1. Owes(e) /\ Begun(e) /\ a # 0 /\ Held(e) = n
        BY <1>1, <1>2, <1>3, <3>6 DEF Local, Owes, Begun, Unbegun, Held
      <4>2. Log!Started(s, a)
        BY <1>2, <3>1, <4>1 DEF Written
      <4>3. \A m \in 1..n : Chunk(s, a, m)
        BY <1>1, <1>2, <1>9, <2>3, <4>1 DEF Pays
      <4>4. Log!HasChunks(s, a, n)
        BY <1>4, <1>9, <4>3, PaidHasChunks
      <4>5. Log!Complete(r, a, n)
        BY <1>9, <3>2, <3>3, <3>6, <4>1, <4>2, <4>4 DEF Log!Complete
      <4> QED BY <1>3, <1>4, <3>3, <4>1, <4>5 DEF LogStep, Log!LogNext
    <3>7. CASE eng[e].ev = "failed"
      <4>1. CASE a = 0
        <5>1. n = 0
          BY <1>1, <1>2, <4>1 DEF Local
        <5>2. Log!FailLate(r)
          BY <3>2, <3>7, <4>1, <5>1 DEF Log!FailLate
        <5> QED BY <1>3, <5>2 DEF LogStep, Log!LogNext
      <4>2. CASE a # 0
        <5>1. Log!Fail(r, a, n)
          BY <1>9, <3>2, <3>3, <3>7, <4>2 DEF Log!Fail
        <5> QED BY <1>3, <1>4, <3>3, <4>2, <5>1 DEF LogStep, Log!LogNext
      <4> QED BY <4>1, <4>2
    <3> QED BY <1>3, <3>4, <3>5, <3>6, <3>7 DEF Kinds
  <2> QED BY <2>2, <2>3
<1> QED BY <1>10, <1>11

\* The engines keep LogInv.
LEMMA LogWorker ==
  ASSUME IInv, WholeInv, LogInv, BoundInv, HeartbeatsReliable, NEW e \in Engines, Worker(e)
  PROVE  LogInv' /\ LogStep
<1>1. TypeOK /\ JobsAssigned /\ OwnerInv /\ Fresh(e)
  BY DEF IInv, WholeInv
<1>2. ASSUME NEW reply \in Replies, XAdd(e, reply) PROVE LogInv' /\ LogStep
  BY <1>1, <1>2, LogXAdd, XAddExtends
<1>3. CASE \A reply \in Replies : ~ XAdd(e, reply)
  <2>1. LogInv'
    BY <1>1, <1>3, LogQuiet
  <2>2. results' = results /\ expired' = expired
    BY <1>1, <1>3, WorkerHonest
  <2> QED BY <2>1, <2>2 DEF LogStep, Log!logVars
<1> QED BY <1>2, <1>3

\* A stream that expires closes its log; nothing else outside the engines touches one.
LEMMA OthersExpire ==
  ASSUME TypeOK, NEW r \in Requests, FrontEnd(r) \/ Time(r)
  PROVE  LogStep
<1>1. (results' = results /\ expired' = expired) \/ ResultExpires(r)
  BY LogUntouched
<1>2. CASE ResultExpires(r)
  <2>1. Log!Expire(r)
    BY <1>2 DEF ResultExpires, Log!Expire
  <2> QED BY <2>1 DEF LogStep, Log!LogNext
<1>3. CASE results' = results /\ expired' = expired
  BY <1>3 DEF LogStep, Log!logVars
<1> QED BY <1>1, <1>2, <1>3

\* Initially every log is empty.
LEMMA LogInit == Init => Log!LogInit /\ LogInv
<1> SUFFICES ASSUME Init PROVE Log!LogInit /\ LogInv
  OBVIOUS
<1>1. \A e \in Engines : eng[e].pc = "idle" /\ eng[e].att = 0 /\ eng[e].sent = 0
  BY DEF Init, EngineInit, At
<1>2. results = [r \in Requests |-> <<>>] /\ expired = {}
  BY DEF Init, StreamsInit
<1>3. \A e \in Engines : Local(e) /\ Wrote(e)
  BY <1>1, BoundsAssumption DEF Local, Wrote, Unbegun, Owes, Busy
<1>4. \A r \in Requests : Len(results[r]) = 0
  BY <1>2
<1>5. LogInv
  BY <1>3, <1>4 DEF LogInv
<1> QED BY <1>2, <1>5 DEF Log!LogInit

(***************************************************************************)
(* While heartbeats keep their leases the result streams implement         *)
(* AttemptLog: one attempt at a time adds its chunks, in order, and a      *)
(* completed event follows all of them, whatever crashes, fails or is      *)
(* executed again.                                                         *)
(***************************************************************************)
THEOREM RefinesAttemptLog == HeartbeatsReliable => (Spec => ImplementsAttemptLog)
<1> SUFFICES ASSUME HeartbeatsReliable PROVE Spec => ImplementsAttemptLog
  OBVIOUS
<1>1. IInv /\ WholeInv /\ BoundInv /\ LogInv /\ [Next]_vars
        => LogInv' /\ [Log!LogNext]_(Log!logVars)
  <2> SUFFICES ASSUME IInv, WholeInv, BoundInv, LogInv, [Next]_vars
               PROVE  LogInv' /\ LogStep
    BY DEF LogStep
  <2>0. TypeOK /\ JobsAssigned
    BY DEF IInv
  <2>1. CASE UNCHANGED vars
    <3>1. UNCHANGED <<results, expired, eng, attempts>>
      BY <2>1 DEF vars, streamsVars, resultVars, engineVars
    <3>2. LogInv'
      BY <2>0, <3>1, LogRests
    <3> QED BY <3>1, <3>2 DEF LogStep, Log!logVars
  <2>2. ASSUME NEW r \in Requests, FrontEnd(r) \/ Time(r) PROVE LogInv' /\ LogStep
    BY <2>0, <2>2, LogOthers, OthersExpire
  <2>3. ASSUME NEW e \in Engines, Worker(e) PROVE LogInv' /\ LogStep
    BY <2>3, LogWorker
  <2> QED BY <2>1, <2>2, <2>3 DEF Next
<1> QED BY <1>1, LogInit, Invariance, WholeInvariance, AttemptsBounded, PTL
        DEF Spec, ImplementsAttemptLog, Log!LogSpec

-----------------------------------------------------------------------------
(* Without reliable heartbeats attempts may interleave, but what e's own   *)
(* state says about its attempt (Local) does not depend on other engines.  *)

LocalInv == \A e \in Engines : Local(e)

\* A step of e keeps the others' part.
LEMMA LocalMoves ==
  ASSUME LocalInv, NEW e \in Engines, OnlyMoves(e), Local(e)'
  PROVE  LocalInv'
<1>1. ASSUME NEW f \in Engines, f # e PROVE Local(f)'
  <2>1. eng'[f] = eng[f]
    BY <1>1 DEF OnlyMoves
  <2> QED BY <2>1 DEF LocalInv, Local, Unbegun, Owes
<1> QED BY <1>1 DEF LocalInv

\* It holds of every engine, with or without its lease.
THEOREM LocalInvariance == Spec => []LocalInv
<1>1. Init => LocalInv
  BY LogInit DEF LogInv, LocalInv
<1>2. IInv /\ WholeInv /\ LocalInv /\ [Next]_vars => LocalInv'
  <2> SUFFICES ASSUME IInv, WholeInv, LocalInv, [Next]_vars PROVE LocalInv'
    OBVIOUS
  <2>1. TypeOK /\ JobsAssigned /\ OwnerInv
    BY DEF IInv
  <2>2. ASSUME eng' = eng PROVE LocalInv'
    BY <2>2 DEF LocalInv, Local, Unbegun, Owes
  <2>3. ASSUME NEW r \in Requests, FrontEnd(r) \/ Time(r) PROVE LocalInv'
    BY <2>2, <2>3, LogUntouched
  <2>4. ASSUME NEW e \in Engines, Worker(e) PROVE LocalInv'
    <3>1. Local(e) /\ Fresh(e)
      BY DEF LocalInv, WholeInv
    <3>2. OnlyMoves(e) /\ Local(e)'
      <4>1. ASSUME NEW reply \in Replies, XAdd(e, reply) PROVE OnlyMoves(e) /\ Local(e)'
        BY <2>1, <3>1, <4>1, XAddLocal
      <4>2. CASE \A reply \in Replies : ~ XAdd(e, reply)
        BY <2>1, <2>4, <3>1, <4>2, WorkerOrderly DEF Orderly
      <4> QED BY <4>1, <4>2
    <3> QED BY <3>2, LocalMoves
  <2>5. CASE UNCHANGED vars
    BY <2>2, <2>5 DEF vars, engineVars
  <2> QED BY <2>3, <2>4, <2>5 DEF Next
<1> QED BY <1>1, <1>2, Invariance, WholeInvariance, PTL DEF Spec

\* A step of the result log, or none.
StreamStep == Log!StreamNext \/ UNCHANGED Log!logVars

\* XADD of a result event is the result log's Write of it.
LEMMA XAddWrites ==
  ASSUME IInv, WholeInv, BoundInv, LocalInv, NEW e \in Engines, NEW reply \in Replies,
         XAdd(e, reply)
  PROVE  StreamStep
<1>1. TypeOK /\ JobsAssigned /\ OwnerInv /\ Local(e) /\ Pays(e)
  BY DEF IInv, LocalInv, WholeInv
<1>2. PICK r, v : r = eng[e].job /\ v = Said(e)
  OBVIOUS
<1>3. r \in Requests /\ eng[e].pc = "publish" /\ eng[e].ev \in Kinds
  BY <1>1, <1>2 DEF XAdd, JobsAssigned, Busy, TypeOK, EngineState
<1>4. AddResult(r, v, reply)
  BY <1>2 DEF XAdd, Said
<1>5. eng[e].att \in 0..MaxAttempts /\ eng[e].sent \in 0..MaxTokens
  <2>1. eng[e].att <= attempts[r] /\ attempts[r] \in 0..MaxAttempts
    BY <1>1, <1>2, <1>3, AttemptsInRange DEF OwnerInv, Busy
  <2>2. eng[e].att \in Nat /\ eng[e].sent \in Nat /\ eng[e].sent <= MaxTokens
    BY <1>1 DEF TypeOK, EngineState, Local
  <2> QED BY <2>1, <2>2, BoundsAssumption, MaxAttemptsAssumption
<1>6. v \in Log!Events
  BY <1>2, <1>3, <1>5, MaxAttemptsAssumption DEF Said, Kinds, Log!Kinds, Log!Events
<1>7. CASE ~ Lands(reply)
  BY <1>4, <1>7 DEF AddResult, StreamStep, Log!logVars
<1>8. CASE Lands(reply)
  <2>1. r \notin expired /\ v.kind = "completed" => Log!HasChunks(results[r], v.attempt, v.n)
    <3> SUFFICES ASSUME r \notin expired, v.kind = "completed"
                 PROVE  Log!HasChunks(results[r], v.attempt, v.n)
      OBVIOUS
    <3>1. eng[e].ev = "completed" /\ v.attempt = eng[e].att /\ v.n = eng[e].sent
      BY <1>2 DEF Said
    <3>2. Owes(e) /\ Held(e) = eng[e].sent
      BY <1>3, <3>1 DEF Owes, Held
    <3>3. \A m \in 1..eng[e].sent : Chunk(results[r], eng[e].att, m)
      BY <1>1, <1>2, <3>2 DEF Pays
    <3>4. results[r] \in Seq(Event) /\ eng[e].sent \in Nat
      BY <1>1, <1>3 DEF TypeOK, EngineState
    <3> QED BY <3>1, <3>3, <3>4, PaidHasChunks
  <2>2. Log!Write(r, v)
    BY <1>4, <1>8, <2>1 DEF AddResult, Log!Write
  <2> QED BY <1>3, <1>6, <2>2 DEF StreamStep, Log!StreamNext
<1> QED BY <1>7, <1>8

\* Only an XADD and an expiration change a result stream.
LEMMA StreamsWritten ==
  ASSUME IInv, WholeInv, BoundInv, LocalInv, Next
  PROVE  StreamStep
<1>1. TypeOK /\ JobsAssigned
  BY DEF IInv
<1>2. ASSUME NEW r \in Requests, FrontEnd(r) \/ Time(r) PROVE StreamStep
  <2>1. CASE ResultExpires(r)
    <3>1. Log!Expire(r)
      BY <2>1 DEF ResultExpires, Log!Expire
    <3> QED BY <3>1 DEF StreamStep, Log!StreamNext
  <2>2. CASE results' = results /\ expired' = expired
    BY <2>2 DEF StreamStep, Log!logVars
  <2> QED BY <1>2, <2>1, <2>2, LogUntouched
<1>3. ASSUME NEW e \in Engines, Worker(e) PROVE StreamStep
  <2>1. CASE \A reply \in Replies : ~ XAdd(e, reply)
    <3>1. results' = results /\ expired' = expired
      BY <1>1, <1>3, <2>1, WorkerHonest DEF WholeInv
    <3> QED BY <3>1 DEF StreamStep, Log!logVars
  <2> QED BY <2>1, XAddWrites
<1> QED BY <1>2, <1>3 DEF Next

(***************************************************************************)
(* The result streams implement ResultLog whatever leases, replies and     *)
(* engines are lost: engines only append, and none completes an attempt    *)
(* whose chunks are not all in the stream before it.                       *)
(***************************************************************************)
THEOREM RefinesResultLog == Spec => ImplementsResultLog
<1>1. IInv /\ WholeInv /\ BoundInv /\ LocalInv /\ [Next]_vars
        => [Log!StreamNext]_(Log!logVars)
  <2> SUFFICES ASSUME IInv, WholeInv, BoundInv, LocalInv, [Next]_vars PROVE StreamStep
    BY DEF StreamStep
  <2>1. CASE UNCHANGED vars
    BY <2>1 DEF StreamStep, Log!logVars, vars, streamsVars, resultVars
  <2> QED BY <2>1, StreamsWritten
<1> QED BY <1>1, LogInit, Invariance, WholeInvariance, AttemptsBounded, LocalInvariance, PTL
        DEF Spec, ImplementsResultLog, Log!StreamSpec

-----------------------------------------------------------------------------
(* The data plane with its clients.  A step of the data plane changes the  *)
(* result streams, or which requests have a status and a handler that goes *)
(* on to read, but never both.                                             *)

Known     == {r \in Requests : status[r] # "none"}
Published == {r \in Requests : fe[r] = "published"}

\* A step that clients do not see in the status.
Unmarked == Known' = Known /\ Published' = Published

\* publish_generation's HSET, publish_result's MULTI block, or the status's expiration.
Marked(r) ==
  /\ results' = results /\ expired' = expired
  /\ \/ Known' = Known \cup {r} /\ (Published' = Published \cup {r} \/ Published' = Published)
     \/ Known' = Known \ {r} /\ Published' = Published

\* The front end marks a request when it publishes it.
LEMMA FrontEndMarks ==
  ASSUME TypeOK, NEW r \in Requests, FrontEnd(r)
  PROVE  Unmarked \/ Marked(r)
<1>0. status \in [Requests -> {"none", "queued", "running", "completed"}]
      /\ fe \in [Requests -> Positions]
  BY DEF TypeOK
<1>1. ASSUME NEW reply \in Replies, PublishStatus(r, reply) PROVE Unmarked \/ Marked(r)
  <2>1. /\ results' = results /\ expired' = expired
        /\ fe[r] = "added"
        /\ fe' = [fe EXCEPT ![r] = IF reply = "ok" THEN "published" ELSE "cancelling"]
        /\ status' = IF Lands(reply) THEN [status EXCEPT ![r] = "queued"] ELSE status
    BY <1>1 DEF PublishStatus, MarkQueued, Goto, resultVars
  <2>2. Published' = IF reply = "ok" THEN Published \cup {r} ELSE Published
    BY <1>0, <2>1 DEF Published
  <2>3. Known' = IF Lands(reply) THEN Known \cup {r} ELSE Known
    BY <1>0, <2>1 DEF Known
  <2> QED BY <2>1, <2>2, <2>3 DEF Unmarked, Marked, Lands
<1>2. CASE \A reply \in Replies : ~ PublishStatus(r, reply)
  <2>1. status' = status
    BY <1>2 DEF FrontEnd, Arrive, DispatchStep, Reject, Reserve, PublishJob, CancelDispatch, Drop,
                ReserveQuota, AddJob, CloseReservation, NoCommand, streamsVars, statusVars
  <2>2. \E to \in Positions \ {"published"} : fe[r] # "published" /\ fe' = [fe EXCEPT ![r] = to]
    BY <1>2 DEF FrontEnd, Arrive, DispatchStep, Reject, Reserve, PublishJob, CancelDispatch, Drop,
                Goto, Positions
  <2>3. Published' = Published
    BY <1>0, <2>2 DEF Published
  <2> QED BY <2>1, <2>3 DEF Unmarked, Known
<1> QED BY <1>1, <1>2

\* An engine marks the request of the event it appended.
LEMMA WorkerMarks ==
  ASSUME TypeOK, JobsAssigned, NEW e \in Engines, Worker(e)
  PROVE  Unmarked \/ \E r \in Requests : Marked(r)
<1>0. status \in [Requests -> {"none", "queued", "running", "completed"}] /\ fe' = fe
  BY DEF TypeOK, Worker
<1>1. ASSUME NEW reply \in Replies, Record(e, reply)
      PROVE  Unmarked \/ \E r \in Requests : Marked(r)
  <2>1. PICK r : r = eng[e].job
    OBVIOUS
  <2>2. r \in Requests
    BY <1>1, <2>1 DEF Record, JobsAssigned, Busy
  <2>3. /\ results' = results /\ expired' = expired
        /\ status' = IF Lands(reply) THEN [status EXCEPT ![r] = StateAfter(eng[e].ev)] ELSE status
    BY <1>1, <2>1 DEF Record, RecordResult
  <2>4. Known' = IF Lands(reply) THEN Known \cup {r} ELSE Known
    BY <1>0, <2>2, <2>3 DEF Known, StateAfter
  <2> QED BY <1>0, <2>2, <2>3, <2>4 DEF Unmarked, Marked, Published
<1>2. CASE \A reply \in Replies : ~ Record(e, reply)
  <2>1. status' = status
    BY <1>2
    DEF Worker, EngineStep, BackendStep, NextJob, NextNone, Reclaim, ReclaimNone, Ack,
        CheckDeadline, CancelLate, CheckStatus, Acquire, Release, Settle, Refuse, Start, XAdd,
        Restart, BackendToken, BackendEnds, HeartbeatLost, Crash,
        ReadGroup, AutoClaim, Acknowledge, AcquireLease, ReleaseLease, CloseReservation,
        AddResult, ReadOnly, NoCommand, streamsVars, statusVars
  <2> QED BY <1>0, <2>1 DEF Unmarked, Known, Published
<1> QED BY <1>1, <1>2

\* Time marks a request whose status expires.
LEMMA TimeMarks ==
  ASSUME TypeOK, NEW r \in Requests, Time(r)
  PROVE  Unmarked \/ Marked(r)
<1>0. status \in [Requests -> {"none", "queued", "running", "completed"}] /\ fe' = fe
  BY DEF TypeOK, Time, BecomeStale, PassDeadline, LeaseExpires, KeyExpires
<1>1. CASE StatusExpires(r)
  <2>1. results' = results /\ expired' = expired /\ status' = [status EXCEPT ![r] = "none"]
    BY <1>1 DEF StatusExpires, resultVars
  <2>2. Known' = Known \ {r}
    BY <1>0, <2>1 DEF Known
  <2> QED BY <1>0, <2>1, <2>2 DEF Marked, Published
<1>2. CASE ~ StatusExpires(r)
  <2>1. status' = status
    BY <1>2 DEF Time, BecomeStale, GrowStale, PassDeadline, DeadlinePasses, LeaseExpires,
                LeaseLapses, KeyExpires, ReservationExpires, ResultExpires, statusVars
  <2> QED BY <1>0, <2>1 DEF Unmarked, Known, Published
<1> QED BY <1>1, <1>2

\* A step of the data plane, as a client may see it.
LEMMA NextMarks ==
  ASSUME TypeOK, JobsAssigned, Next
  PROVE  Unmarked \/ \E r \in Requests : Marked(r)
BY FrontEndMarks, TimeMarks, WorkerMarks DEF Next

\* The histories are functions, as the specification of the clients has them.
HistInv == hist = [r \in Requests |-> hist[r]]

\* Without a new event no history grows.
LEMMA HistoryRests ==
  ASSUME TypeOK, HistInv, Subs!Numbered, results' = results
  PROVE  hist' = hist
<1>1. hist' = [r \in Requests |-> hist[r]]
  <2>1. \A r \in Requests : ~ Len(results[r]) > Len(results[r])
    <3>1. \A r \in Requests : Len(results[r]) \in Nat
      BY DEF TypeOK
    <3> QED BY <3>1
  <2> QED BY <2>1 DEF Subs!Numbered
<1> QED BY <1>1 DEF HistInv

\* A step of the clients' specification, or none.
ClientStep == Subs!Next \/ UNCHANGED Subs!vars

\* What the data plane does is an event, a change of status, or unseen by clients.
LEMMA ServeRefines ==
  ASSUME IInv, WholeInv, BoundInv, LocalInv, HistInv, Serve
  PROVE  ClientStep
<1>1. TypeOK /\ JobsAssigned /\ Next /\ Subs!Numbered /\ sub' = sub
  BY DEF IInv, Serve
<1>2. ASSUME NEW r \in Requests, Marked(r) PROVE ClientStep
  <2>1. hist' = hist /\ UNCHANGED Subs!logVars
    BY <1>1, <1>2, HistoryRests DEF Marked, Subs!logVars
  <2>2. CASE Known' = Known \cup {r} /\ Published' = Published \cup {r}
    <3>1. Subs!Publish(r)
      BY <1>1, <2>1, <2>2 DEF Subs!Publish, Known, Published
    <3> QED BY <3>1 DEF ClientStep, Subs!Next, Subs!Status
  <2>3. CASE Known' = Known \cup {r} /\ Published' = Published
    <3>1. Subs!WriteStatus(r)
      BY <1>1, <2>1, <2>3 DEF Subs!WriteStatus, Known, Published
    <3> QED BY <3>1 DEF ClientStep, Subs!Next, Subs!Status
  <2>4. CASE Known' = Known \ {r} /\ Published' = Published
    <3>1. Subs!StatusExpires(r)
      BY <1>1, <2>1, <2>4 DEF Subs!StatusExpires, Known, Published
    <3> QED BY <3>1 DEF ClientStep, Subs!Next, Subs!Status
  <2> QED BY <1>2, <2>2, <2>3, <2>4 DEF Marked
<1>3. CASE Unmarked
  <2>1. CASE Log!StreamNext
    <3>1. Subs!StreamNext
      BY <2>1 DEF Log!StreamNext, Log!Expire, Log!Write, Log!Events, Log!Kinds, Log!HasChunks,
                  Subs!StreamNext, Subs!Expire, Subs!Write, Subs!Events, Subs!Kinds, Subs!HasChunks
    <3>2. Subs!Produce
      BY <1>1, <1>3, <3>1 DEF Subs!Produce, Unmarked, Known, Published
    <3> QED BY <3>2 DEF ClientStep, Subs!Next
  <2>2. CASE UNCHANGED Log!logVars
    <3>1. results' = results /\ expired' = expired
      BY <2>2 DEF Log!logVars
    <3>2. hist' = hist
      BY <1>1, <3>1, HistoryRests
    <3>3. UNCHANGED Subs!vars
      BY <1>1, <1>3, <3>1, <3>2 DEF Subs!vars, Subs!logVars, Unmarked, Known, Published
    <3> QED BY <3>3 DEF ClientStep
  <2> QED BY <1>1, <2>1, <2>2, StreamsWritten DEF StreamStep
<1> QED BY <1>1, <1>2, <1>3, NextMarks

\* A call leaves the histories as they are.
LEMMA CallsRead ==
  ASSUME NEW r \in Requests, Call(r)
  PROVE  hist' = hist
<1>1. \A c, s : Subs!Update(r, c, s) => hist' = hist
  BY DEF Subs!Update
<1>2. Subs!OpenStream(r) => \E c, s : Subs!Update(r, c, s)
  BY DEF Subs!OpenStream
<1>3. ASSUME NEW c \in Clients,
             Subs!Resume(r, c) \/ Subs!Replay(r, c) \/ Subs!Client(r, c) \/ Subs!HangUp(r, c)
      PROVE  \E d, s : Subs!Update(r, d, s)
  BY <1>3, Zenon DEF Subs!Resume, Subs!Replay, Subs!HangUp, Subs!Client, Subs!Receive, Subs!BodyEnds
<1>4. ASSUME NEW c \in Clients, Subs!Handler(r, c) PROVE \E d, s : Subs!Update(r, d, s)
  <2>1. Subs!ReadEntry(r, c) => \E s : Subs!Update(r, c, s)
    BY Zenon DEF Subs!ReadEntry
  <2>2. Subs!Break(r, c) => \E s : Subs!Update(r, c, s)
    BY Zenon DEF Subs!Break
  <2> QED BY <1>4, <2>1, <2>2, Zenon
          DEF Subs!Handler, Subs!Inspect, Subs!Subscribe, Subs!ReadNothing, Subs!ReadFails,
              Subs!Reconnect
<1> QED BY <1>1, <1>2, <1>3, <1>4 DEF Call, Subs!Calls

\* The system's steps are steps of the data plane.
LEMMA ServesAsDataPlane == SystemSpec => Spec
<1>1. SystemInit => Init
  BY DEF SystemInit
<1>2. [SystemNext]_systemVars => [Next]_vars
  BY DEF SystemNext, Serve, Call, systemVars
<1> QED BY <1>1, <1>2, PTL DEF SystemSpec, Spec

(***************************************************************************)
(* The data plane and its clients implement Subscription: whatever leases, *)
(* replies and engines are lost, clients read a log that is only appended  *)
(* to, in which a completed event follows all chunks of its attempt.       *)
(***************************************************************************)
THEOREM ServesClients == SystemSpec => ImplementsSubscription
<1>1. SystemInit => Subs!Init /\ HistInv
  BY DEF SystemInit, Subs!Init, HistInv
<1>2. IInv /\ WholeInv /\ BoundInv /\ LocalInv /\ HistInv /\ [SystemNext]_systemVars
        => HistInv' /\ [Subs!Next]_(Subs!vars)
  <2> SUFFICES ASSUME IInv, WholeInv, BoundInv, LocalInv, HistInv, [SystemNext]_systemVars
               PROVE  HistInv' /\ ClientStep
    BY DEF ClientStep
  <2>1. CASE Serve
    <3>1. HistInv'
      BY <2>1 DEF Serve, Subs!Numbered, HistInv
    <3> QED BY <2>1, <3>1, ServeRefines
  <2>2. ASSUME NEW r \in Requests, Call(r) PROVE HistInv' /\ ClientStep
    <3>1. HistInv'
      BY <2>2, CallsRead DEF HistInv
    <3>2. Subs!Next
      BY <2>2 DEF Call, Subs!Next
    <3> QED BY <3>1, <3>2 DEF ClientStep
  <2>3. CASE UNCHANGED systemVars
    <3>1. UNCHANGED <<hist, sub, results, expired, status, fe>>
      BY <2>3 DEF systemVars, vars, streamsVars, statusVars, resultVars
    <3>2. HistInv'
      BY <3>1 DEF HistInv
    <3>3. UNCHANGED Subs!vars
      BY <3>1 DEF Subs!vars, Subs!logVars
    <3> QED BY <3>2, <3>3 DEF ClientStep
  <2> QED BY <2>1, <2>2, <2>3 DEF SystemNext
<1> QED BY <1>1, <1>2, ServesAsDataPlane, Invariance, WholeInvariance, AttemptsBounded,
           LocalInvariance, PTL
        DEF SystemSpec, ImplementsSubscription, Subs!Spec

-----------------------------------------------------------------------------
(* What SubscriptionProofs proves of the clients, at the data plane.       *)

Proved == INSTANCE SubscriptionProofs WITH
            Attempts <- 1..MaxAttempts,
            Chunks <- MaxTokens,
            log <- results,
            closed <- expired,
            known <- {r \in Requests : status[r] # "none"},
            published <- {r \in Requests : fe[r] = "published"}

\* What Subscription assumes of the clients' constants.
ClientsAssumption ==
  Caller \in Clients /\ MaxCalls \in Nat \ {0} /\ MaxInFlight \in Nat \ {0}

\* Both are instances of the same specification.
LEMMA SameCalls ==
  ASSUME NEW r \in Requests, Subs!Calls(r)
  PROVE  Proved!Calls(r)
<1> USE DEF Subs!Update, Subs!Break, Subs!Away, Subs!Kind, Subs!Terminal, Subs!LastOf, Subs!Done,
            Subs!Expired, Subs!After, Subs!Available, Subs!Reading, Subs!logVars,
            Proved!Update, Proved!Break, Proved!Away, Proved!Kind, Proved!Terminal, Proved!LastOf,
            Proved!Done, Proved!Expired, Proved!After, Proved!Available, Proved!Reading,
            Proved!logVars
<1>1. Subs!OpenStream(r) => Proved!OpenStream(r)
  BY DEF Subs!OpenStream, Proved!OpenStream
<1>2. ASSUME NEW c \in Clients
      PROVE  /\ Subs!Resume(r, c) => Proved!Resume(r, c)
             /\ Subs!Replay(r, c) => Proved!Replay(r, c)
             /\ Subs!HangUp(r, c) => Proved!HangUp(r, c)
  BY DEF Subs!Resume, Subs!Replay, Subs!HangUp, Proved!Resume, Proved!Replay, Proved!HangUp
<1>3. ASSUME NEW c \in Clients
      PROVE  Subs!Handler(r, c) => Proved!Handler(r, c)
  <2>1. Subs!Inspect(r, c) => Proved!Inspect(r, c)
    BY DEF Subs!Inspect, Proved!Inspect
  <2>2. Subs!Subscribe(r, c) => Proved!Subscribe(r, c)
    BY DEF Subs!Subscribe, Proved!Subscribe
  <2>3. Subs!ReadEntry(r, c) => Proved!ReadEntry(r, c)
    BY DEF Subs!ReadEntry, Proved!ReadEntry
  <2>4. Subs!ReadNothing(r, c) => Proved!ReadNothing(r, c)
    BY DEF Subs!ReadNothing, Proved!ReadNothing
  <2>5. Subs!ReadFails(r, c) => Proved!ReadFails(r, c)
    BY DEF Subs!ReadFails, Proved!ReadFails
  <2>6. Subs!Reconnect(r, c) => Proved!Reconnect(r, c)
    BY DEF Subs!Reconnect, Proved!Reconnect
  <2> QED BY <2>1, <2>2, <2>3, <2>4, <2>5, <2>6 DEF Subs!Handler, Proved!Handler
<1>4. ASSUME NEW c \in Clients
      PROVE  Subs!Client(r, c) => Proved!Client(r, c)
  BY DEF Subs!Client, Subs!Receive, Subs!BodyEnds, Proved!Client, Proved!Receive, Proved!BodyEnds
<1> QED BY <1>1, <1>2, <1>3, <1>4 DEF Subs!Calls, Proved!Calls

\* The rest of the specification, likewise.
LEMMA SameClients == Subs!Spec => Proved!Spec
<1>1. Subs!Init => Proved!Init
  BY DEF Subs!Init, Subs!LogInit, Subs!Away, Proved!Init, Proved!LogInit, Proved!Away
<1>2. [Subs!Next]_(Subs!vars) => [Proved!Next]_(Proved!vars)
  <2>1. Subs!Produce => Proved!Produce
    BY DEF Subs!Produce, Subs!StreamNext, Subs!Expire, Subs!Write, Subs!Events, Subs!Kinds,
           Subs!HasChunks, Subs!Numbered,
           Proved!Produce, Proved!StreamNext, Proved!Expire, Proved!Write, Proved!Events,
           Proved!Kinds, Proved!HasChunks, Proved!Numbered
  <2>2. ASSUME NEW r \in Requests PROVE Subs!Status(r) => Proved!Status(r)
    BY DEF Subs!Status, Subs!Publish, Subs!WriteStatus, Subs!StatusExpires, Subs!logVars,
           Proved!Status, Proved!Publish, Proved!WriteStatus, Proved!StatusExpires, Proved!logVars
  <2>3. UNCHANGED Subs!vars => UNCHANGED Proved!vars
    BY DEF Subs!vars, Subs!logVars, Proved!vars, Proved!logVars
  <2> QED BY <2>1, <2>2, <2>3, SameCalls DEF Subs!Next, Proved!Next
<1> QED BY <1>1, <1>2, PTL DEF Subs!Spec, Proved!Spec

(***************************************************************************)
(* What the data plane's clients get, whatever leases, engines, replies    *)
(* and connections are lost: events in order and none twice, nothing       *)
(* skipped, every chunk of the attempt that completed, and the same as     *)
(* every other client of the request.                                      *)
(***************************************************************************)
THEOREM ClientsServed ==
  ASSUME ClientsAssumption
  PROVE  SystemSpec => [](/\ Subs!InStreamOrder /\ Subs!NothingSkipped
                          /\ Subs!WholeResponse /\ Subs!SubscribersAgree)
<1>1. /\ MaxTokens \in Nat /\ Caller \in Clients
      /\ MaxCalls \in Nat \ {0} /\ MaxInFlight \in Nat \ {0}
  BY BoundsAssumption DEF ClientsAssumption
<1>2. Proved!Spec => []Proved!InStreamOrder
  BY <1>1, Proved!StreamOrder
<1>3. Proved!Spec => []Proved!NothingSkipped
  BY <1>1, Proved!NoneSkipped
<1>4. Proved!Spec => []Proved!WholeResponse
  BY <1>1, Proved!ResponsesWhole
<1>5. Proved!Spec => []Proved!SubscribersAgree
  BY <1>1, Proved!SubscribersIdentical
<1>6. /\ Proved!InStreamOrder => Subs!InStreamOrder
      /\ Proved!NothingSkipped => Subs!NothingSkipped
      /\ Proved!WholeResponse => Subs!WholeResponse
      /\ Proved!SubscribersAgree => Subs!SubscribersAgree
  BY DEF Subs!InStreamOrder, Subs!NothingSkipped, Subs!WholeResponse, Subs!SubscribersAgree,
         Subs!Kind, Subs!LastOf, Subs!Terminal,
         Proved!InStreamOrder, Proved!NothingSkipped, Proved!WholeResponse,
         Proved!SubscribersAgree, Proved!Kind, Proved!LastOf, Proved!Terminal
<1> QED BY <1>2, <1>3, <1>4, <1>5, <1>6, ServesClients, SameClients, PTL
        DEF ImplementsSubscription
=============================================================================
