------------------------------ MODULE JobQueue ------------------------------
(***************************************************************************)
(* What the request stream and the engines' consumer loop promise for a    *)
(* backlog of jobs, told without leases, results and quotas: which entries *)
(* the engines hold, and how far run_job of crates/inference-engine is     *)
(* with each.  Module DataPlane implements it.  work[e].pc is              *)
(*   "idle"    consumer.next            "reclaim"  consumer.reclaim_stale  *)
(*   "begin"   the deadline is yet to be checked                           *)
(*   "open"    the deadline had not passed; status and lease come next     *)
(*   "run"     the attempt executes: it may take for ever                  *)
(*   "finish"  the job is on its way to its acknowledgement                *)
(*   "down"    the process is not running                                  *)
(***************************************************************************)
EXTENDS RequestStream

CONSTANTS
  Workers,
  NoJob,
  Hung,         \* the engines whose model backend may never answer
  MaxFailures   \* bound: engines killed and broker replies that fail

ASSUME HungAssumption == Hung \subseteq Workers
ASSUME NoJobAssumption == NoJob \notin Requests
ASSUME MaxFailuresAssumption == MaxFailures \in Nat

VARIABLES late, work, failures

jobVars == <<queueVars, late, work, failures>>

WorkPCs == {"idle", "reclaim", "begin", "open", "run", "finish", "down"}

Holding(pc, r) == [pc |-> pc, job |-> r]
Without(pc)    == Holding(pc, NoJob)

JobInit ==
  /\ QueueInit
  /\ late = {}
  /\ work = [e \in Workers |-> Without("idle")]
  /\ failures = 0

Goes(e, w) == work' = [work EXCEPT ![e] = w]
Moves(e, from, to) == work[e].pc = from /\ Goes(e, Holding(to, work[e].job))

Works   == UNCHANGED <<late, failures>>
Fails   == failures < MaxFailures /\ failures' = failures + 1 /\ UNCHANGED late
Replied == Works \/ Fails

-----------------------------------------------------------------------------
Sent(r) == \E i \in 1..Len(queue) : queue[i] = r

\* A front end's XADD: the job is there whether or not its reply arrives.
Send(r) == ~ Sent(r) /\ Enqueue(r) /\ Replied /\ UNCHANGED work

\* Any other command of which only the failed reply matters here.
ReplyFails == Fails /\ UNCHANGED <<queueVars, work>>

-----------------------------------------------------------------------------
(* The loop of main.                                                       *)

Take(e) ==
  /\ work[e].pc = "idle"
  /\ \E r \in Requests : Undelivered(r) /\ Deliver(r) /\ Goes(e, Holding("begin", r))
  /\ Works

NothingNew(e) ==
  /\ Moves(e, "idle", "reclaim")
  /\ delivered = Len(queue)
  /\ UNCHANGED queueVars /\ Works

Recover(e) ==
  /\ work[e].pc = "reclaim"
  /\ \E r \in Requests : FirstStale(r) /\ Claim(r) /\ Goes(e, Holding("begin", r))
  /\ Works

NothingStale(e) ==
  /\ Moves(e, "reclaim", "idle")
  /\ NoneStale
  /\ UNCHANGED queueVars /\ Works

Acknowledge(e) ==
  /\ work[e].pc = "finish"
  /\ Remove(work[e].job)
  /\ Goes(e, Without("idle"))
  /\ Works

-----------------------------------------------------------------------------
(* run_job.                                                                *)

\* Mutant: run_job does not look at the deadline.
CheckNoDeadline(e) ==
  /\ Moves(e, "begin", "open")
  /\ UNCHANGED queueVars /\ Works

\* A job past its deadline is failed, whoever else executes it.
CheckDeadline(e) ==
  /\ Moves(e, "begin", IF work[e].job \in late THEN "finish" ELSE "open")
  /\ UNCHANGED queueVars /\ Works

\* The status is "completed"; or the lease is granted; or another engine has it.
Decide(e) ==
  /\ \/ Moves(e, "open", "finish")
     \/ Moves(e, "open", "run")
     \/ work[e].pc = "open" /\ Goes(e, Without("idle"))
  /\ UNCHANGED queueVars /\ Works

\* The backend's response ends, or it or a command of the attempt fails.
AttemptEnds(e) == Moves(e, "run", "finish") /\ Replied /\ UNCHANGED queueVars

-----------------------------------------------------------------------------
(* Failures and time.                                                      *)

\* The process dies, or a reply fails and the command was executed or not.
Interrupted(e) ==
  /\ Fails
  /\ \E pc \in {"idle", "down"} : Goes(e, Without(pc))
  /\ \/ UNCHANGED queueVars
     \/ work[e].pc = "idle" /\ \E r \in Requests : Undelivered(r) /\ Deliver(r)
     \/ work[e].pc = "reclaim" /\ \E r \in Requests : FirstStale(r) /\ Claim(r)
     \/ work[e].pc = "finish" /\ Remove(work[e].job)

Restart(e) == Moves(e, "down", "idle") /\ UNCHANGED queueVars /\ Works

GrowStale(r) == Age(r) /\ Works /\ UNCHANGED work

PassDeadline(r) ==
  /\ r \notin late
  /\ late' = late \cup {r}
  /\ UNCHANGED <<queueVars, work, failures>>

-----------------------------------------------------------------------------
EngineStep(e) ==
  \/ Take(e) \/ NothingNew(e) \/ Recover(e) \/ NothingStale(e)
  \/ CheckDeadline(e) \/ Decide(e) \/ Acknowledge(e) \/ Restart(e)

JobNext ==
  \/ ReplyFails
  \/ \E r \in Requests : Send(r) \/ GrowStale(r) \/ PassDeadline(r)
  \/ \E e \in Workers : EngineStep(e) \/ AttemptEnds(e) \/ Interrupted(e)

JobSpec == JobInit /\ [][JobNext]_jobVars

(***************************************************************************)
(* As in DataPlane, except that the model backends of the engines outside  *)
(* Hung answer in the end: with every backend hung no engine is left to    *)
(* take a second job.                                                      *)
(***************************************************************************)
FairJobSpec ==
  /\ JobSpec
  /\ \A e \in Workers : WF_jobVars(EngineStep(e))
  /\ \A e \in Workers \ Hung : WF_jobVars(AttemptEnds(e))
  /\ \A r \in Requests : WF_jobVars(GrowStale(r)) /\ WF_jobVars(PassDeadline(r))

-----------------------------------------------------------------------------
TypeOK ==
  /\ queue \in Seq(Requests)
  /\ delivered \in 0..Len(queue)
  /\ pel \subseteq Requests
  /\ stale \subseteq pel
  /\ late \subseteq Requests
  /\ work \in [Workers -> [pc : WorkPCs, job : Requests \cup {NoJob}]]
  /\ failures \in 0..MaxFailures

(***************************************************************************)
(* Every job in the stream is acknowledged although a backend hangs on     *)
(* another, engines die with theirs and XAUTOCLAIM sees only the head of   *)
(* the pending list: the deadline empties the head.                        *)
(***************************************************************************)
EveryJobAcked == \A r \in Requests : Sent(r) ~> Acked(r)
=============================================================================
