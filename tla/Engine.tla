------------------------------- MODULE Engine -------------------------------
(***************************************************************************)
(* crates/inference-engine: the consumer loop of main, run_job,            *)
(* spawn_lease_heartbeat and execute_attempt.  eng[e] is engine e's state; *)
(* its pc names the await the engine is at:                                *)
(*   "idle"     consumer.next           "reclaim"  consumer.reclaim_stale  *)
(*   "begin"    the top of run_job      "cancel"   cancel_quota, deadline  *)
(*   "status"   the status check        "lease"    acquire_lease           *)
(*   "execute"  the top of execute_attempt                                 *)
(*   "publish"  publish_result's XADD   "record"   its MULTI block         *)
(*   "stream"   the model backend       "release"  release_lease           *)
(*   "settle"   reconcile_quota         "ack"      consumer.acknowledge    *)
(*   "down"     the process is not running                                 *)
(* ev is the event being published, outcome how execute_attempt ended,     *)
(* heart the heartbeat task.                                               *)
(***************************************************************************)
EXTENDS Streams

CONSTANTS
  Engines,
  NoJob,         \* what an engine without a job holds
  MaxTokens,     \* bound: chunks one attempt produces
  MaxCrashes     \* bound: engine processes killed

ASSUME EnginesAssumption == IsFiniteSet(Engines)
ASSUME NoJobAssumption == NoJob \notin Requests
ASSUME BoundsAssumption == MaxTokens \in Nat /\ MaxCrashes \in Nat

VARIABLES
  eng,
  attempts,      \* attempt ids drawn so far for each request: they are fresh
  crashes

engineVars == <<eng, attempts, crashes>>

PCs == {"idle", "reclaim", "begin", "cancel", "status", "lease", "execute",
        "publish", "record", "stream", "release", "settle", "ack", "down"}

Outcomes == {"ok", "err"}

EngineState == [pc : PCs, job : Requests \cup {NoJob}, att : Nat, sent : Nat,
                outcome : Outcomes, ev : Kinds, heart : {"beating", "stopped"}]

At(pc) == [pc |-> pc, job |-> NoJob, att |-> 0, sent |-> 0, outcome |-> "ok",
           ev |-> "started", heart |-> "stopped"]

EngineInit ==
  /\ eng = [e \in Engines |-> At("idle")]
  /\ attempts = [r \in Requests |-> 0]
  /\ crashes = 0

Reset(e, pc) == eng' = [eng EXCEPT ![e] = At(pc)]
Step(e, pc)  == eng' = [eng EXCEPT ![e].pc = pc]
Publish(e, kind) == eng' = [eng EXCEPT ![e].pc = "publish", ![e].ev = kind]

\* execute_attempt returned: the heartbeat is stopped and awaited first.
EndAttempt(e, outcome) ==
  eng' = [eng EXCEPT ![e].pc = "release", ![e].outcome = outcome, ![e].heart = "stopped"]

Begin(e, r) == eng' = [eng EXCEPT ![e] = [At("begin") EXCEPT !.job = r]]

-----------------------------------------------------------------------------
(* The loop of main.                                                       *)

(***************************************************************************)
(* consumer.next.  After an error the consumer is created again; if that   *)
(* fails too, main returns and the process ends.                           *)
(***************************************************************************)
NextJob(e, reply) ==
  /\ eng[e].pc = "idle"
  /\ \E r \in Requests :
       /\ ReadGroup(r, reply)
       /\ IF reply = "ok" THEN Begin(e, r)
          ELSE \E pc \in {"idle", "down"} : Reset(e, pc)
  /\ UNCHANGED <<attempts, crashes>>

\* The block of five seconds ends with nothing new, or with an error.
NextNone(e, reply) ==
  /\ eng[e].pc = "idle"
  /\ delivered = Len(queue)
  /\ ReadOnly(reply)
  /\ IF reply = "ok" THEN Step(e, "reclaim")
     ELSE \E pc \in {"idle", "down"} : Reset(e, pc)
  /\ UNCHANGED <<attempts, crashes>>

\* reclaim_stale(...).await? : an error ends the process.
Reclaim(e, reply) ==
  /\ eng[e].pc = "reclaim"
  /\ \E r \in Requests :
       /\ AutoClaim(r, reply)
       /\ IF reply = "ok" THEN Begin(e, r) ELSE Reset(e, "down")
  /\ UNCHANGED <<attempts, crashes>>

ReclaimNone(e, reply) ==
  /\ eng[e].pc = "reclaim"
  /\ NoneStale
  /\ ReadOnly(reply)
  /\ Reset(e, IF reply = "ok" THEN "idle" ELSE "down")
  /\ UNCHANGED <<attempts, crashes>>

\* acknowledge(...).await? : an error ends the process.
Ack(e, reply) ==
  /\ eng[e].pc = "ack"
  /\ Acknowledge(eng[e].job, reply)
  /\ Reset(e, IF reply = "ok" THEN "idle" ELSE "down")
  /\ UNCHANGED <<attempts, crashes>>

-----------------------------------------------------------------------------
(* run_job.  Err and Pending both leave the entry pending.                 *)

CheckDeadline(e) ==
  /\ eng[e].pc = "begin"
  /\ Step(e, IF eng[e].job \in late THEN "cancel" ELSE "status")
  /\ NoCommand
  /\ UNCHANGED <<attempts, crashes>>

\* Mutant: the late job is cancelled and left pending, without a terminal event.
CancelLateSilent(e, reply) ==
  /\ eng[e].pc = "cancel"
  /\ CloseReservation(eng[e].job, "cancelled", reply)
  /\ Reset(e, "idle")
  /\ UNCHANGED <<attempts, crashes>>

\* The deadline failure carries the engine id as its attempt: 0 here.
CancelLate(e, reply) ==
  /\ eng[e].pc = "cancel"
  /\ CloseReservation(eng[e].job, "cancelled", reply)
  /\ IF reply = "ok" THEN Publish(e, "failed") ELSE Reset(e, "idle")
  /\ UNCHANGED <<attempts, crashes>>

CheckStatus(e, reply) ==
  /\ eng[e].pc = "status"
  /\ ReadOnly(reply)
  /\ IF reply # "ok" THEN Reset(e, "idle")
     ELSE Step(e, IF status[eng[e].job] = "completed" THEN "ack" ELSE "lease")
  /\ UNCHANGED <<attempts, crashes>>

\* Mutant: every attempt of a request has the same id.
AcquireSameId(e, reply) ==
  LET r == eng[e].job
  IN /\ eng[e].pc = "lease"
     /\ AcquireLease(r, 1, reply)
     /\ attempts' = [attempts EXCEPT ![r] = @ + 1]
     /\ IF reply = "ok" /\ lease[r] = 0
          THEN eng' = [eng EXCEPT ![e].pc = "execute", ![e].att = 1, ![e].heart = "beating"]
          ELSE Reset(e, "idle")
     /\ UNCHANGED crashes

\* Mutant: the attempt is executed whether or not the lease was granted.
AcquireUngranted(e, reply) ==
  LET r == eng[e].job
      attempt == attempts[r] + 1
  IN /\ eng[e].pc = "lease"
     /\ AcquireLease(r, attempt, reply)
     /\ attempts' = [attempts EXCEPT ![r] = attempt]
     /\ IF reply = "ok"
          THEN eng' = [eng EXCEPT ![e].pc = "execute", ![e].att = attempt,
                                  ![e].heart = "beating"]
          ELSE Reset(e, "idle")
     /\ UNCHANGED crashes

(***************************************************************************)
(* A fresh attempt id and acquire_lease.  If the reply is lost after the   *)
(* broker set the key, the lease belongs to an attempt nobody executes.    *)
(***************************************************************************)
Acquire(e, reply) ==
  LET r == eng[e].job
      attempt == attempts[r] + 1
  IN /\ eng[e].pc = "lease"
     /\ AcquireLease(r, attempt, reply)
     /\ attempts' = [attempts EXCEPT ![r] = attempt]
     /\ IF reply = "ok" /\ lease[r] = 0
          THEN eng' = [eng EXCEPT ![e].pc = "execute", ![e].att = attempt,
                                  ![e].heart = "beating"]
          ELSE Reset(e, "idle")
     /\ UNCHANGED crashes

Release(e, reply) ==
  /\ eng[e].pc = "release"
  /\ ReleaseLease(eng[e].job, eng[e].att, reply)
  /\ IF reply = "ok" THEN Step(e, "settle") ELSE Reset(e, "idle")
  /\ UNCHANGED <<attempts, crashes>>

\* Mutant: a failed attempt does not reconcile.
SettleSuccess(e, reply) ==
  /\ eng[e].pc = "settle"
  /\ IF eng[e].outcome = "ok" THEN CloseReservation(eng[e].job, "reconciled", reply)
     ELSE ReadOnly(reply)
  /\ IF reply = "ok" THEN Publish(e, IF eng[e].outcome = "ok" THEN "completed" ELSE "failed")
     ELSE Reset(e, "idle")
  /\ UNCHANGED <<attempts, crashes>>

\* reconcile_quota with what was generated, or with 0 after an error.
Settle(e, reply) ==
  /\ eng[e].pc = "settle"
  /\ CloseReservation(eng[e].job, "reconciled", reply)
  /\ IF reply = "ok" THEN Publish(e, IF eng[e].outcome = "ok" THEN "completed" ELSE "failed")
     ELSE Reset(e, "idle")
  /\ UNCHANGED <<attempts, crashes>>

-----------------------------------------------------------------------------
(* execute_attempt and the model backend.                                  *)

\* The model is not the one this engine loaded, or request_json is invalid.
Refuse(e) ==
  /\ eng[e].pc = "execute"
  /\ EndAttempt(e, "err")
  /\ NoCommand
  /\ UNCHANGED <<attempts, crashes>>

Start(e) ==
  /\ eng[e].pc = "execute"
  /\ Publish(e, "started")
  /\ NoCommand
  /\ UNCHANGED <<attempts, crashes>>

BackendToken(e) ==
  /\ eng[e].pc = "stream"
  /\ eng[e].sent < MaxTokens
  /\ eng' = [eng EXCEPT ![e].pc = "publish", ![e].ev = "token", ![e].sent = @ + 1]
  /\ NoCommand
  /\ UNCHANGED <<attempts, crashes>>

\* The backend's response ends, or it fails.  Nothing bounds how long it takes.
BackendEnds(e, outcome) ==
  /\ eng[e].pc = "stream"
  /\ EndAttempt(e, outcome)
  /\ NoCommand
  /\ UNCHANGED <<attempts, crashes>>

-----------------------------------------------------------------------------
(* publish_result as the engine calls it.                                  *)

\* Mutant: an error when publishing a terminal event is ignored.
PublishFailsAcks(e) ==
  IF eng[e].ev \in Terminal THEN Step(e, "ack") ELSE EndAttempt(e, "err")

\* Mutant: an error when publishing a chunk is ignored.
PublishFailsGoesOn(e) ==
  IF eng[e].ev \in Terminal THEN Reset(e, "idle") ELSE Step(e, "stream")

\* An error ends the attempt, or, for a terminal event, ends run_job.
PublishFails(e) ==
  IF eng[e].ev \in Terminal THEN Reset(e, "idle") ELSE EndAttempt(e, "err")

XAdd(e, reply) ==
  /\ eng[e].pc = "publish"
  /\ AddResult(eng[e].job,
               [kind |-> eng[e].ev, attempt |-> eng[e].att, n |-> eng[e].sent],
               reply)
  /\ IF reply = "ok" THEN Step(e, "record") ELSE PublishFails(e)
  /\ UNCHANGED <<attempts, crashes>>

Record(e, reply) ==
  /\ eng[e].pc = "record"
  /\ RecordResult(eng[e].job, eng[e].ev, reply)
  /\ IF reply = "ok" THEN Step(e, IF eng[e].ev \in Terminal THEN "ack" ELSE "stream")
     ELSE PublishFails(e)
  /\ UNCHANGED <<attempts, crashes>>

-----------------------------------------------------------------------------
(* The heartbeat task and the process.                                     *)

(***************************************************************************)
(* renew_lease answers false: the task warns and ends, and the attempt     *)
(* goes on.  (A renewal that succeeds, or whose reply is an error, changes *)
(* nothing the model keeps.)                                               *)
(***************************************************************************)
HeartbeatLost(e) ==
  /\ eng[e].heart = "beating"
  /\ lease[eng[e].job] # eng[e].att
  /\ eng' = [eng EXCEPT ![e].heart = "stopped"]
  /\ NoCommand
  /\ UNCHANGED <<attempts, crashes>>

Crash(e) ==
  /\ eng[e].pc # "down"
  /\ crashes < MaxCrashes
  /\ crashes' = crashes + 1
  /\ Reset(e, "down")
  /\ NoCommand
  /\ UNCHANGED attempts

Restart(e) ==
  /\ eng[e].pc = "down"
  /\ Reset(e, "idle")
  /\ NoCommand
  /\ UNCHANGED <<attempts, crashes>>

\* What the engine does by itself, once its awaits return.
EngineStep(e) ==
  \/ CheckDeadline(e)
  \/ Refuse(e)
  \/ Start(e)
  \/ Restart(e)
  \/ \E reply \in Replies :
       \/ NextJob(e, reply)
       \/ NextNone(e, reply)
       \/ Reclaim(e, reply)
       \/ ReclaimNone(e, reply)
       \/ Ack(e, reply)
       \/ CancelLate(e, reply)
       \/ CheckStatus(e, reply)
       \/ Acquire(e, reply)
       \/ Release(e, reply)
       \/ Settle(e, reply)
       \/ XAdd(e, reply)
       \/ Record(e, reply)

\* What the model server behind the engine does.
BackendStep(e) ==
  \/ BackendToken(e)
  \/ \E outcome \in Outcomes : BackendEnds(e, outcome)

-----------------------------------------------------------------------------
\* e is inside execute_attempt.
Executing(e) ==
  \/ eng[e].pc \in {"execute", "stream"}
  \/ eng[e].pc \in {"publish", "record"} /\ eng[e].ev \notin Terminal
=============================================================================
