----------------------------- MODULE DataPlane -----------------------------
(***************************************************************************)
(* The data plane: front-end handlers and inference engines that share the *)
(* Valkey broker and nothing else.                                         *)
(***************************************************************************)
EXTENDS Dispatch, Engine, ResultReader

CONSTANTS
  MaxAttempts,         \* bound: deliveries before a request's deadline
  HeartbeatsReliable,  \* a lease is never lost while its heartbeat runs
  Expiring             \* bound: the keys the run is long enough to see expire

ASSUME MaxAttemptsAssumption == MaxAttempts \in Nat \ {0}
ASSUME ScenarioAssumption ==
  HeartbeatsReliable \in BOOLEAN /\ Expiring \subseteq {"reservation", "status", "results"}

vars == <<streamsVars, fe, engineVars>>

Init == StreamsInit /\ DispatchInit /\ EngineInit

(***************************************************************************)
(* The bound on attempts limits how often an entry goes stale before its   *)
(* deadline, not what an engine that holds it may do.                      *)
(***************************************************************************)
Undecided(r) ==
  {e \in Engines : eng[e].job = r /\ eng[e].pc \in {"begin", "status", "lease"}}

BecomeStale(r) ==
  /\ r \in late \/ attempts[r] + Cardinality(Undecided(r)) < MaxAttempts
  /\ GrowStale(r)
  /\ UNCHANGED <<fe, engineVars>>

\* The deadline is computed when the job is built, after the reservation.
PassDeadline(r) ==
  /\ fe[r] \notin {"idle", "rejected"}
  /\ DeadlinePasses(r)
  /\ UNCHANGED <<fe, engineVars>>

(***************************************************************************)
(* The lease lives 60 s and the heartbeat renews it every 20 s.  With      *)
(* HeartbeatsReliable two renewals in a row never fail or come late, so    *)
(* only a lease without a live heartbeat lapses.                           *)
(***************************************************************************)
Tended(r) ==
  \E e \in Engines : eng[e].heart = "beating" /\ eng[e].job = r /\ eng[e].att = lease[r]

LeaseExpires(r) ==
  /\ HeartbeatsReliable => ~ Tended(r)
  /\ LeaseLapses(r)
  /\ UNCHANGED <<fe, engineVars>>

KeyExpires(r) ==
  /\ \/ "reservation" \in Expiring /\ ReservationExpires(r)
     \/ "status" \in Expiring /\ StatusExpires(r)
     \/ "results" \in Expiring /\ ResultExpires(r)
  /\ UNCHANGED <<fe, engineVars>>

FrontEnd(r) == (Arrive(r) \/ DispatchStep(r) \/ Drop(r)) /\ UNCHANGED engineVars

Time(r) == BecomeStale(r) \/ PassDeadline(r) \/ LeaseExpires(r) \/ KeyExpires(r)

Worker(e) ==
  /\ EngineStep(e) \/ BackendStep(e) \/ HeartbeatLost(e) \/ Crash(e)
  /\ UNCHANGED fe

Next ==
  \/ \E r \in Requests : FrontEnd(r) \/ Time(r)
  \/ \E e \in Engines : Worker(e)

Spec == Init /\ [][Next]_vars

(***************************************************************************)
(* Fairness: an engine's own awaits return (commands on the broker end     *)
(* with a reply or an error) and a dead process is restarted; time passes, *)
(* so entries go stale, deadlines pass and leases without a heartbeat      *)
(* lapse.  No fairness for the model backend, for clients, for key expiry, *)
(* or for the lapse of a lease that is still renewed.                      *)
(***************************************************************************)
FairSpec ==
  /\ Spec
  /\ \A e \in Engines : WF_vars(EngineStep(e) /\ UNCHANGED fe)
  /\ \A r \in Requests :
       /\ WF_vars(BecomeStale(r))
       /\ WF_vars(PassDeadline(r))
       /\ WF_vars(~ Tended(r) /\ LeaseExpires(r))

-----------------------------------------------------------------------------
TypeOK ==
  /\ queue \in Seq(Requests)
  /\ delivered \in 0..Len(queue)
  /\ pel \subseteq Requests
  /\ stale \subseteq pel
  /\ status \in [Requests -> {"none", "queued", "running", "completed"}]
  /\ statusTtl \in [Requests -> Ttls]
  /\ results \in [Requests -> Seq(Event)]
  /\ resultTtl \in [Requests -> Ttls]
  /\ lease \in [Requests -> Nat]
  /\ res \in [Requests -> {"none", "reserved", "reconciled", "cancelled", "expired"}]
  /\ late \subseteq Requests
  /\ faults \in Nat
  /\ finished \subseteq Requests
  /\ expired \subseteq Requests
  /\ fe \in [Requests -> Positions]
  /\ eng \in [Engines -> EngineState]
  /\ attempts \in [Requests -> Nat]
  /\ crashes \in Nat

(***************************************************************************)
(* No job is lost: an entry leaves the pending list only after a terminal  *)
(* event was written to its result stream, whatever crashed or failed.     *)
(***************************************************************************)
AckedIsFinished == \A r \in Requests : Acked(r) => r \in finished

(***************************************************************************)
(* A client that reads a terminal event never reads it while the request's *)
(* reservation still holds the tokens it reserved.                         *)
(***************************************************************************)
FinishedIsSettled == \A r \in finished : res[r] # "reserved"

(***************************************************************************)
(* The result stream of an acknowledged job has an expiration, although    *)
(* XADD and EXPIRE are separate commands, or an engine is between the two. *)
(* The one exception is a late event: XADD creates a stream again that has *)
(* already expired, and if that engine then dies or its next command fails *)
(* nobody sets an expiration.  Such a stream stays for ever.               *)
(***************************************************************************)
AckedStreamExpires ==
  \A r \in Requests :
    Acked(r) /\ results[r] # <<>> /\ resultTtl[r] = "none" =>
      \/ \E e \in Engines : eng[e].pc = "record" /\ eng[e].job = r
      \/ r \in expired /\ faults + crashes > 0

(***************************************************************************)
(* The lease's purpose: two engines never execute attempts of the same     *)
(* request at the same time.                                               *)
(***************************************************************************)
SingleOwner ==
  \A e, f \in Engines :
    Executing(e) /\ Executing(f) /\ eng[e].job = eng[f].job => e = f

(***************************************************************************)
(* A completed event is preceded by every chunk of its attempt, so that a  *)
(* reader that keeps only that attempt's chunks has the whole response,    *)
(* however attempts interleave.                                            *)
(***************************************************************************)
CompletedIsWhole ==
  \A r \in Requests \ expired : \A i \in 1..Len(results[r]) :
    results[r][i].kind = "completed" =>
      \A n \in 1..results[r][i].n : \E j \in 1..(i - 1) :
        /\ results[r][j].kind = "token"
        /\ results[r][j].attempt = results[r][i].attempt
        /\ results[r][j].n = n

(***************************************************************************)
(* The result streams are result logs, which is all that clients rely on   *)
(* (module Subscription): no lost lease, crash or reply makes an engine    *)
(* complete an attempt whose chunks are not all in the stream, or write    *)
(* anything but the next event at its end.                                 *)
(***************************************************************************)
Log == INSTANCE AttemptLog WITH
         Attempts <- 1..MaxAttempts,
         Chunks <- MaxTokens,
         log <- results,
         closed <- expired

ImplementsResultLog == Log!StreamSpec

(***************************************************************************)
(* With reliable heartbeats they are attempt logs: attempts of one request *)
(* never interleave their chunks.                                          *)
(***************************************************************************)
ImplementsAttemptLog == Log!LogSpec

(***************************************************************************)
(* For its queue and its engines' loop the data plane is a JobQueue, whose *)
(* liveness module JobQueue checks for a backlog of jobs.                  *)
(***************************************************************************)
Stage(e) ==
  CASE eng[e].pc \in {"idle", "reclaim", "begin", "down"} -> eng[e].pc
    [] eng[e].pc \in {"status", "lease"} -> "open"
    [] Executing(e) -> "run"
    [] OTHER -> "finish"

Jobs == INSTANCE JobQueue WITH
          Workers <- Engines,
          Hung <- Engines,
          MaxFailures <- MaxFaults + MaxCrashes,
          work <- [e \in Engines |-> [pc |-> Stage(e), job |-> eng[e].job]],
          failures <- faults + crashes

ImplementsJobQueue == Jobs!JobSpec

(***************************************************************************)
(* Every published job gets a terminal event and is acknowledged, although *)
(* a reply fails, which may end an engine's process, and leases lapse      *)
(* under attempts that run; or else every engine ends up in an attempt     *)
(* whose backend never answers. One hung attempt is enough for that where  *)
(* a single engine is deployed; with two engines and one job its lease     *)
(* must lapse besides, before the deadline. As long as one engine is free  *)
(* the deadline ends the job, however its attempts hang.                   *)
(***************************************************************************)
EventuallyAcked ==
  \/ <>[](\A e \in Engines : eng[e].pc = "stream")
  \/ \A r \in Requests : (\E i \in 1..Len(queue) : queue[i] = r) ~> Acked(r)

-----------------------------------------------------------------------------
(* Statements of the repository's README that the code does not keep.      *)

(***************************************************************************)
(* README.md: Generate returns "the complete response": when the unary     *)
(* handler answers, its text is the chunks of the attempt that completed.  *)
(***************************************************************************)
CompleteResponse ==
  \A r \in Requests \ expired :
    LET answer == Collect(results[r]) IN
    answer.answer = "complete" =>
      answer.text = [n \in 1..answer.tokens |-> <<answer.by, n>>]

\* No handler and no engine has anything left to do for r.
Quiet(r) ==
  /\ fe[r] \in {"published", "failed", "gone"}
  /\ Acked(r)
  /\ \A e \in Engines : eng[e].job # r

(***************************************************************************)
(* README.md: "Completed result Streams expire after 10 minutes": once the *)
(* request is over, the last EXPIRE was the retention's, not the hour of   *)
(* an active stream.                                                       *)
(***************************************************************************)
CompletedStreamsRetained ==
  \A r \in Requests : Quiet(r) /\ results[r] # <<>> => resultTtl[r] = "retention"
=============================================================================
