------------------------------ MODULE Streams ------------------------------
(***************************************************************************)
(* The Valkey broker as crates/inference-streams uses it, and the          *)
(* operations StreamsClient and JobConsumer offer on it.  A StreamsClient  *)
(* method that sends two commands (publish_generation, publish_result) is  *)
(* two operators here, because anything may happen between them; a method  *)
(* that sends one command, one MULTI block or one Lua script is one.       *)
(*                                                                         *)
(* Every command has a reply:                                              *)
(*   "ok"    the broker executed it and the client read the answer,        *)
(*   "lost"  the connection failed before the broker executed it,          *)
(*   "done"  the broker executed it and the connection failed afterwards.  *)
(* The client cannot tell the last two apart: both are an Err.  The number *)
(* of failed replies is bounded by MaxFaults.                              *)
(***************************************************************************)
EXTENDS RequestStream

CONSTANT MaxFaults    \* bound: broker replies that fail

ASSUME MaxFaultsAssumption == MaxFaults \in Nat

VARIABLES
  status,      \* the "state" field of each request's status hash
  statusTtl,   \* which EXPIRE the status hash last received
  results,     \* each request's result stream
  resultTtl,   \* which EXPIRE the result stream last received
  lease,       \* the attempt that owns each request's lease key, 0 if none
  res,         \* the "status" field of each request's quota reservation
  late,        \* the requests whose deadline_unix_ms has passed
  faults,      \* failed replies so far
  finished,    \* auxiliary: requests some terminal event was ever XADDed for
  expired      \* auxiliary: requests whose result stream ever expired

statusVars == <<status, statusTtl>>
resultVars == <<results, resultTtl, finished, expired>>
streamsVars == <<queueVars, statusVars, resultVars, lease, res, late, faults>>

Kinds    == {"started", "token", "completed", "failed"}
Terminal == {"completed", "failed"}
Replies  == {"ok", "lost", "done"}
Ttls     == {"none", "active", "retention"}

(***************************************************************************)
(* A result event: its kind, the attempt it belongs to (0 stands for the   *)
(* engine id a deadline failure carries instead of an attempt id) and the  *)
(* number of chunks the attempt had produced.                              *)
(***************************************************************************)
Event == [kind : Kinds, attempt : Nat, n : Nat]

Lands(reply) == reply # "lost"

\* A failed reply uses up one of the MaxFaults failures.
Replied(reply) ==
  /\ reply # "ok" => faults < MaxFaults
  /\ faults' = IF reply = "ok" THEN faults ELSE faults + 1

StreamsInit ==
  /\ QueueInit
  /\ status = [r \in Requests |-> "none"]
  /\ statusTtl = [r \in Requests |-> "none"]
  /\ results = [r \in Requests |-> <<>>]
  /\ resultTtl = [r \in Requests |-> "none"]
  /\ lease = [r \in Requests |-> 0]
  /\ res = [r \in Requests |-> "none"]
  /\ late = {}
  /\ faults = 0
  /\ finished = {}
  /\ expired = {}

-----------------------------------------------------------------------------
(* publish_generation: XADD of the job, then HSET queued and EXPIRE.       *)

AddJob(r, reply) ==
  /\ Replied(reply)
  /\ IF Lands(reply) THEN Enqueue(r) ELSE UNCHANGED queueVars
  /\ UNCHANGED <<statusVars, resultVars, lease, res, late>>

MarkQueued(r, reply) ==
  /\ Replied(reply)
  /\ status' = IF Lands(reply) THEN [status EXCEPT ![r] = "queued"] ELSE status
  /\ statusTtl' = IF Lands(reply) THEN [statusTtl EXCEPT ![r] = "active"] ELSE statusTtl
  /\ UNCHANGED <<queueVars, resultVars, lease, res, late>>

-----------------------------------------------------------------------------
(* publish_result: XADD of the event, then the MULTI block that writes the *)
(* status and both expirations.                                            *)

AddResult(r, event, reply) ==
  /\ Replied(reply)
  /\ results' = IF Lands(reply) THEN [results EXCEPT ![r] = Append(@, event)] ELSE results
  /\ finished' = IF Lands(reply) /\ event.kind \in Terminal THEN finished \cup {r} ELSE finished
  /\ UNCHANGED <<queueVars, statusVars, resultTtl, expired, lease, res, late>>

StateAfter(kind) == IF kind \in Terminal THEN "completed" ELSE "running"
TtlAfter(kind)   == IF kind \in Terminal THEN "retention" ELSE "active"

\* Mutant: a terminal event sets the status's expiration only.
RecordResultNoExpire(r, kind, reply) ==
  /\ Replied(reply)
  /\ status' = IF Lands(reply) THEN [status EXCEPT ![r] = StateAfter(kind)] ELSE status
  /\ statusTtl' = IF Lands(reply) THEN [statusTtl EXCEPT ![r] = TtlAfter(kind)] ELSE statusTtl
  /\ resultTtl' = IF Lands(reply) /\ kind \notin Terminal
                    THEN [resultTtl EXCEPT ![r] = TtlAfter(kind)] ELSE resultTtl
  /\ UNCHANGED <<queueVars, results, finished, expired, lease, res, late>>

\* EXPIRE has no effect on a stream key that is gone.
RecordResult(r, kind, reply) ==
  /\ Replied(reply)
  /\ status' = IF Lands(reply) THEN [status EXCEPT ![r] = StateAfter(kind)] ELSE status
  /\ statusTtl' = IF Lands(reply) THEN [statusTtl EXCEPT ![r] = TtlAfter(kind)] ELSE statusTtl
  /\ resultTtl' = IF Lands(reply) /\ results[r] # <<>>
                    THEN [resultTtl EXCEPT ![r] = TtlAfter(kind)] ELSE resultTtl
  /\ UNCHANGED <<queueVars, results, finished, expired, lease, res, late>>

-----------------------------------------------------------------------------
(* The consumer group: XREADGROUP ">", XAUTOCLAIM from 0-0, XACK.          *)

ReadGroup(r, reply) ==
  /\ Undelivered(r)
  /\ Replied(reply)
  /\ IF Lands(reply) THEN Deliver(r) ELSE UNCHANGED queueVars
  /\ UNCHANGED <<statusVars, resultVars, lease, res, late>>

AutoClaim(r, reply) ==
  /\ FirstStale(r)
  /\ Replied(reply)
  /\ IF Lands(reply) THEN Claim(r) ELSE UNCHANGED queueVars
  /\ UNCHANGED <<statusVars, resultVars, lease, res, late>>

Acknowledge(r, reply) ==
  /\ Replied(reply)
  /\ IF Lands(reply) THEN Remove(r) ELSE UNCHANGED queueVars
  /\ UNCHANGED <<statusVars, resultVars, lease, res, late>>

-----------------------------------------------------------------------------
(* The attempt lease: SET NX PX, and compare-and-delete.                   *)

AcquireLease(r, owner, reply) ==
  /\ Replied(reply)
  /\ lease' = IF Lands(reply) /\ lease[r] = 0 THEN [lease EXCEPT ![r] = owner] ELSE lease
  /\ UNCHANGED <<queueVars, statusVars, resultVars, res, late>>

ReleaseLease(r, owner, reply) ==
  /\ Replied(reply)
  /\ lease' = IF Lands(reply) /\ lease[r] = owner THEN [lease EXCEPT ![r] = 0] ELSE lease
  /\ UNCHANGED <<queueVars, statusVars, resultVars, res, late>>

-----------------------------------------------------------------------------
(* The quota reservation's life.  The counters are module QuotaLedger's.   *)

ReserveQuota(r, reply) ==
  /\ Replied(reply)
  /\ res' = IF Lands(reply) THEN [res EXCEPT ![r] = "reserved"] ELSE res
  /\ UNCHANGED <<queueVars, statusVars, resultVars, lease, late>>

\* reconcile_quota and cancel_quota: only a reservation still "reserved".
CloseReservation(r, how, reply) ==
  /\ Replied(reply)
  /\ res' = IF Lands(reply) /\ res[r] = "reserved" THEN [res EXCEPT ![r] = how] ELSE res
  /\ UNCHANGED <<queueVars, statusVars, resultVars, lease, late>>

-----------------------------------------------------------------------------
(* A read (HMGET of the status): an Err when the connection fails.         *)

ReadOnly(reply) ==
  /\ reply \in {"ok", "lost"}
  /\ Replied(reply)
  /\ UNCHANGED <<queueVars, statusVars, resultVars, lease, res, late>>

NoCommand == UNCHANGED streamsVars

-----------------------------------------------------------------------------
(* Time.                                                                   *)

GrowStale(r) ==
  /\ Age(r)
  /\ UNCHANGED <<statusVars, resultVars, lease, res, late, faults>>

LeaseLapses(r) ==
  /\ lease[r] # 0
  /\ lease' = [lease EXCEPT ![r] = 0]
  /\ UNCHANGED <<queueVars, statusVars, resultVars, res, late, faults>>

\* The reservation hash lives for 120 seconds, less than the deadline.
ReservationExpires(r) ==
  /\ res[r] \notin {"none", "expired"}
  /\ res' = [res EXCEPT ![r] = "expired"]
  /\ UNCHANGED <<queueVars, statusVars, resultVars, lease, late, faults>>

(***************************************************************************)
(* Keys expire only after the request's deadline: with the repository's    *)
(* configuration generation_timeout (300 s) is shorter than                *)
(* result_retention (600 s) and active_ttl (3600 s).                       *)
(***************************************************************************)
StatusExpires(r) ==
  /\ r \in late
  /\ statusTtl[r] # "none"
  /\ status' = [status EXCEPT ![r] = "none"]
  /\ statusTtl' = [statusTtl EXCEPT ![r] = "none"]
  /\ UNCHANGED <<queueVars, resultVars, lease, res, late, faults>>

ResultExpires(r) ==
  /\ r \in late
  /\ resultTtl[r] # "none"
  /\ results' = [results EXCEPT ![r] = <<>>]
  /\ resultTtl' = [resultTtl EXCEPT ![r] = "none"]
  /\ expired' = expired \cup {r}
  /\ UNCHANGED <<queueVars, statusVars, finished, lease, res, late, faults>>

DeadlinePasses(r) ==
  /\ r \notin late
  /\ late' = late \cup {r}
  /\ UNCHANGED <<queueVars, statusVars, resultVars, lease, res, faults>>
=============================================================================
