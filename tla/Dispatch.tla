------------------------------ MODULE Dispatch ------------------------------
(***************************************************************************)
(* admit_and_dispatch of crates/inference-frontend: one handler per        *)
(* request, which awaits the broker four times.  fe[r] is the handler's    *)
(* position:                                                               *)
(*   "idle"       the request has not arrived,                             *)
(*   "reserved"   the quota is reserved, the job is built,                 *)
(*   "added"      the job's XADD succeeded,                                *)
(*   "cancelling" publish_generation failed, the quota is being cancelled, *)
(*   "published"  the handler went on to read the result stream,           *)
(*   "rejected", "failed"  it answered with an error,                      *)
(*   "gone"       its client went away, or its process died, in between.   *)
(***************************************************************************)
EXTENDS Streams

VARIABLE fe

Positions == {"idle", "reserved", "added", "cancelling", "published",
              "rejected", "failed", "gone"}

DispatchInit == fe = [r \in Requests |-> "idle"]

Goto(r, position) == fe' = [fe EXCEPT ![r] = position]

\* Authentication, the prompt, the model, the token budget or the quota script
\* refuse it: nothing is written.
Reject(r) ==
  /\ fe[r] = "idle"
  /\ Goto(r, "rejected")
  /\ NoCommand

\* A failed reply is answered like an exceeded quota; nothing is cancelled.
Reserve(r, reply) ==
  /\ fe[r] = "idle"
  /\ ReserveQuota(r, reply)
  /\ Goto(r, IF reply = "ok" THEN "reserved" ELSE "rejected")

PublishJob(r, reply) ==
  /\ fe[r] = "reserved"
  /\ AddJob(r, reply)
  /\ Goto(r, IF reply = "ok" THEN "added" ELSE "cancelling")

PublishStatus(r, reply) ==
  /\ fe[r] = "added"
  /\ MarkQueued(r, reply)
  /\ Goto(r, IF reply = "ok" THEN "published" ELSE "cancelling")

\* The outcome of cancel_quota is ignored.
CancelDispatch(r, reply) ==
  /\ fe[r] = "cancelling"
  /\ CloseReservation(r, "cancelled", reply)
  /\ Goto(r, "failed")

(***************************************************************************)
(* The client disconnects and the handler is dropped at its await, or the  *)
(* front end dies: nothing is undone.                                      *)
(***************************************************************************)
Drop(r) ==
  /\ fe[r] \in {"reserved", "added", "cancelling"}
  /\ Goto(r, "gone")
  /\ NoCommand

DispatchStep(r) ==
  \E reply \in Replies :
    \/ PublishJob(r, reply)
    \/ PublishStatus(r, reply)
    \/ CancelDispatch(r, reply)

Arrive(r) ==
  \/ Reject(r)
  \/ \E reply \in Replies : Reserve(r, reply)
=============================================================================
