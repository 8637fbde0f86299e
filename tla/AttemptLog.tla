----------------------------- MODULE AttemptLog -----------------------------
(***************************************************************************)
(* What a ResultLog is besides while heartbeats keep their leases: a log   *)
(* made of attempts that follow each other.                                *)
(*   - An attempt starts once, with an id the log has not seen.            *)
(*   - Only the attempt that started last adds chunks, and it adds them    *)
(*     in order: chunk n + 1 follows chunk n of the same attempt.          *)
(*   - An attempt completes once, after all of its chunks, and says        *)
(*     nothing more; a failure ends it likewise.                           *)
(* Terminal events may come between the chunks of a later attempt.         *)
(***************************************************************************)
EXTENDS ResultLog

\* The last start or chunk of the log is its i-th event.
IsTip(s, i) ==
  /\ s[i].kind \in {"started", "token"}
  /\ \A j \in (i + 1)..Len(s) : s[j].kind \in Terminal

Started(s, attempt) == \E i \in 1..Len(s) : s[i] = [kind |-> "started", attempt |-> attempt, n |-> 0]

Ended(s, attempt) ==
  \E i \in 1..Len(s) : s[i].attempt = attempt /\ s[i].kind \in Terminal

Extend(r, kind, attempt, n) ==
  /\ r \notin closed
  /\ log' = [log EXCEPT ![r] = Append(@, [kind |-> kind, attempt |-> attempt, n |-> n])]
  /\ UNCHANGED closed

StartAttempt(r, attempt) ==
  /\ \A i \in 1..Len(log[r]) : log[r][i].attempt # attempt
  /\ Extend(r, "started", attempt, 0)

AddChunk(r) ==
  \E i \in 1..Len(log[r]) :
    /\ IsTip(log[r], i)
    /\ log[r][i].n < Chunks
    /\ ~ Ended(log[r], log[r][i].attempt)
    /\ Extend(r, "token", log[r][i].attempt, log[r][i].n + 1)

Complete(r, attempt, n) ==
  /\ Started(log[r], attempt)
  /\ ~ Ended(log[r], attempt)
  /\ HasChunks(log[r], attempt, n)
  /\ Extend(r, "completed", attempt, n)

Fail(r, attempt, n) ==
  /\ ~ Ended(log[r], attempt)
  /\ Extend(r, "failed", attempt, n)

\* The deadline's failure belongs to no attempt and may be repeated.
FailLate(r) == Extend(r, "failed", 0, 0)

WriteLate(r, kind, attempt, n) ==
  /\ r \in closed
  /\ log' = [log EXCEPT ![r] = Append(@, [kind |-> kind, attempt |-> attempt, n |-> n])]
  /\ UNCHANGED closed

LogNext ==
  \E r \in Requests :
    \/ AddChunk(r)
    \/ FailLate(r)
    \/ Expire(r)
    \/ \E attempt \in Attempts :
         \/ StartAttempt(r, attempt)
         \/ \E n \in 0..Chunks : Complete(r, attempt, n) \/ Fail(r, attempt, n)
    \/ \E kind \in Kinds, attempt \in Attempts \cup {0}, n \in 0..Chunks :
         WriteLate(r, kind, attempt, n)

LogSpec == LogInit /\ [][LogNext]_logVars
=============================================================================
