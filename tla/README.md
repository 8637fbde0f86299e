# A TLA+ model of the inference data plane

This directory models, checks and proves properties of the repository's inference
data plane: the Rust front end and engines that share a Valkey broker, the quota
scripts they run on it, the clients that stream and replay results, the token budget, and the
Go control plane whose workflows load and unload models through a host agent.

## The system

A client calls the **front end** (`crates/inference-frontend`). It authenticates, budgets
tokens, reserves quota and publishes a job; then it reads the request's result stream and
answers. **Engines** (`crates/inference-engine`) consume jobs from a Valkey consumer group,
take a lease, run the request on a model backend, publish one event per chunk and a
terminal event, settle the quota and acknowledge the job. Both talk to the broker through
`crates/inference-streams` and share nothing else. Beside the token path, a Go **control
plane** starts Temporal workflows that load, drain and unload models through a **host agent**
that owns the MLX processes.

| component | state | operations | hard behaviour | what makes it correct |
|---|---|---|---|---|
| inference-streams: jobs and results | request stream, consumer group with its pending list, one result stream, status hash and lease key per request | publish_generation, publish_result, next, reclaim_stale, acknowledge, acquire/release/renew_lease, status | two-command methods that fail in between, lost replies, keys that expire | no job lost, streams that expire, one owner |
| inference-streams: subscriptions, streaming handlers and clients | a cursor per subscription, what each client has received | subscribe, next, StreamGenerate, SubscribeGeneration, connect_smoke's read_stream | reads that are retried on new connections, envelopes lost with a connection, streams that expire | nothing repeated, reordered or skipped; every call ends |
| inference-streams: quota | three counters per API key and minute, one hash per reservation | reserve, reconcile, cancel (Lua) | counters and reservations expire on their own; the minute is chosen on the client | exact counters, limits kept, no counter without expiration |
| inference-frontend | one handler per request | admit_and_dispatch, collect_generation, stream_generation, subscribe | four awaits in a row, a client that goes away, a reader racing several attempts | tokens settled, a whole response |
| inference-engine | consumer loop, attempt, heartbeat task | main loop, run_job, execute_attempt, heartbeat | crashes, lost leases, hanging backends, deadlines | no job lost, one owner, every job ends |
| token-budget-engine | none | decide_budget under three policies | arithmetic at the context limit, truncation loop | an admitted request fits its context |
| generation-quota-limiter | counters per key, reservations, two mutexes | reserve, reconcile, cancel | the minute is read before the lock is taken; refunds of an earlier window | counters within limits |
| host agent | map of owned processes, one mutex, one port | EnsureModel, GetModelStatus, DrainModel, StopModel, StopAll | unlock between check and use, processes that exit on their own, one port for all models | every child is tracked or told to stop |
| lifecycle workflows and control API | one Temporal workflow per operation and model | start, load, drain, unload | activities that time out while their handler goes on, repeated calls, a load next to an unload | an unload stops what it found; workflows end |
| catalog | map of entries | Reload, Get, List | none: it is loaded once, before the server starts | - |

## Modules

`RequestStream` -> `Streams` -> `Dispatch`, `Engine` -> `DataPlane` (with `ResultReader`) ->
`MCDataPlane` and `DataPlaneProofs`. `ResultLog` -> `AttemptLog`, and `JobQueue` (over
`RequestStream`), are abstract specifications `DataPlane` implements; `Subscription` extends
`ResultLog` with the clients that read it. `EndToEnd` puts the data plane in the log's place, and
`RefinementProofs` proves all of these refinements. `HostAgent` -> `ModelLifecycle`. `Totals` -> `QuotaLedger`, `MemoryLimiter`; `TokenBudget`
stands alone. An `MC...` module gives each its constants' values or symmetry where the cfg cannot,
and eight `...Proofs` modules hold the proofs. PROJECT.json maps every definition to its lines.

**RequestStream** is the request stream and its consumer group: XADD, XREADGROUP, XAUTOCLAIM and
XACK. XAUTOCLAIM with COUNT 1 looks at the first `ScanLimit` pending entries (Valkey: ten) and
takes the first stale one.

**Streams** is the rest of the broker, and the commands `StreamsClient` and `JobConsumer` send. A method
that sends two commands is two operators (`publish_generation`: `AddJob`, `MarkQueued`;
`publish_result`: `AddResult`, `RecordResult`), because others act in between; a method that
sends one command, one MULTI block or one script is one. Every command takes a reply: `ok`,
`lost` (not executed) or `done` (executed, answer lost); the client sees an error in both of
the last two cases. `finished` and `expired` only record history, for the properties.

**Dispatch** is `admit_and_dispatch`: reserve the quota, XADD the job, HSET its status, and
cancel the quota if publication failed. `Drop` is the handler's future being dropped at an
await when its client goes away.

**Engine** is the engine process. `pc` names the await it is at; each action is the code from
one await to the next, with every way the reply can go: the loop of `main` (`NextJob`,
`NextNone`, `Reclaim`, `ReclaimNone`, `Ack`), `run_job` (`CheckDeadline`, `CancelLate`,
`CheckStatus`, `Acquire`, `Release`, `Settle`), `execute_attempt` and its backend (`Refuse`,
`Start`, `BackendToken`, `BackendEnds`), `publish_result` as the engine calls it (`XAdd`,
`Record`, `PublishFails`), the heartbeat (`HeartbeatLost`) and the process (`Crash`, `Restart`).
Attempt ids are UUIDs in the code and fresh numbers here. A chunk is its attempt and number.

**ResultReader** is `collect_generation` as a fold over a result stream.

**DataPlane** composes them with the passing of time: entries go stale, deadlines pass, leases
lapse and keys expire. Keys expire after the deadline only: the repository configures a
generation timeout of 300 s, a retention of 600 s and an active TTL of 3600 s. The reservation
hash (120 s) may expire at any time.

**ResultLog** is what a replaying reader may always rely on: events are only appended, and a
completed event follows every chunk of its attempt; attempts may interleave. **AttemptLog** is what
it may rely on besides while heartbeats keep their leases: an attempt starts once, only the attempt
that started last adds chunks, in order, and an attempt completes once. `ImplementsResultLog` and
`ImplementsAttemptLog` map a request's result stream to the log.

**JobQueue** is what the queue and the engines' loop promise for a backlog: which entries the
engines hold and how far `run_job` is with each, without leases, results and quotas.
`ImplementsJobQueue` maps an engine's `pc` to its stage (`Stage`), and failed replies and kills
together to the queue's failures.

**Subscription** is how results are read: `subscribe` and `ResultSubscription::next` with its four
reads, `stream_generation` behind StreamGenerate and SubscribeGeneration, and a client like
connect_smoke's `read_stream`. `sub[r][c].pc` names the handler's await; `cursor` is the handler's
last event id, `got` what it yielded to the client over all calls and `has` how much of it arrived:
a connection that breaks (`HangUp`) loses the difference. The stream is any behaviour of
`ResultLog`, without bounds; `MCSubscription` bounds it for TLC to what engines write, two attempts
in any interleaving. Of the status clients see only whether it exists (`known`) and whether
publish_generation returned (`published`), after which StreamGenerate reads. Event ids are positions in the history of everything ever added, because ids grow
even after a stream expired and was created again.

**EndToEnd** is the data plane with its clients: the state of `DataPlane` and, for each client, that
of `Subscription`, whose log, status and published requests are read off the data plane. A step is
one of the data plane (`Serve`) or of a call (`Call`), which leaves the data plane alone. It has no
run of its own, since with two engines its states are too many: `lost_replies` and `subscription`
check its two halves, and the composition is proved.

**QuotaLedger** is the three Lua scripts over counters and reservation hashes that expire, with
a minute chosen on the client up to `MaxLag` before the script runs. **MemoryLimiter** is the
in-process limiter, at the grain of its awaits on two mutexes, at which a call may be dropped. Their properties compare a counter
with what the reservations of its minute cost together: **Totals** defines that sum as the number
of units charged, which TLC counts and a proof can reason about. **TokenBudget** is
`decide_budget`; each turn of `truncate_oldest`'s loop is a step. **HostAgent** is the agent at
the grain of its mutex: what a handler does while it holds the lock is one step, and waiting
for the endpoint is where others come in between. Processes bind the port, exit and are waited
for on their own; a probe may answer true only if someone holds the port, and may always answer
false. The agent exits after StopAll (`Exit`) or is killed at any time (`Killed`), and
`scripts/host-agent-start.sh` starts the next one with an empty map (`StartAgain`); the children of
the last one run on as orphans that the new agent does not know.

**ModelLifecycle** is `start` of the control API and the three workflows over the host agent.
Temporal is external: one workflow per operation and model runs at a time, and an activity is run
again after an error or a timeout. A load's EnsureHostModel is tied to the agent's handler that
works for it (`by`); when the activity times out the tie is cut and the handler goes on. The
activities of an unload have no limit on attempts; a call whose reply is lost has been executed and
is made again (`ReplyLost`). `doomed` records the processes an unload found, for the property.

## Runs

Passing runs:

| run | instance | shows |
|---|---|---|
| `lost_replies` | 1 request, 2 engines, 2 attempts of 1 chunk, 1 failed reply anywhere, leases lapse under running attempts, the status expires | no job acknowledged without a terminal event; tokens settled first; a completed attempt has every chunk before it although two engines execute at once; the result streams implement `ResultLog` |
| `attempt_log` | 2 engines, 2 attempts of 1 chunk, 1 kill, reliable heartbeats, the stream expires | one engine executes at a time; the result streams implement `AttemptLog`; an acknowledged job's stream expires, or is a re-created one whose writer was killed |
| `liveness` | 2 engines, 2 attempts before the deadline, 1 failed reply anywhere, leases lapse under running attempts, backends may hang, fairness | every published job is finished and acknowledged unless all engines hang; queue and loop implement `JobQueue` |
| `job_queue` | 2 jobs, 2 engines of which one's backend may hang, 2 failures, `ScanLimit` 1, fairness | every job of a backlog is acknowledged |
| `subscription` | 1 client, 2 calls, 4 events of 2 interleaving attempts, 1 envelope in flight, 1 event after expiry, fairness | nothing repeated, reordered or skipped; a completed response is whole; every call ends |
| `lifecycle` | 1 model, 1 process value, 2 concurrent EnsureModel handlers, 2 tries, an agent that is shut down or killed and started again, fairness | no child lost, shutdown stops what was there, no late "ready", an unload stops what it found, workflows end |
| `quota` | 3 reservations of one key, minutes of 2 ticks, expiration after 3 | counters exact, limits kept, no counter without expiration |
| `memory_limiter` | 3 calls, dropped at any await, 2 minutes | counters within limits, exact until the minute changes, and never more than what the calls of their window cost |
| `token_budget` | chats of up to 3 messages, limits around their size | admitted requests fit, policies agree, truncation minimal |

Why the bounds are enough. The data plane's hazards are between two actors on one request: a
second attempt (`MaxAttempts` 2) next to the rest of the first, one engine dying between two
commands, one reply lost. `MaxAttempts` bounds how often an entry goes stale before its
deadline; after the deadline it may do so for ever. A second request matters for the queue's
order, the pending list and the scan only: that is `JobQueue`, which the data plane is proved to
implement and which has two jobs, with a scan of one entry so that a stale entry can hide behind a
fresh one. Runs whose properties do not look at chunks have `MaxTokens` 0 (the attempt still
publishes its start), and `Expiring` names the keys a run is long enough to see expire: the
status next to failed replies, the result stream next to a kill. The reservation expires in the
violated runs only; the theorems cover it. In
`lost_replies` and `liveness` a failed reply already ends the process or abandons the job, so nobody
is killed besides; kills are in `attempt_log` and, as failures of the abstract queue, in `job_queue`. In `subscription` four events are an attempt that starts, adds a chunk and completes with
another attempt's start or failure anywhere between; the bounds (`MaxEvents`, `MaxLate`, `Bounded`)
are `MCSubscription`'s and the specification proved about has none of them. Two calls are a broken one and the one that
resumes, and one envelope in flight is what the break can lose. In `lifecycle` a process value is
used again once nothing refers to it, so the number of starts is not bounded; two handlers are the
one whose activity timed out and the one of the next try. Two processes alive at once (one that was
told to stop and still exits, or an orphan of a killed agent, next to its successor, and with them a
startup timeout that stops the wrong process) are beyond this run, whose liveness properties would
need more than fifteen million states; its safety properties are proved for any number of
processes. The quota run needs a reservation made at
the end of a minute, its expiration and a late script, which four ticks of two-tick minutes give;
three ids give two admissions and one refusal. All of this only bounds the size of the runs: the
theorems below hold without any bound. Symmetry is over engines, ids or calls, none of
which a definition names; runs with a liveness property use none.

Deadlock is checked in the data plane and the job queue, where an engine always has something to
do. It is not checked in the other modules: clients that made their calls, an agent that has
exited, a ledger whose time is over, a decided budget and a limiter whose calls have ended may
stop.

Fairness. In the data plane the awaits of an engine return, since a broker command ends with a
reply or an error; the deployment restarts an engine that ended; and time passes, so entries go
stale, deadlines pass and leases that no heartbeat renews lapse. Nothing is assumed of the model
backend (the engine's HTTP client has a connect timeout and no other), of clients, of key expiry, or
of a lease that is renewed: it may lapse, when renewals fail, or not. `EventuallyAcked` is therefore
conditional. An engine in an attempt whose backend never answers is lost to the queue, and the job
is finished by the deadline path of another one; if a lapsed lease lets the second engine start
an attempt that hangs too, nobody is left. `k8s/base/inference-engine.yaml:7` deploys one replica:
there a single hung attempt stops the queue. In the job
queue the same holds, but the backends of the engines outside `Hung` answer in the end: with every
backend hung no engine is left for the second job. In `Subscription` a handler's await on the
broker returns (XREAD blocks at most 300 s) and a client takes what arrives; no engine need ever
write. In `ModelLifecycle` Temporal runs a workflow's next activity, the agent's handlers return
(their startup loop has a deadline), and an activity that is repeated without limit is executed and
answered once; nothing is assumed of the processes.

Violated runs, each of a sentence of the repository that the code does not keep (the finding in
PROJECT.json quotes it):

| run | sentence | what happens |
|---|---|---|
| `complete_response` | Generate returns the complete response | the lease is released before the terminal event is published: a second attempt starts, and the reader answers with its chunks at the first one's completed event |
| `stream_retention` | completed result streams expire after 10 minutes | an event of a second attempt sets the stream back to an hour |
| `requests_per_minute` | requests-per-minute limits | a call that read the old minute resets the new minute's counters |

Five more disagreements show in the models and have no run of their own; PROJECT.json lists
them as hazards. An event that is published after its stream expired creates the stream again, and
if the engine is killed or its next command fails before the EXPIRE, the stream stays for ever
(`AckedStreamExpires` names this exception). `publish_generation` can write `queued`, with the TTL of an active request, over
the status of a job that already completed. An attempt whose lease lapsed goes on next to its
successor (`SingleOwner` needs `HeartbeatsReliable`). A refund for the last minute is taken from
this minute's counter of the in-memory limiter. And the host agent starts a model although an
unowned process holds its port, if that process does not answer 200 within a second.

## Proofs

For every number of requests, engines, chunks, attempts, kills and failed replies,
`DataPlaneProofs` proves type correctness, `AckedIsFinished`, `FinishedIsSettled`,
`AckedStreamExpires` and, if heartbeats are reliable, `SingleOwner`. The assumptions are those
of the modules: the bounds are natural numbers, `NoJob` is no request, and there are finitely many
engines. None of the properties is
inductive. The invariant `IInv` adds, per subject:

- who holds which job: an engine past `begin` has a job that was dispatched (`JobsAssigned`,
  `JobsDispatched`);
- `SettledInv`: an engine about to publish a terminal event has closed the reservation, and a
  request that is finished is past the point where the front end could reserve again;
- `FinishedInv`: a `completed` status, and an engine that is about to acknowledge, both imply
  that a terminal event was written;
- `ExpiresInv`: the same for the expiration, where an engine between XADD and its MULTI block
  knows that the stream exists or has expired;
- `RecreatedInv`: a stream that exists again after it expired has an expiration, or an engine is at
  its MULTI block, or a reply failed or an engine was killed;
- `OwnerInv`: attempt ids are fresh, so an engine that executes with reliable heartbeats is the
  one the lease names.

The proof has a lemma for what each kind of move does to the engine, then for each conjunct a
lemma with one step per engine action, one lemma each for the front end's and time's steps, and
the theorems.

It also proves `CompletedIsWhole`. `WholeInv` adds to `IInv` what
an engine owes to the result stream: as long as its attempt can still end with a completed event,
every chunk it counted is in the stream, except the one it is about to XADD (`Pays`). An engine
whose XADD or MULTI block failed owes nothing, because its attempt can only end as failed; the
other engines' appends leave the chunks where they are; an expired stream makes no promise.

`RefinementProofs` proves that the data plane implements its abstract specifications.

- `RefinesJobQueue`: one lemma per action of an engine, and one each for the front end and for
  time, says which abstract step the action is, or that it is unseen. `QueueInv` says what the
  mapping needs besides `IInv`: failed replies and kills stay within their bounds (their sum is the
  abstract count of failures), an engine at rest holds no job, and a front end that may still send
  its job has not sent it, so that a job is sent once.
- `RefinesAttemptLog`, if heartbeats are reliable. The log numbers attempts 1 to `MaxAttempts`, so
  the first thing to show is that no more ids are drawn, although each engine draws its own.
  `BoundInv` has each attempt paid for by the entry's first delivery or by one time it went stale
  before the deadline; an engine that holds the entry and may still start an attempt keeps what it
  was delivered, and after the deadline only engines past its check may. The engines in such a
  place are counted, which is why there must be finitely many. `LogInv` then says what each attempt
  has written: nothing (`Unbegun`), its start, its start and the chunks it counted with the last of
  them the latest start or chunk of the stream (`Tip`), or no terminal event yet (`Open`). An XADD
  of the engine is then a step the log allows. The other engines' XADDs keep this, because by
  `SingleOwner` what they write while an attempt is at its chunks is terminal. A stream that expired
  is closed in the log and makes no promise.
- `RefinesResultLog`, whether or not heartbeats are reliable. What an engine's own state says of its
  attempt (`LocalInv`: its chunks are within the bound, and an attempt that writes has an id) does
  not depend on the other engines, so it survives interleaved attempts; with `BoundInv` every XADD
  is an event of the log, and `WholeInv` says that a completed one is preceded by its chunks.
- `ServesClients`: `EndToEnd` implements `Subscription`. A step of the data plane changes a result
  stream, which is `Subscription`'s `Produce` by `RefinesResultLog`'s argument, or which requests
  have a status and a handler that goes on to read (`NextMarks`: publish_generation, publish_result's
  MULTI block and the status's expiration), or nothing that clients see; never both.
- `ClientsServed` brings both sides together: `SubscriptionProofs` is instantiated at the data
  plane's state, so `InStreamOrder`, `NothingSkipped`, `WholeResponse` and `SubscribersAgree` hold
  of what the engines really write, although leases lapse under running attempts. Its only
  hypotheses are what `Subscription` assumes of the clients' constants.

`SubscriptionProofs` proves every safety property of `subscription`, for any number of requests,
attempts, chunks, clients and calls, and `SubscribersAgree`: of two clients of a request, one has a
prefix of what the other has, which is the ADR's "multiple subscribers receive identical ordered
events". What a client has is not enough for an induction, because the handler's cursor decides
what comes next. The invariant relates them: `Sound` (a reading handler's cursor is at or after
everything the client was sent, and within the history; it holds after the stream expired too),
`Full` (until the stream expires, everything up to the cursor that is not a start was sent, and
none of it was terminal), `Agree` for pairs of clients, and `WholeLog` (in the history a completed
event follows every chunk of its attempt, from `ResultLog`'s guard). `WholeResponse` follows from
`Full` and `WholeLog`.

`ModelLifecycleProofs` proves the agent's properties for any number of models, processes and
concurrent handlers, however often the agent is killed and started again. `ShutdownStopsChildren` needs `ShutdownInv`: during the shutdown, StopAll's
list holds the model of every child from before the signal that was not told to stop.
It proves too that workflows and agent together implement the agent alone, so that
its theorems hold under the control plane, and `UnloadedIsTold`: when StopModel is executed the
process in the agent's map is the only one of the model that was not told to stop (`NoStrayChild`),
and one that was told never becomes untold again. The children of an agent that is gone (`born` is
`orphan`) are excepted from these statements: its successor has an empty map and does not know them.

`QuotaLedgerProofs` proves all properties of the quota scripts, for any number of keys,
reservations, ticks and any limits. `CountersExact` and `NoImmortalCounter` depend on each other:
DECRBY brings a counter back without an expiration exactly when the counter has gone and a
reservation still counts in it. The invariant `LedgerInv` excludes that: two reservations of the
same bucket were asked for less than a minute apart, a script runs at most `MaxLag` after it was
asked for, so by the assumption that a minute and the lag fit into the counters' lifetime
(`ClockAssumption`; the repository has 60 s in 120 s) every script of a minute finds the minute's counters alive, and each
counter dies no earlier than any reservation it was raised for (`Covered`).

`MemoryLimiterProofs` proves `CountersWithinLimit`, `ExactWithinMinute` and `CountersJustified` for
any number of keys, calls and minutes. They are inductive together once it is known that no window
and no minute is ahead of the clock and that a refund is at most what was reserved (`LimiterInv`).
`TotalsProofs` holds what both rest on: when one entry of a function changes, its total changes by
the difference. That is a fact about cardinalities, so it needs no induction over the reservations.

`TokenBudgetProofs` proves `TruncationMinimal`, `AdmittedFits` and `PoliciesAgree` for the
approximate counter, chats of any length and any limits. The last two need that a chat counts at least one token, a fact about a
recursive function: it is proved for a chat by looking at the shortest prefix that would break it,
since induction as a rule is out of the prover's reach.

Model-checked only: `EventuallyAcked`, `EveryJobAcked`, `CallsEnd`, `LoadsEnd` and `UnloadsEnd`
(liveness is out of the prover's reach), and the type invariant of `JobQueue` on its own.

## Not modelled

- Bytes: the RESP, protobuf and SSE parsers, the framing of envelopes, and with them a UTF-8
  character split over two network chunks (engine `main.rs:401`) and a backend stream that ends
  early without an error (`main.rs:400`), which the code takes for the end of the answer.
- Jobs and results that do not decode: the front end and the engines write the current schema.
- The catalog: `Reload` runs once, before the server starts; nothing replaces a catalog in use.
- The contents of the host agent's replies, and with them which model answers on the port all
  models share, and the unlocked read of `state` for the reply in `EnsureModel`. The model lets a
  probe answer for whoever holds the port.
- A client that asks for events after a terminal one: it waits for 300 s and is told that the
  generation timed out, or gets what a second attempt wrote.
- Command-line programs, configuration, the bearer checks, generated code, manifests, scripts and
  benchmarks.

## Plan

What the models leave to be added:

1. The heartbeat with explicit time, so that `HeartbeatsReliable` becomes a statement about
   renewal periods.
2. The type invariant of `JobQueue` as a theorem; the data plane's own is proved, and the run
   `job_queue` checks the queue's.
