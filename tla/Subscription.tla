---------------------------- MODULE Subscription ----------------------------
(***************************************************************************)
(* How clients read a request's result stream: subscribe and               *)
(* ResultSubscription::next of crates/inference-streams, stream_generation *)
(* of crates/inference-frontend behind StreamGenerate and                  *)
(* SubscribeGeneration, and a client that collects envelopes the way       *)
(* connect_smoke's read_stream does.  The stream itself is what the data   *)
(* plane promises, module ResultLog.                                       *)
(*                                                                         *)
(* sub[r][c] is what client c and the handler of its current call about    *)
(* request r know.  Its pc names the handler's await:                      *)
(*   "away"       no call is in progress                                   *)
(*   "inspect"    rpc_subscribe_generation reads the status                *)
(*   "subscribe"  EXISTS and the subscription's own connection             *)
(*   "read"       XREAD, from the handler's cursor                         *)
(*   "reconnect"  the backoff after a failed XREAD, and a new connection   *)
(*   "closing"    the handler returned, its last envelopes are in flight   *)
(*   "broken"     the same, and the last one is an error                   *)
(*                                                                         *)
(* An event id is the event's index in hist[r], every event that was ever  *)
(* added to r's stream: ids grow even when the stream expired in between.  *)
(* 0 is the cursor 0-0.                                                    *)
(***************************************************************************)
EXTENDS ResultLog

CONSTANTS
  Clients,
  Caller,        \* the client that sent the requests, with StreamGenerate
  MaxCalls,      \* bound: calls a client makes about a request
  MaxInFlight    \* bound: envelopes yielded and not yet received

ASSUME CallerAssumption == Caller \in Clients
ASSUME SubscriptionBounds == MaxCalls \in Nat \ {0} /\ MaxInFlight \in Nat \ {0}

VARIABLES
  hist,          \* each request's events since the beginning
  known,         \* the requests that have a status hash
  published,     \* the requests whose publish_generation returned
  sub

vars == <<logVars, hist, known, published, sub>>

Sub == [pc : {"away", "inspect", "subscribe", "read", "reconnect", "closing", "broken"},
        cursor : Nat,       \* the handler's last_event_id
        tries : 0..3,       \* XREADs of this next() that failed
        got : Seq(Nat),     \* the events yielded to the client, over all its calls
        has : Nat,          \* how many of them have arrived; the others are in flight
        calls : Nat]

Away == [pc |-> "away", cursor |-> 0, tries |-> 0, got |-> <<>>, has |-> 0, calls |-> 0]

Init ==
  /\ LogInit
  /\ hist = [r \in Requests |-> <<>>]
  /\ known = {}
  /\ published = {}
  /\ sub = [r \in Requests |-> [c \in Clients |-> Away]]

Kind(r, id) == hist[r][id].kind

LastOf(ids) == IF ids = <<>> THEN 0 ELSE ids[Len(ids)]

\* The client has a terminal event: it resumes no more.
Done(r, c) == sub[r][c].got # <<>> /\ Kind(r, LastOf(sub[r][c].got)) \in Terminal

\* The id of the first entry XREAD finds after an id, if there is one: what came
\* before the oldest entry of the stream has expired.
Expired(r) == Len(hist[r]) - Len(log[r])
After(r, id) == IF id < Expired(r) THEN Expired(r) + 1 ELSE id + 1
Available(r, id) == After(r, id) <= Len(hist[r])

Update(r, c, s) ==
  /\ sub' = [sub EXCEPT ![r][c] = s]
  /\ UNCHANGED <<logVars, hist, known, published>>

-----------------------------------------------------------------------------
(* The stream and the status hash.                                         *)

\* XADD gives the event it appends the next id.
Numbered ==
  hist' = [r \in Requests |->
             IF Len(log'[r]) > Len(log[r])
               THEN Append(hist[r], log'[r][Len(log'[r])]) ELSE hist[r]]

Produce ==
  /\ StreamNext
  /\ Numbered
  /\ UNCHANGED <<known, published, sub>>

\* publish_generation's HSET was answered: its handler goes on.
Publish(r) ==
  /\ published' = published \cup {r}
  /\ known' = known \cup {r}
  /\ UNCHANGED <<logVars, hist, sub>>

\* The same without its answer, and publish_result.  The status expires by itself.
WriteStatus(r) ==
  /\ known' = known \cup {r}
  /\ UNCHANGED <<logVars, hist, published, sub>>

StatusExpires(r) ==
  /\ known' = known \ {r}
  /\ UNCHANGED <<logVars, hist, published, sub>>

-----------------------------------------------------------------------------
(* The calls.                                                              *)

\* StreamGenerate's handler, once publish_generation returned.
OpenStream(r) ==
  /\ sub[r][Caller].pc = "away"
  /\ sub[r][Caller].calls = 0
  /\ r \in published
  /\ Update(r, Caller, [sub[r][Caller] EXCEPT !.pc = "subscribe", !.calls = 1])

\* Mutant: the server goes on where its last call was, not where the client is.
ResumeAtCursor(r, c) ==
  /\ sub[r][c].pc = "away"
  /\ sub[r][c].calls < MaxCalls
  /\ ~ Done(r, c)
  /\ Update(r, c, [sub[r][c] EXCEPT !.pc = "inspect", !.calls = @ + 1])

\* SubscribeGeneration after the last event the client has.
Resume(r, c) ==
  /\ sub[r][c].pc = "away"
  /\ sub[r][c].calls < MaxCalls
  /\ ~ Done(r, c)
  /\ Update(r, c, [sub[r][c] EXCEPT !.pc = "inspect", !.cursor = LastOf(sub[r][c].got),
                                    !.calls = @ + 1])

\* SubscribeGeneration without a cursor: the client starts over.
Replay(r, c) ==
  /\ sub[r][c].pc = "away"
  /\ sub[r][c].calls < MaxCalls
  /\ Update(r, c, [Away EXCEPT !.pc = "inspect", !.calls = sub[r][c].calls + 1])

\* The status is missing, or cannot be read: the call is answered with an error.
Inspect(r, c) ==
  /\ sub[r][c].pc = "inspect"
  /\ \E pc \in {"subscribe", "away"} :
       /\ pc = "subscribe" => r \in known
       /\ Update(r, c, [sub[r][c] EXCEPT !.pc = pc])

-----------------------------------------------------------------------------
(* stream_generation.  It runs while there is room for what it yields.     *)

Reading(r, c) ==
  sub[r][c].pc = "read" /\ Len(sub[r][c].got) < sub[r][c].has + MaxInFlight

\* The body ends with an error envelope.
Break(r, c) == Update(r, c, [sub[r][c] EXCEPT !.pc = "broken", !.tries = 0])

Subscribe(r, c) ==
  /\ sub[r][c].pc = "subscribe"
  /\ \/ /\ log[r] # <<>> \/ r \in known
        /\ Update(r, c, [sub[r][c] EXCEPT !.pc = "read"])
     \/ Break(r, c)

\* XREAD returns an entry: the cursor moves, and the event is forwarded.
ReadEntry(r, c) ==
  LET id == After(r, sub[r][c].cursor)
      moved == [sub[r][c] EXCEPT !.cursor = id, !.tries = 0]
  IN /\ Reading(r, c)
     /\ Available(r, sub[r][c].cursor)
     /\ Update(r, c,
          CASE Kind(r, id) = "started"  -> moved
            [] Kind(r, id) = "token"    -> [moved EXCEPT !.got = Append(@, id)]
            [] Kind(r, id) \in Terminal -> [moved EXCEPT !.got = Append(@, id), !.pc = "closing"])

\* XREAD blocks for 300 s and returns nothing: "generation timed out".
ReadNothing(r, c) ==
  /\ Reading(r, c)
  /\ ~ Available(r, sub[r][c].cursor)
  /\ Break(r, c)

\* Mutant: one retry more than the loop has.
ReadFailsFive(r, c) ==
  /\ Reading(r, c)
  /\ IF sub[r][c].tries < 4
       THEN Update(r, c, [sub[r][c] EXCEPT !.pc = "reconnect", !.tries = @ + 1])
       ELSE Break(r, c)

\* Mutant: the retries are not counted.
ReadFailsForever(r, c) ==
  /\ Reading(r, c)
  /\ Update(r, c, [sub[r][c] EXCEPT !.pc = "reconnect"])

\* XREAD fails, whether or not there was an entry; the fourth time in a row the
\* error is the handler's.
ReadFails(r, c) ==
  /\ Reading(r, c)
  /\ IF sub[r][c].tries < 3
       THEN Update(r, c, [sub[r][c] EXCEPT !.pc = "reconnect", !.tries = @ + 1])
       ELSE Break(r, c)

\* Mutant: the new connection subscribes from the beginning.
ReconnectRewinds(r, c) ==
  /\ sub[r][c].pc = "reconnect"
  /\ Break(r, c) \/ Update(r, c, [sub[r][c] EXCEPT !.pc = "read", !.cursor = 0])

Reconnect(r, c) ==
  /\ sub[r][c].pc = "reconnect"
  /\ Break(r, c) \/ Update(r, c, [sub[r][c] EXCEPT !.pc = "read"])

-----------------------------------------------------------------------------
(* The client.                                                             *)

Receive(r, c) ==
  /\ sub[r][c].has < Len(sub[r][c].got)
  /\ Update(r, c, [sub[r][c] EXCEPT !.has = @ + 1])

\* The body ends, or an error envelope makes the client give up the call.
BodyEnds(r, c) ==
  /\ sub[r][c].pc \in {"closing", "broken"}
  /\ sub[r][c].has = Len(sub[r][c].got)
  /\ Update(r, c, [sub[r][c] EXCEPT !.pc = "away"])

\* The connection, the client or the front end fails: the handler is dropped at
\* its await, and what is in flight is lost.
HangUp(r, c) ==
  /\ sub[r][c].pc # "away"
  /\ Update(r, c, [sub[r][c] EXCEPT !.pc = "away", !.tries = 0,
                                    !.got = SubSeq(@, 1, sub[r][c].has)])

-----------------------------------------------------------------------------
Handler(r, c) ==
  \/ Inspect(r, c)
  \/ Subscribe(r, c)
  \/ ReadEntry(r, c)
  \/ ReadNothing(r, c)
  \/ ReadFails(r, c)
  \/ Reconnect(r, c)

Client(r, c) == Receive(r, c) \/ BodyEnds(r, c)

Status(r) == Publish(r) \/ WriteStatus(r) \/ StatusExpires(r)

Calls(r) ==
  \/ OpenStream(r)
  \/ \E c \in Clients :
       Resume(r, c) \/ Replay(r, c) \/ Handler(r, c) \/ Client(r, c) \/ HangUp(r, c)

Next == Produce \/ \E r \in Requests : Status(r) \/ Calls(r)

Spec == Init /\ [][Next]_vars

(***************************************************************************)
(* Fairness: a handler's await on the broker returns (XREAD blocks for at  *)
(* most 300 seconds) and a client takes what arrives.  No fairness for the *)
(* engines: a call must end whether or not its generation does.            *)
(***************************************************************************)
Fairness ==
  \A r \in Requests, c \in Clients : WF_vars(Handler(r, c)) /\ WF_vars(Client(r, c))

-----------------------------------------------------------------------------
TypeOK ==
  /\ hist \in [Requests -> Seq(Events)]
  /\ known \subseteq Requests
  /\ published \subseteq Requests
  /\ sub \in [Requests -> [Clients -> Sub]]

(***************************************************************************)
(* Resuming repeats nothing and reorders nothing, although a call can end  *)
(* with envelopes in flight, XREAD is retried on a new connection, and a   *)
(* late engine may write to a stream again after it expired.               *)
(***************************************************************************)
InStreamOrder ==
  \A r \in Requests, c \in Clients :
    \A i, j \in 1..Len(sub[r][c].got) : i < j => sub[r][c].got[i] < sub[r][c].got[j]

(***************************************************************************)
(* Nothing is skipped: as long as the stream has not expired, a client     *)
(* gets every chunk that precedes the last event it gets, whatever calls   *)
(* it takes, and nothing follows the first terminal event.                 *)
(***************************************************************************)
NothingSkipped ==
  \A r \in Requests \ closed, c \in Clients :
    LET got == sub[r][c].got IN
    \A id \in 1..LastOf(got) :
      Kind(r, id) # "started" =>
        /\ \E i \in 1..Len(got) : got[i] = id
        /\ Kind(r, id) \in Terminal => id = LastOf(got)

(***************************************************************************)
(* A client that gets the completed event gets before it every chunk of    *)
(* the attempt that completed, although earlier attempts were abandoned    *)
(* half-way and the client's own connections failed.                       *)
(***************************************************************************)
WholeResponse ==
  \A r \in Requests \ closed, c \in Clients :
    LET got == sub[r][c].got IN
    \A i \in 1..Len(got) : Kind(r, got[i]) = "completed" =>
      \A n \in 1..hist[r][got[i]].n : \E j \in 1..(i - 1) :
        hist[r][got[j]] = [kind |-> "token", attempt |-> hist[r][got[i]].attempt, n |-> n]

(***************************************************************************)
(* No call lasts for ever, even if no engine ever answers: the blocking    *)
(* read times out, and reads that fail are retried three times.            *)
(***************************************************************************)
CallsEnd ==
  \A r \in Requests, c \in Clients : sub[r][c].pc # "away" ~> sub[r][c].pc = "away"

(***************************************************************************)
(* docs/decisions/0001: "Multiple subscribers receive identical ordered    *)
(* events": of two clients of a request one has what the other has, and    *)
(* perhaps more.  connect_smoke checks it of a live call and its replay.   *)
(***************************************************************************)
SubscribersAgree ==
  \A r \in Requests \ closed : \A c, d \in Clients :
    \A i \in 1..Len(sub[r][c].got) :
      i <= Len(sub[r][d].got) => sub[r][c].got[i] = sub[r][d].got[i]
=============================================================================
