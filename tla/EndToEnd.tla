------------------------------ MODULE EndToEnd ------------------------------
(***************************************************************************)
(* The data plane and the clients that read its result streams: the        *)
(* engines and the front end's dispatch of DataPlane write to the broker   *)
(* that the calls of Subscription read.                                    *)
(***************************************************************************)
EXTENDS DataPlane

CONSTANTS Clients, Caller, MaxCalls, MaxInFlight    \* as in Subscription

VARIABLES hist, sub

Subs == INSTANCE Subscription WITH
          Attempts <- 1..MaxAttempts,
          Chunks <- MaxTokens,
          log <- results,
          closed <- expired,
          known <- {r \in Requests : status[r] # "none"},
          published <- {r \in Requests : fe[r] = "published"}

systemVars == <<vars, hist, sub>>

SystemInit == Init /\ Subs!Init

\* A step of the front end's dispatch, of an engine or of time.
Serve == Next /\ Subs!Numbered /\ UNCHANGED sub

\* A call reads the result stream and the status, and writes to neither.
Call(r) == UNCHANGED vars /\ Subs!Calls(r)

SystemNext == Serve \/ \E r \in Requests : Call(r)

SystemSpec == SystemInit /\ [][SystemNext]_systemVars

(***************************************************************************)
(* To its clients the data plane is what Subscription says it is, although *)
(* leases lapse, engines crash and replies are lost: so what Subscription  *)
(* promises them they get.                                                 *)
(***************************************************************************)
ImplementsSubscription == Subs!Spec
=============================================================================
