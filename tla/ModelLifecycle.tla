--------------------------- MODULE ModelLifecycle ---------------------------
(***************************************************************************)
(* controlplane/internal/lifecycle and the start method of                 *)
(* internal/connectapi: the load, drain and unload workflows, whose        *)
(* activities call the host agent.  Temporal (external) runs at most one   *)
(* workflow per operation and model, and runs an activity again after an   *)
(* error or a timeout: a call that failed may have been executed, and a    *)
(* handler whose activity timed out may still be at work.  A workflow's    *)
(* position is the activity it awaits; "none" when it does not run.        *)
(***************************************************************************)
EXTENDS HostAgent, Naturals

CONSTANTS
  NoCall,      \* no EnsureModel handler answers the load workflow
  MaxTries     \* MaximumAttempts of an activity of LoadModelWorkflow; 30 in the code

ASSUME NoCallAssumption == NoCall \notin Calls
ASSUME MaxTriesAssumption == MaxTries \in Nat \ {0}

VARIABLES
  load,        \* each model's load workflow: its activity, attempts, handler
  unload,      \* each model's unload workflow
  doomed       \* auxiliary: the untold processes each unload found at its start

workflowVars == <<load, unload, doomed>>
lifecycleVars == <<vars, workflowVars>>

Load == [pc : {"none", "ensure", "waitkserve"}, tries : 0..MaxTries, by : Calls \cup {NoCall}]

LoadIs(pc, tries, by) == [pc |-> pc, tries |-> tries, by |-> by]
NoLoad == LoadIs("none", 0, NoCall)

LifecycleInit ==
  /\ Init
  /\ load = [m \in Models |-> NoLoad]
  /\ unload = [m \in Models |-> "none"]
  /\ doomed = [m \in Models |-> {}]

-----------------------------------------------------------------------------
(* ModelControl.start.  A workflow that runs already is joined: nothing    *)
(* changes, and the caller gets the same answer.                           *)

LoadModel(m) ==
  /\ load[m].pc = "none"
  /\ load' = [load EXCEPT ![m] = LoadIs("ensure", 0, NoCall)]
  /\ UNCHANGED <<vars, unload, doomed>>

\* The processes of a model that the agent, or the one that is gone last, has not told.
Untold(m) ==
  {p \in Procs : /\ proc[p].life = "running" /\ proc[p].told = "no"
                 /\ proc[p].model = m /\ proc[p].born # "orphan"}

UnloadModel(m) ==
  /\ unload[m] \in {"none", "stopped"}
  /\ unload' = [unload EXCEPT ![m] = "drain"]
  /\ doomed' = [doomed EXCEPT ![m] = Untold(m)]
  /\ UNCHANGED <<vars, load>>

-----------------------------------------------------------------------------
(* LoadModelWorkflow: EnsureHostModel.                                     *)

\* Mutant: attempts are not counted.
AgainForever(m) == load' = [load EXCEPT ![m] = LoadIs("ensure", 0, NoCall)]

\* The attempt failed: there is another one, or the workflow fails.
Again(m) ==
  load' = [load EXCEPT ![m] = IF @.tries < MaxTries THEN [@ EXCEPT !.by = NoCall]
                              ELSE NoLoad]

Calling(m) == load[m].pc = "ensure" /\ load[m].by = NoCall /\ load[m].tries < MaxTries

\* The call reaches the agent and a handler begins.
EnsureHostModel(m, c) ==
  /\ Calling(m)
  /\ \A k \in Models : load[k].by # c
  /\ load' = [load EXCEPT ![m] = LoadIs("ensure", @.tries + 1, c)]
  /\ \/ EnsureTracked(c, m) /\ UNCHANGED doomed
     \/ \E p \in Procs :
          /\ EnsureStart(c, m, p)
          /\ doomed' = [k \in Models |-> doomed[k] \ {p}]
  /\ UNCHANGED unload

\* The agent is not there, or refuses.
EnsureHostModelFails(m) ==
  /\ Calling(m)
  /\ ~ Serving \/ ~ Live(m)
  /\ load' = [load EXCEPT ![m] = IF @.tries + 1 < MaxTries THEN [@ EXCEPT !.tries = @ + 1]
                                 ELSE NoLoad]
  /\ UNCHANGED <<vars, unload, doomed>>

\* A handler's answer reaches the workflow unless its activity timed out.
Answered(c, ok) ==
  load' = [m \in Models |->
             IF load[m].by # c THEN load[m]
             ELSE IF ok THEN LoadIs("waitkserve", 0, NoCall)
             ELSE IF load[m].tries < MaxTries THEN [load[m] EXCEPT !.by = NoCall]
             ELSE NoLoad]

HandlerReturns(c) ==
  /\ \/ Probe(c) /\ IF call'[c].pc = "none" THEN Answered(c, FALSE) ELSE UNCHANGED load
     \/ Confirm(c) /\ Answered(c, models[call[c].model] = call[c].of)
     \/ Mark(c) /\ Answered(c, TRUE)
     \/ WaitReady(c) /\ UNCHANGED load
     \/ WaitTimeout(c) /\ Answered(c, FALSE)
     \/ WaitCancelled(c) /\ (\A m \in Models : load[m].by # c) /\ UNCHANGED load
  /\ UNCHANGED <<unload, doomed>>

\* The activity's StartToCloseTimeout, or a reply lost.  The handler goes on; its
\* context may be cancelled later.
EnsureTimesOut(m) ==
  /\ load[m].by # NoCall
  /\ Again(m)
  /\ UNCHANGED <<vars, unload, doomed>>

-----------------------------------------------------------------------------
(* LoadModelWorkflow: WaitKServeReady, one GET of the endpoint's /health.  *)

KServeReady(m) ==
  /\ load[m].pc = "waitkserve"
  /\ load' = [load EXCEPT ![m] = NoLoad]
  /\ UNCHANGED <<vars, unload, doomed>>

\* A catalog entry without an endpoint is not retried.
KServeNotReady(m) ==
  /\ load[m].pc = "waitkserve"
  /\ \/ load' = [load EXCEPT ![m] = NoLoad]
     \/ load[m].tries + 1 < MaxTries /\ load' = [load EXCEPT ![m].tries = @ + 1]
  /\ UNCHANGED <<vars, unload, doomed>>

-----------------------------------------------------------------------------
(* DrainModelWorkflow and UnloadModelWorkflow.  Their activities have the  *)
(* default retry policy, without a limit: a call that fails, executed or   *)
(* not, is made again.                                                     *)

DrainHostModel(m) ==
  \/ DrainModel(m)
  \/ Serving /\ models[m] = NoProc /\ UNCHANGED vars

\* DrainModelWorkflow is this activity and nothing else; a retry is the same again.
Drains(m) == DrainHostModel(m) /\ UNCHANGED workflowVars

UnloadDrains(m) ==
  /\ unload[m] = "drain"
  /\ DrainHostModel(m)
  /\ unload' = [unload EXCEPT ![m] = "stop"]
  /\ UNCHANGED <<load, doomed>>

\* Mutant: one call of StopModel is enough, executed or not.
UnloadStopsOnce(m) ==
  /\ unload[m] = "stop"
  /\ StopModel(m) \/ UNCHANGED vars
  /\ unload' = [unload EXCEPT ![m] = "stopped"]
  /\ UNCHANGED <<load, doomed>>

\* Mutant: a model that has no process cannot be stopped.
UnloadStopsTracked(m) ==
  /\ unload[m] = "stop"
  /\ models[m] # NoProc
  /\ StopModel(m)
  /\ unload' = [unload EXCEPT ![m] = "stopped"]
  /\ UNCHANGED <<load, doomed>>

UnloadStops(m) ==
  /\ unload[m] = "stop"
  /\ StopModel(m)
  /\ unload' = [unload EXCEPT ![m] = "stopped"]
  /\ UNCHANGED <<load, doomed>>

\* The reply is lost; or the process could not be interrupted, was killed and
\* StopModel answers with an error.
ReplyLost(m) ==
  /\ unload[m] = "stop"
  /\ StopModel(m)
  /\ UNCHANGED workflowVars

-----------------------------------------------------------------------------
Workflow(m) ==
  \/ LoadModel(m) \/ UnloadModel(m)
  \/ \E c \in Calls : EnsureHostModel(m, c)
  \/ EnsureHostModelFails(m) \/ EnsureTimesOut(m)
  \/ KServeReady(m) \/ KServeNotReady(m)
  \/ Drains(m) \/ UnloadDrains(m) \/ UnloadStops(m) \/ ReplyLost(m)

Host ==
  /\ \/ \E p \in Procs : Environment(p)
     \/ \E m \in Models : GetModelStatus(m) \/ StopNext(m)
     \/ Signal \/ Exit \/ Killed \/ StartAgain \/ ForeignComesAndGoes
  /\ UNCHANGED workflowVars

LifecycleNext ==
  \/ \E m \in Models : Workflow(m)
  \/ \E c \in Calls : HandlerReturns(c)
  \/ Host

LifecycleSpec == LifecycleInit /\ [][LifecycleNext]_lifecycleVars

(***************************************************************************)
(* Fairness: Temporal runs a workflow's next activity, a handler of the    *)
(* agent returns (its startup loop has a deadline), and a call repeated    *)
(* without limit succeeds once.                                            *)
(***************************************************************************)
FairLifecycleSpec ==
  /\ LifecycleSpec
  /\ \A m \in Models :
       /\ WF_lifecycleVars(\E c \in Calls : EnsureHostModel(m, c))
       /\ WF_lifecycleVars(EnsureHostModelFails(m))
       /\ WF_lifecycleVars(EnsureTimesOut(m))
       /\ WF_lifecycleVars(KServeReady(m) \/ KServeNotReady(m))
       /\ WF_lifecycleVars(UnloadDrains(m))
       /\ WF_lifecycleVars(UnloadStops(m))
  /\ \A c \in Calls : WF_lifecycleVars(HandlerReturns(c))

-----------------------------------------------------------------------------
(***************************************************************************)
(* An unload that ended left no process running that it found: each was    *)
(* told to stop or had ended, however often its calls were repeated and    *)
(* whatever a load did meanwhile.  The exception is a process whose agent  *)
(* was killed, or exited, in the meantime: the next agent has an empty map *)
(* and answers "stopped" for a process it never tracked (agent.go:167).    *)
(***************************************************************************)
UnloadedIsTold ==
  \A m \in Models : unload[m] = "stopped" => doomed[m] \cap Untold(m) = {}

(***************************************************************************)
(* A load that answers "ready" or an error does so in the end, although    *)
(* handlers hang, time out and are stopped under it.                       *)
(***************************************************************************)
LoadsEnd == \A m \in Models : load[m].pc # "none" ~> load[m].pc = "none"

\* An unload ends, although stop and drain are repeated without limit, unless the agent it
\* calls is shut down or killed.
UnloadsEnd == \A m \in Models : unload[m] = "drain" ~> unload[m] = "stopped" \/ agent # "up"
=============================================================================
