----------------------------- MODULE HostAgent -----------------------------
(***************************************************************************)
(* controlplane/internal/hostagent: the agent that starts one MLX process  *)
(* per model, on one configured port, and keeps them in a map under a      *)
(* mutex.  A handler's stretch between Lock and Unlock is one step; what   *)
(* it does without the lock (waiting for the endpoint) is where others     *)
(* come in between.                                                        *)
(*                                                                         *)
(* The processes are the environment: they bind the port when it is free,  *)
(* exit when they like, and need not answer while they hold it.            *)
(***************************************************************************)
EXTENDS FiniteSets

CONSTANTS
  Models,     \* the catalog's model ids
  Procs,      \* *process values; one that nothing refers to is used again
  Calls,      \* EnsureModel handlers that run at the same time
  NoProc,     \* nil
  Foreign     \* a process on the port that the agent did not start

ASSUME ProcsAssumption == NoProc \notin Procs /\ Foreign \notin Procs /\ NoProc # Foreign
ASSUME ModelsAssumption == Models # {}

VARIABLES
  models,     \* a.models
  proc,       \* each process: its struct, its life, whether it was told to stop
  port,       \* who holds the port
  call,       \* each EnsureModel handler: where it is, its model and process
  agent,      \* "up", "stopping" after a signal, "gone", or "killed"
  todo        \* the ids StopAll has still to stop

vars == <<models, proc, port, call, agent, todo>>

(***************************************************************************)
(* A process's life.  Its ProcessState is nil until command.Wait returned: *)
(* one that has exited counts as running until it is "waited" for.  born   *)
(* records, for the properties, whether a running process was started      *)
(* while the agent was shutting down, or is an orphan: the agent that      *)
(* started it is gone and its successor knows nothing of it.               *)
(***************************************************************************)
Lives  == {"unused", "running", "exited", "waited"}
States == {"starting", "ready", "draining", "stopped"}

Process == [life : Lives, model : Models, state : States, told : {"no", "yes"},
            born : {"up", "stopping", "orphan"}]

Call == [pc : {"none", "probe", "confirm", "wait", "mark"}, model : Models,
         of : Procs \cup {NoProc}]

Idle == [pc |-> "none", model |-> CHOOSE m \in Models : TRUE, of |-> NoProc]

Init ==
  /\ models = [m \in Models |-> NoProc]
  /\ proc = [p \in Procs |-> [life |-> "unused", model |-> CHOOSE m \in Models : TRUE,
                              state |-> "stopped", told |-> "no", born |-> "up"]]
  /\ port \in {NoProc, Foreign}
  /\ call = [c \in Calls |-> Idle]
  /\ agent = "up"
  /\ todo = {}

Serving == agent \in {"up", "stopping"}

\* a.models[m] is not nil and its ProcessState is.
Live(m) == models[m] # NoProc /\ proc[models[m]].life # "waited"

\* endpointReady may answer true: something holds the port.  It may always answer
\* false: a second passes, or the status is not 200.
Answers == port # NoProc

Tracked(p) == \E m \in Models : models[m] = p

Unreferenced(p) ==
  /\ proc[p].life \in {"unused", "waited"}
  /\ ~ Tracked(p)
  /\ \A c \in Calls : call[c].of # p

Move(c, pc) == call' = [call EXCEPT ![c].pc = pc]
Return(c)   == call' = [call EXCEPT ![c] = Idle]

-----------------------------------------------------------------------------
(* EnsureModel.  A model that is not in the catalog is refused at once.    *)

EnsureTracked(c, m) ==
  /\ Serving
  /\ call[c].pc = "none"
  /\ Live(m)
  /\ call' = [call EXCEPT ![c] = [pc |-> "probe", model |-> m, of |-> models[m]]]
  /\ UNCHANGED <<models, proc, port, agent, todo>>

\* The port answers, or the directory, the log file or the process cannot be made.
EnsureRefused(c, m) ==
  /\ Serving
  /\ call[c].pc = "none"
  /\ ~ Live(m)
  /\ UNCHANGED vars

\* The port did not answer: a process is started and tracked.
EnsureStart(c, m, p) ==
  /\ Serving
  /\ call[c].pc = "none"
  /\ ~ Live(m)
  /\ Unreferenced(p)
  /\ proc' = [proc EXCEPT ![p] = [life |-> "running", model |-> m, state |-> "starting",
                                  told |-> "no", born |-> agent]]
  /\ models' = [models EXCEPT ![m] = p]
  /\ call' = [call EXCEPT ![c] = [pc |-> "wait", model |-> m, of |-> p]]
  /\ UNCHANGED <<port, agent, todo>>

\* endpointReady of a process that was there already.
Probe(c) ==
  /\ call[c].pc = "probe"
  /\ (Answers /\ Move(c, "confirm")) \/ Return(c)
  /\ UNCHANGED <<models, proc, port, agent, todo>>

\* Mutant: the map is not looked at again.
ReadyAnyway(c) == proc' = [proc EXCEPT ![call[c].of].state = "ready"]

\* The process must still be the one the handler waited for.
ReadyIfTracked(c) ==
  proc' = IF models[call[c].model] = call[c].of
            THEN [proc EXCEPT ![call[c].of].state = "ready"] ELSE proc

Confirm(c) ==
  /\ call[c].pc = "confirm"
  /\ ReadyIfTracked(c)
  /\ Return(c)
  /\ UNCHANGED <<models, port, agent, todo>>

\* The startup loop sees the endpoint ready.
WaitReady(c) ==
  /\ call[c].pc = "wait"
  /\ Answers
  /\ Move(c, "mark")
  /\ UNCHANGED <<models, proc, port, agent, todo>>

Mark(c) ==
  /\ call[c].pc = "mark"
  /\ ReadyIfTracked(c)
  /\ Return(c)
  /\ UNCHANGED <<models, port, agent, todo>>

\* ctx.Done(): the process is left to start.
WaitCancelled(c) ==
  /\ call[c].pc = "wait"
  /\ Return(c)
  /\ UNCHANGED <<models, proc, port, agent, todo>>

-----------------------------------------------------------------------------
(* stopOwned: whatever process the model has now is dropped and told.      *)

\* Mutant: a process that is still starting is dropped and not told.
StopOwnedReady(m) ==
  /\ models' = [models EXCEPT ![m] = NoProc]
  /\ proc' = IF Live(m) /\ proc[models[m]].state # "starting"
               THEN [proc EXCEPT ![models[m]].told = "yes"] ELSE proc

StopOwned(m) ==
  /\ models' = [models EXCEPT ![m] = NoProc]
  /\ proc' = IF Live(m) THEN [proc EXCEPT ![models[m]].told = "yes"] ELSE proc

\* The startup timeout.
WaitTimeout(c) ==
  /\ call[c].pc = "wait"
  /\ StopOwned(call[c].model)
  /\ Return(c)
  /\ UNCHANGED <<port, agent, todo>>

StopModel(m) ==
  /\ Serving
  /\ StopOwned(m)
  /\ UNCHANGED <<port, call, agent, todo>>

GetModelStatus(m) ==
  /\ Serving
  /\ models[m] # NoProc
  /\ proc[models[m]].life = "waited"
  /\ proc' = [proc EXCEPT ![models[m]].state = "stopped"]
  /\ UNCHANGED <<models, port, call, agent, todo>>

\* Mutant: a state the status does not have.
DrainModelDrained(m) ==
  /\ Serving
  /\ models[m] # NoProc
  /\ proc' = [proc EXCEPT ![models[m]].state = "drained"]
  /\ UNCHANGED <<models, port, call, agent, todo>>

DrainModel(m) ==
  /\ Serving
  /\ models[m] # NoProc
  /\ proc' = [proc EXCEPT ![models[m]].state = "draining"]
  /\ UNCHANGED <<models, port, call, agent, todo>>

-----------------------------------------------------------------------------
(* main: on a signal StopAll, while handlers go on, and then the process   *)
(* ends.  It may also be killed.  scripts/host-agent-start.sh starts the   *)
(* next one with an empty map; children outlive their agent.               *)

\* Mutant: StopAll takes the models that are ready.
SignalReady ==
  /\ agent = "up"
  /\ agent' = "stopping"
  /\ todo' = {m \in Models : models[m] # NoProc /\ proc[models[m]].state = "ready"}
  /\ UNCHANGED <<models, proc, port, call>>

Signal ==
  /\ agent = "up"
  /\ agent' = "stopping"
  /\ todo' = {m \in Models : models[m] # NoProc}
  /\ UNCHANGED <<models, proc, port, call>>

StopNext(m) ==
  /\ agent = "stopping"
  /\ m \in todo
  /\ StopOwned(m)
  /\ todo' = todo \ {m}
  /\ UNCHANGED <<port, call, agent>>

Exit ==
  /\ agent = "stopping"
  /\ todo = {}
  /\ agent' = "gone"
  /\ call' = [c \in Calls |-> Idle]
  /\ UNCHANGED <<models, proc, port, todo>>

\* SIGKILL, or log.Fatal when ListenAndServe fails: no StopAll, or not all of it.
Killed ==
  /\ Serving
  /\ agent' = "killed"
  /\ call' = [c \in Calls |-> Idle]
  /\ todo' = {}
  /\ UNCHANGED <<models, proc, port>>

\* The child of an agent that is gone.  One that has exited is no longer waited for.
Orphaned(s) ==
  CASE s.life = "running" -> [s EXCEPT !.born = "orphan"]
    [] s.life = "exited"  -> [s EXCEPT !.life = "waited"]
    [] OTHER              -> s

StartAgain ==
  /\ ~ Serving
  /\ agent' = "up"
  /\ models' = [m \in Models |-> NoProc]
  /\ proc' = [p \in Procs |-> Orphaned(proc[p])]
  /\ UNCHANGED <<port, call, todo>>

-----------------------------------------------------------------------------
(* The processes.                                                          *)

Binds(p) ==
  /\ proc[p].life = "running"
  /\ port = NoProc
  /\ port' = p
  /\ UNCHANGED <<models, proc, call, agent, todo>>

\* It was told, failed, could not bind, or was killed by someone else.
Ends(p) ==
  /\ proc[p].life = "running"
  /\ proc' = [proc EXCEPT ![p].life = IF proc[p].born = "orphan" THEN "waited" ELSE "exited",
                          ![p].born = "up"]
  /\ port' = IF port = p THEN NoProc ELSE port
  /\ UNCHANGED <<models, call, agent, todo>>

\* command.Wait returns in its own goroutine.
Wait(p) ==
  /\ Serving
  /\ proc[p].life = "exited"
  /\ proc' = [proc EXCEPT ![p].life = "waited"]
  /\ UNCHANGED <<models, port, call, agent, todo>>

ForeignComesAndGoes ==
  /\ port \in {NoProc, Foreign}
  /\ port' \in {NoProc, Foreign} \ {port}
  /\ UNCHANGED <<models, proc, call, agent, todo>>

-----------------------------------------------------------------------------
Ensure(c) ==
  \/ \E m \in Models :
       \/ EnsureTracked(c, m)
       \/ EnsureRefused(c, m)
       \/ \E p \in Procs : EnsureStart(c, m, p)
  \/ Probe(c) \/ Confirm(c)
  \/ WaitReady(c) \/ Mark(c) \/ WaitCancelled(c) \/ WaitTimeout(c)

Operate(m) == StopModel(m) \/ GetModelStatus(m) \/ DrainModel(m) \/ StopNext(m)

Environment(p) == Binds(p) \/ Ends(p) \/ Wait(p)

Next ==
  \/ \E c \in Calls : Ensure(c)
  \/ \E m \in Models : Operate(m)
  \/ \E p \in Procs : Environment(p)
  \/ Signal \/ Exit \/ Killed \/ StartAgain \/ ForeignComesAndGoes

Spec == Init /\ [][Next]_vars

-----------------------------------------------------------------------------
TypeOK ==
  /\ models \in [Models -> Procs \cup {NoProc}]
  /\ proc \in [Procs -> Process]
  /\ port \in Procs \cup {NoProc, Foreign}
  /\ call \in [Calls -> Call]
  /\ agent \in {"up", "stopping", "gone", "killed"}
  /\ todo \subseteq Models

(***************************************************************************)
(* The agent never loses a child: a process it started that runs is the    *)
(* one its map holds for that model, or has been told to stop, whatever    *)
(* order the handlers, their timeouts and the exits of processes come in.  *)
(* So a model never has two processes of this agent that were not told to  *)
(* stop.  The children of an earlier agent, which was killed or left them  *)
(* at its shutdown, are nobody's: the map is not restored.                 *)
(***************************************************************************)
NoStrayChild ==
  \A p \in Procs :
    proc[p].life = "running" /\ proc[p].told = "no" /\ proc[p].born # "orphan"
      => models[proc[p].model] = p

(***************************************************************************)
(* Shutdown leaves nothing behind that the agent had started before it: a  *)
(* process that outlives an agent which was not killed, without having     *)
(* been told to stop, was started by a handler that ran after the signal,  *)
(* or by an earlier agent.                                                 *)
(***************************************************************************)
ShutdownStopsChildren ==
  agent = "gone" =>
    \A p \in Procs :
      proc[p].life = "running" /\ proc[p].told = "no" => proc[p].born # "up"

(***************************************************************************)
(* A handler that saw the endpoint ready and took the lock late does not   *)
(* bring a stopped process back: only a tracked process becomes ready.     *)
(***************************************************************************)
NoLateReady ==
  [][\A p \in Procs :
       proc[p].state # "ready" /\ proc'[p].state = "ready" => Tracked(p)]_vars
=============================================================================
