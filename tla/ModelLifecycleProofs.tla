------------------------ MODULE ModelLifecycleProofs ------------------------
(***************************************************************************)
(* Proofs about HostAgent and the workflows that call it, for every        *)
(* catalog, every number of concurrent handlers and every number of        *)
(* processes.  NoStrayChild is inductive once types are known.             *)
(* ShutdownStopsChildren is not: it rests on StopAll's list holding,       *)
(* during the shutdown, the model of every child from before the signal    *)
(* that was not told to stop (ShutdownInv).                                *)
(*                                                                         *)
(* The workflows use the host agent only through its operations, so that   *)
(* every theorem about the agent holds of the whole.  That an unload stops *)
(* what it found (UnloadedIsTold) then rests on NoStrayChild: the process  *)
(* the map holds when StopModel is executed is the only one of the model   *)
(* that was not told to stop.                                              *)
(***************************************************************************)
EXTENDS ModelLifecycle, TLAPS

\* A child of this agent that nobody has told to stop.
Abandoned(p) == proc[p].life = "running" /\ proc[p].told = "no" /\ proc[p].born # "orphan"

\* What StopAll has still to do.
ShutdownInv ==
  /\ agent = "gone" => todo = {}
  /\ agent \in {"stopping", "gone"} =>
       \A p \in Procs : Abandoned(p) /\ proc[p].born = "up" => proc[p].model \in todo

\* The inductive invariant of the agent.
HInv == TypeOK /\ NoStrayChild /\ ShutdownInv

\* A call record without a call is well typed.
LEMMA IdleType == Idle \in Call
<1>1. (CHOOSE x \in Models : TRUE) \in Models
  BY ModelsAssumption
<1> QED BY <1>1 DEF Idle, Call

\* A process of an agent that is gone is an orphan, or does not run.
LEMMA OrphanedType ==
  ASSUME NEW s \in Process
  PROVE  /\ Orphaned(s) \in Process
         /\ Orphaned(s).life = "running" => Orphaned(s).born = "orphan"
         /\ Orphaned(s).state = s.state
<1>1. CASE s.life = "running"
  BY <1>1 DEF Orphaned, Process
<1>2. CASE s.life = "exited"
  BY <1>2 DEF Orphaned, Process, Lives
<1>3. CASE s.life \notin {"running", "exited"}
  BY <1>3 DEF Orphaned
<1> QED BY <1>1, <1>2, <1>3

\* The agent starts with an empty map and no children.
LEMMA InitHInv ==
  ASSUME Init
  PROVE  HInv
<1>1. (CHOOSE m \in Models : TRUE) \in Models
  BY ModelsAssumption
<1>2. TypeOK
  BY <1>1, IdleType DEF Init, TypeOK, Process, Lives, States
<1> QED BY <1>2 DEF Init, HInv, NoStrayChild, ShutdownInv, Abandoned

\* What a step may do to the children without disturbing HInv: nothing is started, nothing
\* is untracked, and no child forgets that it was told.
Quiet ==
  /\ models' = models
  /\ \A p \in Procs :
       /\ proc'[p].life = "running" => proc[p].life = "running"
       /\ proc'[p].life = "running" => proc'[p].born = proc[p].born
       /\ proc'[p].told = proc[p].told
       /\ proc'[p].model = proc[p].model

\* Quiet steps of an agent that goes on preserve the invariant.
LEMMA QuietStep ==
  ASSUME HInv, TypeOK', Quiet, agent' = agent, todo' = todo
  PROVE  HInv'
BY DEF HInv, NoStrayChild, ShutdownInv, Abandoned, Quiet

\* Telling the child of m to stop, and dropping it, preserves NoStrayChild; afterwards no
\* untold child of m runs.
LEMMA StopOwnedStep ==
  ASSUME TypeOK, NoStrayChild, NEW m \in Models, StopOwned(m)
  PROVE  /\ models' \in [Models -> Procs \cup {NoProc}]
         /\ proc' \in [Procs -> Process]
         /\ NoStrayChild'
         /\ \A p \in Procs : Abandoned(p)' =>
              /\ Abandoned(p) /\ proc[p].model # m
              /\ proc'[p].model = proc[p].model /\ proc'[p].born = proc[p].born
<1>1. models' \in [Models -> Procs \cup {NoProc}]
  BY DEF StopOwned, TypeOK
<1>2. CASE Live(m)
  <2> DEFINE q == models[m]
  <2>1. q \in Procs /\ proc' = [proc EXCEPT ![q].told = "yes"]
    BY <1>2 DEF Live, StopOwned, TypeOK
  <2>2. proc' \in [Procs -> Process]
    BY <2>1 DEF TypeOK, Process
  <2>3. /\ proc'[q].told = "yes"
        /\ \A p \in Procs : p # q => proc'[p] = proc[p]
    BY <2>1 DEF TypeOK, Process
  <2>4. \A p \in Procs : Abandoned(p)' => p # q /\ Abandoned(p) /\ proc[p].model # m
    BY <2>3 DEF Abandoned, NoStrayChild
  <2> HIDE DEF q
  <2>5. NoStrayChild'
    BY <2>3, <2>4 DEF NoStrayChild, Abandoned, StopOwned, TypeOK, Process
  <2> QED BY <1>1, <2>2, <2>3, <2>4, <2>5
<1>3. CASE ~ Live(m)
  <2>1. proc' = proc
    BY <1>3 DEF StopOwned
  <2>2. \A p \in Procs : Abandoned(p) => proc[p].model # m
    BY <1>3, ProcsAssumption DEF Live, NoStrayChild, Abandoned, TypeOK
  <2> QED BY <1>1, <2>1, <2>2 DEF NoStrayChild, Abandoned, StopOwned, TypeOK, Process
<1> QED BY <1>2, <1>3

\* A stop while the list of StopAll stays as it is.
LEMMA StopStep ==
  ASSUME HInv, NEW m \in Models, StopOwned(m), UNCHANGED <<port, agent, todo>>,
         call' \in [Calls -> Call]
  PROVE  HInv'
<1>1. TypeOK'
  BY StopOwnedStep DEF HInv, TypeOK
<1>2. ShutdownInv'
  BY StopOwnedStep DEF HInv, ShutdownInv
<1> QED BY <1>1, <1>2, StopOwnedStep DEF HInv

\* A step of an EnsureModel handler.
LEMMA EnsureStep ==
  ASSUME HInv, NEW c \in Calls, Ensure(c)
  PROVE  HInv'
<1>t. TypeOK /\ call[c] \in Call /\ call[c].model \in Models
  BY DEF HInv, TypeOK, Call
<1>i. Idle \in Call
  BY <1>t, IdleType
<1>r. ASSUME Return(c) PROVE call' \in [Calls -> Call]
  BY <1>r, <1>i DEF Return, HInv, TypeOK
<1>m. ASSUME NEW pc \in {"confirm", "mark"}, Move(c, pc) PROVE call' \in [Calls -> Call]
  BY <1>m DEF Move, HInv, TypeOK, Call
<1>q. ASSUME UNCHANGED <<models, proc, port, agent, todo>>, call' \in [Calls -> Call] PROVE HInv'
  BY <1>q, QuietStep DEF HInv, TypeOK, Quiet
<1>y. ASSUME ReadyIfTracked(c), UNCHANGED <<models, port, agent, todo>>, Return(c) PROVE HInv'
  <2>1. CASE models[call[c].model] = call[c].of /\ call[c].of \in Procs
    <3>1. proc' = [proc EXCEPT ![call[c].of].state = "ready"]
      BY <1>y, <2>1 DEF ReadyIfTracked
    <3>2. proc' \in [Procs -> Process]
      BY <3>1 DEF HInv, TypeOK, Process, States
    <3>3. Quiet
      BY <1>y, <3>1, <2>1 DEF Quiet, HInv, TypeOK, Process
    <3> QED BY <1>y, <1>r, <3>2, <3>3, QuietStep DEF HInv, TypeOK
  <2>2. CASE ~ (models[call[c].model] = call[c].of /\ call[c].of \in Procs)
    <3>1. proc' = proc
      BY <1>y, <2>2 DEF ReadyIfTracked, HInv, TypeOK
    <3> QED BY <1>y, <1>r, <1>q, <3>1
  <2> QED BY <2>1, <2>2
<1>1. ASSUME NEW m \in Models, EnsureTracked(c, m) PROVE HInv'
  <2>1. [pc |-> "probe", model |-> m, of |-> models[m]] \in Call
    BY DEF HInv, TypeOK, Call
  <2> QED BY <1>1, <2>1, <1>q DEF EnsureTracked, HInv, TypeOK
<1>2. ASSUME NEW m \in Models, EnsureRefused(c, m) PROVE HInv'
  BY <1>2, <1>q DEF EnsureRefused, vars, HInv, TypeOK
<1>3. ASSUME NEW m \in Models, NEW p \in Procs, EnsureStart(c, m, p) PROVE HInv'
  <2> DEFINE new == [life |-> "running", model |-> m, state |-> "starting", told |-> "no",
                     born |-> agent]
  <2>1. proc' = [proc EXCEPT ![p] = new] /\ models' = [models EXCEPT ![m] = p]
    BY <1>3 DEF EnsureStart
  <2>2. agent \in {"up", "stopping"} /\ UNCHANGED <<port, agent, todo>>
    BY <1>3, <1>t DEF EnsureStart, Serving, TypeOK
  <2>3. new \in Process
    BY <2>2 DEF Process, Lives, States
  <2>4. new.model = m /\ new.life = "running" /\ new.born = agent
    OBVIOUS
  <2>5. [pc |-> "wait", model |-> m, of |-> p] \in Call
    BY DEF Call
  <2> HIDE DEF new
  <2>6. TypeOK'
    BY <1>3, <2>1, <2>2, <2>3, <2>5 DEF EnsureStart, HInv, TypeOK
  <2>7. \A q \in Procs : q # p => proc'[q] = proc[q]
    BY <2>1, <1>t DEF TypeOK
  <2>8. proc'[p] = new
    BY <2>1, <1>t DEF TypeOK
  <2>9. \A q \in Procs : Abandoned(q) => proc[q].model # m
    BY <1>3, ProcsAssumption DEF EnsureStart, Live, HInv, NoStrayChild, Abandoned
  <2>10. NoStrayChild'
    <3> SUFFICES ASSUME NEW q \in Procs, Abandoned(q)'
                 PROVE  models'[proc'[q].model] = q
      BY DEF NoStrayChild, Abandoned
    <3>1. CASE q = p
      BY <3>1, <2>1, <2>4, <2>8, <1>t DEF TypeOK
    <3>2. CASE q # p
      BY <3>2, <2>1, <2>7, <2>9, <1>t DEF Abandoned, HInv, NoStrayChild, TypeOK, Process
    <3> QED BY <3>1, <3>2
  <2>11. ShutdownInv'
    BY <2>2, <2>4, <2>7, <2>8 DEF HInv, ShutdownInv, Abandoned
  <2> QED BY <2>6, <2>10, <2>11 DEF HInv
<1>4. CASE Probe(c)
  BY <1>4, <1>q, <1>m, <1>r DEF Probe
<1>5. CASE Confirm(c)
  BY <1>5, <1>y DEF Confirm
<1>6. CASE WaitReady(c)
  BY <1>6, <1>q, <1>m DEF WaitReady
<1>7. CASE Mark(c)
  BY <1>7, <1>y DEF Mark
<1>8. CASE WaitCancelled(c)
  BY <1>8, <1>q, <1>r DEF WaitCancelled
<1>9. CASE WaitTimeout(c)
  BY <1>9, <1>t, <1>r, StopStep DEF WaitTimeout
<1> QED BY <1>1, <1>2, <1>3, <1>4, <1>5, <1>6, <1>7, <1>8, <1>9 DEF Ensure

\* A status, drain or stop request, or a step of StopAll.
LEMMA OperateStep ==
  ASSUME HInv, NEW m \in Models, Operate(m)
  PROVE  HInv'
<1>s. ASSUME NEW state \in States, models[m] # NoProc,
             proc' = [proc EXCEPT ![models[m]].state = state],
             UNCHANGED <<models, port, call, agent, todo>>
      PROVE  HInv'
  <2>1. models[m] \in Procs
    BY <1>s DEF HInv, TypeOK
  <2>2. proc' \in [Procs -> Process] /\ Quiet
    BY <1>s, <2>1 DEF HInv, TypeOK, Process, Quiet
  <2> QED BY <1>s, <2>2, QuietStep DEF HInv, TypeOK
<1>1. CASE StopModel(m)
  BY <1>1, StopStep DEF StopModel, HInv, TypeOK
<1>2. CASE GetModelStatus(m)
  BY <1>2, <1>s DEF GetModelStatus, States
<1>3. CASE DrainModel(m)
  BY <1>3, <1>s DEF DrainModel, States
<1>4. CASE StopNext(m)
  <2>1. TypeOK'
    BY <1>4, StopOwnedStep DEF StopNext, HInv, TypeOK
  <2>2. ShutdownInv'
    BY <1>4, StopOwnedStep DEF StopNext, HInv, ShutdownInv
  <2> QED BY <1>4, <2>1, <2>2, StopOwnedStep DEF StopNext, HInv
<1> QED BY <1>1, <1>2, <1>3, <1>4 DEF Operate

\* A step of a process, or of the agent's main.
LEMMA OtherStep ==
  ASSUME HInv,
         \/ \E p \in Procs : Environment(p)
         \/ Signal \/ Exit \/ Killed \/ StartAgain \/ ForeignComesAndGoes
  PROVE  HInv'
<1>1. ASSUME NEW p \in Procs, Environment(p) PROVE HInv'
  <2>1. proc' \in [Procs -> Process] /\ port' \in Procs \cup {NoProc, Foreign} /\ Quiet
    <3>1. CASE Binds(p)
      BY <3>1 DEF Binds, HInv, TypeOK, Quiet
    <3>2. CASE Ends(p)
      <4> DEFINE life == IF proc[p].born = "orphan" THEN "waited" ELSE "exited"
                 s == [proc[p] EXCEPT !.life = life, !.born = "up"]
      <4>1. proc' = [proc EXCEPT ![p] = s]
        BY <3>2 DEF Ends
      <4>2. /\ s \in Process /\ s.life # "running"
            /\ s.told = proc[p].told /\ s.model = proc[p].model
        BY DEF HInv, TypeOK, Process, Lives
      <4> HIDE DEF life, s
      <4> QED BY <3>2, <4>1, <4>2 DEF Ends, HInv, TypeOK, Quiet
    <3>3. CASE Wait(p)
      BY <3>3 DEF Wait, HInv, TypeOK, Process, Lives, Quiet
    <3> QED BY <1>1, <3>1, <3>2, <3>3 DEF Environment
  <2>2. UNCHANGED <<models, call, agent, todo>>
    BY <1>1 DEF Environment, Binds, Ends, Wait
  <2> QED BY <2>1, <2>2, QuietStep DEF HInv, TypeOK
<1>2. CASE Signal
  BY <1>2, ProcsAssumption
  DEF Signal, HInv, TypeOK, NoStrayChild, ShutdownInv, Abandoned, Process
<1>3. CASE Exit
  <2>1. call' \in [Calls -> Call]
    BY <1>3, IdleType DEF Exit
  <2> QED BY <1>3, <2>1 DEF Exit, HInv, TypeOK, NoStrayChild, ShutdownInv, Abandoned
<1>4. CASE ForeignComesAndGoes
  <2>1. Quiet /\ TypeOK' /\ UNCHANGED <<agent, todo>>
    BY <1>4 DEF ForeignComesAndGoes, HInv, TypeOK, Quiet
  <2> QED BY <2>1, QuietStep
<1>5. CASE Killed
  <2>1. call' \in [Calls -> Call]
    BY <1>5, IdleType DEF Killed
  <2> QED BY <1>5, <2>1 DEF Killed, HInv, TypeOK, NoStrayChild, ShutdownInv
<1>6. CASE StartAgain
  <2>1. \A p \in Procs : proc'[p] = Orphaned(proc[p]) /\ proc'[p] \in Process
    BY <1>6, OrphanedType DEF StartAgain, HInv, TypeOK
  <2>2. TypeOK'
    BY <1>6, <2>1 DEF StartAgain, HInv, TypeOK
  <2>3. \A p \in Procs : ~ Abandoned(p)'
    BY <2>1, OrphanedType DEF Abandoned, HInv, TypeOK
  <2>4. NoStrayChild'
    BY <2>3 DEF NoStrayChild, Abandoned
  <2> QED BY <1>6, <2>2, <2>4 DEF StartAgain, HInv, ShutdownInv
<1> QED BY <1>1, <1>2, <1>3, <1>4, <1>5, <1>6

\* The invariant, for an agent with a catalog: the map under its mutex, the children's
\* exits and the shutdown, in any order.
THEOREM AgentInvariant ==
  Spec => []HInv
<1>1. Init => HInv
  BY InitHInv
<1>2. HInv /\ [Next]_vars => HInv'
  <2> SUFFICES ASSUME HInv, [Next]_vars PROVE HInv'
    OBVIOUS
  <2>1. CASE UNCHANGED vars
    BY <2>1 DEF vars, HInv, TypeOK, NoStrayChild, ShutdownInv, Abandoned
  <2>2. CASE Next
    BY <2>2, EnsureStep, OperateStep, OtherStep DEF Next
  <2> QED BY <2>1, <2>2
<1> QED BY <1>1, <1>2, PTL DEF Spec

\* Type correctness of the host agent.
THEOREM AgentTypes ==
  Spec => []TypeOK
<1>1. HInv => TypeOK
  BY DEF HInv
<1> QED BY <1>1, AgentInvariant, PTL

\* EnsureModel, StopModel, timeouts and exits never lose a running child: it is tracked, or
\* it was told to stop.
THEOREM ChildrenTracked ==
  Spec => []NoStrayChild
<1>1. HInv => NoStrayChild
  BY DEF HInv
<1> QED BY <1>1, AgentInvariant, PTL

\* StopAll reaches every child from before the signal, although handlers keep starting and
\* stopping processes while it runs.
THEOREM ShutdownStops ==
  Spec => []ShutdownStopsChildren
<1>1. HInv => ShutdownStopsChildren
  BY DEF HInv, TypeOK, Process, ShutdownInv, Abandoned, ShutdownStopsChildren
<1> QED BY <1>1, AgentInvariant, PTL

\* A readiness that was seen before the lock was taken never marks a process that was
\* stopped in the meantime.
THEOREM LateReadyIgnored ==
  Spec => NoLateReady
<1> DEFINE Kept == \A p \in Procs :
                     proc[p].state # "ready" /\ proc'[p].state = "ready" => Tracked(p)
<1>1. TypeOK /\ [Next]_vars => [Kept]_vars
  <2> SUFFICES ASSUME TypeOK, Next PROVE Kept
    OBVIOUS
  <2>u. ASSUME proc' = proc PROVE Kept
    BY <2>u
  <2>r. ASSUME NEW c \in Calls, ReadyIfTracked(c) PROVE Kept
    BY <2>r DEF ReadyIfTracked, Tracked, TypeOK, Call, Process
  <2>s. ASSUME NEW m \in Models, StopOwned(m) PROVE Kept
    BY <2>s DEF StopOwned, Live, TypeOK, Process
  <2>1. ASSUME NEW c \in Calls, Ensure(c) PROVE Kept
    <3>1. ASSUME NEW m \in Models, NEW p \in Procs, EnsureStart(c, m, p) PROVE Kept
      BY <3>1 DEF EnsureStart, TypeOK, Process
    <3>2. ASSUME WaitTimeout(c) PROVE Kept
      BY <3>2, <2>s DEF WaitTimeout, TypeOK, Call
    <3> QED BY <2>1, <3>1, <3>2, <2>u, <2>r
        DEF Ensure, EnsureTracked, EnsureRefused, Probe, Confirm, WaitReady, Mark,
            WaitCancelled, vars
  <2>2. ASSUME NEW m \in Models, Operate(m) PROVE Kept
    <3>1. ASSUME GetModelStatus(m) PROVE Kept
      BY <3>1 DEF GetModelStatus, TypeOK, Process
    <3>2. ASSUME DrainModel(m) PROVE Kept
      BY <3>2 DEF DrainModel, TypeOK, Process
    <3> QED BY <2>2, <3>1, <3>2, <2>s DEF Operate, StopModel, StopNext
  <2>3. ASSUME NEW p \in Procs, Environment(p) PROVE Kept
    BY <2>3 DEF Environment, Binds, Ends, Wait, TypeOK, Process
  <2>4. ASSUME Signal \/ Exit \/ Killed \/ ForeignComesAndGoes PROVE Kept
    BY <2>4, <2>u DEF Signal, Exit, Killed, ForeignComesAndGoes
  <2>5. ASSUME StartAgain PROVE Kept
    BY <2>5, OrphanedType DEF StartAgain, TypeOK
  <2> HIDE DEF Kept
  <2> QED BY <2>1, <2>2, <2>3, <2>4, <2>5 DEF Next
<1> QED BY <1>1, AgentTypes, PTL DEF Spec, NoLateReady

-----------------------------------------------------------------------------
(* The workflows.                                                          *)

\* Every step of the workflows is a step of the agent or leaves it alone.
LEMMA StepOfAgent ==
  ASSUME [LifecycleNext]_lifecycleVars
  PROVE  [Next]_vars
<1>1. CASE UNCHANGED lifecycleVars
  BY <1>1 DEF lifecycleVars
<1>2. CASE Host
  BY <1>2 DEF Host, Next, Operate
<1>3. ASSUME NEW c \in Calls, HandlerReturns(c) PROVE [Next]_vars
  BY <1>3 DEF HandlerReturns, Next, Ensure
<1>4. ASSUME NEW m \in Models, Workflow(m) PROVE [Next]_vars
  <2>1. ASSUME NEW c \in Calls, EnsureHostModel(m, c) PROVE [Next]_vars
    BY <2>1 DEF EnsureHostModel, Next, Ensure
  <2>2. CASE Drains(m) \/ UnloadDrains(m) \/ UnloadStops(m) \/ ReplyLost(m)
    BY <2>2 DEF Drains, UnloadDrains, UnloadStops, ReplyLost, DrainHostModel, Next, Operate
  <2>3. CASE \/ LoadModel(m) \/ UnloadModel(m) \/ EnsureHostModelFails(m)
             \/ EnsureTimesOut(m) \/ KServeReady(m) \/ KServeNotReady(m)
    BY <2>3 DEF LoadModel, UnloadModel, EnsureHostModelFails, EnsureTimesOut,
                KServeReady, KServeNotReady
  <2> QED BY <1>4, <2>1, <2>2, <2>3 DEF Workflow
<1> QED BY <1>1, <1>2, <1>3, <1>4 DEF LifecycleNext

(***************************************************************************)
(* The control plane's workflows together with the host agent implement    *)
(* the host agent alone, whose callers call anything at any time.          *)
(***************************************************************************)
THEOREM LifecycleImplementsAgent ==
  LifecycleSpec => Spec
<1>1. LifecycleInit => Init
  BY DEF LifecycleInit
<1>2. [LifecycleNext]_lifecycleVars => [Next]_vars
  BY StepOfAgent
<1> QED BY <1>1, <1>2, PTL DEF LifecycleSpec, Spec

(***************************************************************************)
(* The agent's invariant under the workflows.                              *)
(***************************************************************************)
LEMMA AgentInvariantHere == LifecycleSpec => []HInv
BY LifecycleImplementsAgent, AgentInvariant, PTL

-----------------------------------------------------------------------------
\* The inductive invariant of the workflows, next to the agent's.
UInv ==
  /\ unload \in [Models -> {"none", "drain", "stop", "stopped"}]
  /\ doomed \in [Models -> SUBSET Procs]
  /\ UnloadedIsTold

\* What a step may do to a process that is not being started: it does not come back, finds
\* no agent that owns it, and does not forget that it was told.
Settles(p) ==
  Abandoned(p)' => Abandoned(p) /\ proc'[p].model = proc[p].model

\* A step that starts no process keeps what unloads achieved.
LEMMA SettledKeeps ==
  ASSUME UInv, UNCHANGED <<unload, doomed>>, \A p \in Procs : Settles(p)
  PROVE  UInv'
<1>1. \A m \in Models : Untold(m)' \subseteq Untold(m)
  BY DEF Untold, Settles, Abandoned
<1> QED BY <1>1 DEF UInv, UnloadedIsTold

\* Operations of the agent other than EnsureStart start no process.
LEMMA HostSettles ==
  ASSUME TypeOK, Host
  PROVE  \A p \in Procs : Settles(p)
<1>1. ASSUME NEW q \in Procs, Environment(q) PROVE \A p \in Procs : Settles(p)
  BY <1>1 DEF Environment, Binds, Ends, Wait, Settles, Abandoned, TypeOK, Process
<1>2. ASSUME NEW m \in Models, GetModelStatus(m) PROVE \A p \in Procs : Settles(p)
  BY <1>2 DEF GetModelStatus, Settles, Abandoned, TypeOK, Process
<1>3. ASSUME NEW m \in Models, StopNext(m) PROVE \A p \in Procs : Settles(p)
  BY <1>3 DEF StopNext, StopOwned, Settles, Abandoned, TypeOK, Process
<1>4. CASE Signal \/ Exit \/ Killed \/ ForeignComesAndGoes
  BY <1>4 DEF Signal, Exit, Killed, ForeignComesAndGoes, Settles, Abandoned
<1>5. CASE StartAgain
  BY <1>5, OrphanedType DEF StartAgain, Settles, Abandoned, TypeOK
<1> QED BY <1>1, <1>2, <1>3, <1>4, <1>5 DEF Host

\* Neither do the later steps of an EnsureModel handler.
LEMMA HandlerSettles ==
  ASSUME TypeOK, NEW c \in Calls, HandlerReturns(c)
  PROVE  \A p \in Procs : Settles(p)
<1>1. CASE Probe(c) \/ WaitReady(c) \/ WaitCancelled(c)
  BY <1>1 DEF Probe, WaitReady, WaitCancelled, Settles, Abandoned
<1>2. CASE Confirm(c) \/ Mark(c)
  BY <1>2 DEF Confirm, Mark, ReadyIfTracked, Settles, Abandoned, TypeOK, Process, Call
<1>3. CASE WaitTimeout(c)
  <2>1. call[c].model \in Models
    BY DEF TypeOK, Call
  <2> QED BY <1>3, <2>1 DEF WaitTimeout, StopOwned, Settles, Abandoned, TypeOK, Process
<1> QED BY <1>1, <1>2, <1>3 DEF HandlerReturns

\* When StopModel is executed, no untold process of the model is left.
LEMMA StopLeavesNone ==
  ASSUME TypeOK, NoStrayChild, NEW m \in Models, StopModel(m)
  PROVE  Untold(m)' = {} /\ \A p \in Procs : Settles(p)
<1>1. \A p \in Procs : Abandoned(p)' => Abandoned(p) /\ proc[p].model # m
  BY StopOwnedStep DEF StopModel
<1>2. \A p \in Procs : Settles(p)
  BY DEF StopModel, StopOwned, Settles, Abandoned, TypeOK, Process
<1> QED BY <1>1, <1>2 DEF Untold, Settles, Abandoned

\* Each step of a workflow keeps what unloads achieved.
LEMMA WorkflowKeeps ==
  ASSUME TypeOK, NoStrayChild, UInv, NEW m \in Models, Workflow(m)
  PROVE  UInv'
<1>1. CASE \/ LoadModel(m) \/ EnsureHostModelFails(m)
           \/ EnsureTimesOut(m) \/ KServeReady(m) \/ KServeNotReady(m)
  <2>1. UNCHANGED <<proc, unload, doomed>>
    BY <1>1 DEF LoadModel, EnsureHostModelFails, EnsureTimesOut, KServeReady,
                KServeNotReady, vars
  <2> QED BY <2>1, SettledKeeps DEF Settles, Abandoned
<1>2. CASE UnloadModel(m)
  BY <1>2 DEF UnloadModel, UInv, UnloadedIsTold, Untold, vars
<1>3. ASSUME NEW c \in Calls, EnsureHostModel(m, c) PROVE UInv'
  <2>1. CASE EnsureTracked(c, m) /\ UNCHANGED doomed
    BY <1>3, <2>1, SettledKeeps DEF EnsureHostModel, EnsureTracked, Settles, Abandoned
  <2>2. ASSUME NEW p \in Procs, EnsureStart(c, m, p), doomed' = [k \in Models |-> doomed[k] \ {p}]
        PROVE  UInv'
    <3>1. unload' = unload /\ \A q \in Procs : q # p => proc'[q] = proc[q]
      BY <1>3, <2>2 DEF EnsureHostModel, EnsureStart, TypeOK
    <3>2. \A k \in Models : Untold(k)' \subseteq Untold(k) \cup {p}
      BY <3>1 DEF Untold
    <3> QED BY <2>2, <3>1, <3>2 DEF UInv, UnloadedIsTold
  <2> QED BY <1>3, <2>1, <2>2 DEF EnsureHostModel
<1>4. CASE Drains(m)
  BY <1>4, SettledKeeps
     DEF Drains, DrainHostModel, DrainModel, Settles, Abandoned, TypeOK, Process, workflowVars, vars
<1>5. CASE UnloadDrains(m)
  <2>1. \A p \in Procs : Settles(p)
    BY <1>5 DEF UnloadDrains, DrainHostModel, DrainModel, Settles, Abandoned, TypeOK, Process, vars
  <2>2. \A k \in Models : Untold(k)' \subseteq Untold(k)
    BY <2>1 DEF Untold, Settles, Abandoned
  <2> QED BY <1>5, <2>2 DEF UnloadDrains, UInv, UnloadedIsTold
<1>6. CASE UnloadStops(m)
  <2>1. Untold(m)' = {} /\ \A p \in Procs : Settles(p)
    BY <1>6, StopLeavesNone DEF UnloadStops
  <2>2. \A k \in Models : Untold(k)' \subseteq Untold(k)
    BY <2>1 DEF Untold, Settles, Abandoned
  <2> QED BY <1>6, <2>1, <2>2 DEF UnloadStops, UInv, UnloadedIsTold
<1>7. CASE ReplyLost(m)
  BY <1>7, StopLeavesNone, SettledKeeps DEF ReplyLost, workflowVars
<1> QED BY <1>1, <1>2, <1>3, <1>4, <1>5, <1>6, <1>7 DEF Workflow

(***************************************************************************)
(* An unload that ended left no process running that it found, for every   *)
(* number of models, processes and concurrent handlers.                    *)
(***************************************************************************)
THEOREM UnloadsStop ==
  LifecycleSpec => []UnloadedIsTold
<1>1. LifecycleInit => UInv
  BY DEF LifecycleInit, UInv, UnloadedIsTold
<1>2. HInv /\ UInv /\ [LifecycleNext]_lifecycleVars => UInv'
  <2> SUFFICES ASSUME HInv, UInv, [LifecycleNext]_lifecycleVars PROVE UInv'
    OBVIOUS
  <2>0. TypeOK /\ NoStrayChild
    BY DEF HInv
  <2>1. CASE UNCHANGED lifecycleVars
    BY <2>1, SettledKeeps DEF lifecycleVars, workflowVars, vars, Settles, Abandoned
  <2>2. CASE Host
    BY <2>0, <2>2, HostSettles, SettledKeeps DEF Host, workflowVars
  <2>3. ASSUME NEW c \in Calls, HandlerReturns(c) PROVE UInv'
    BY <2>0, <2>3, HandlerSettles, SettledKeeps DEF HandlerReturns
  <2>4. ASSUME NEW m \in Models, Workflow(m) PROVE UInv'
    BY <2>0, <2>4, WorkflowKeeps
  <2> QED BY <2>1, <2>2, <2>3, <2>4 DEF LifecycleNext
<1>3. UInv => UnloadedIsTold
  BY DEF UInv
<1> QED BY <1>1, <1>2, <1>3, AgentInvariantHere, PTL DEF LifecycleSpec
=============================================================================
