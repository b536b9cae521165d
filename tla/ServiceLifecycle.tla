-------------------------- MODULE ServiceLifecycle --------------------------
(***************************************************************************)
(* Starting and stopping the service (src/core/service.rs) and the two API *)
(* handlers in front of it (src/api/handlers.rs).  A start builds outside  *)
(* the lock with the phase at "starting"; a stop does its synchronous part *)
(* under the lock and leaves the waiting to a task of its own.             *)
(*                                                                         *)
(* A run owns the tasks whose handles it keeps (Managed).  The health task *)
(* spawns rounds, and the forward task connections, whose handles stop     *)
(* does not wait for (Detached).                                           *)
(***************************************************************************)
EXTENDS Naturals, FiniteSets

CONSTANTS
  Callers,       \* concurrent API requests, each a start or a stop
  Instances,     \* identities of runs (bounds those with a live task at once)
  Configs, Valid,\* configurations, and those validate() accepts
  NoInstance, NoConfig

ASSUME LifecycleAssumption ==
  /\ Valid \subseteq Configs /\ Configs # {}
  /\ NoInstance \notin Instances /\ NoConfig \notin Configs

Managed == {"prober", "sticky", "health", "forward"}
Detached == {"round", "connection"}

VARIABLES
  phase,      \* ServiceState::phase
  running,    \* the run inside Phase::Running
  config,     \* ServiceState::config
  pc, snap,   \* a caller: its next step, the configuration it has read
  alive,      \* tasks of a run that have not ended
  listening,  \* the runs whose run_forward holds its listener
  conf,       \* the configuration a run was built from
  cancelled,  \* the run's cancellation token
  fault,      \* the run's forward_fault slot is filled
  cleanup,    \* the run whose cleanup task is waiting
  aborted     \* tasks of that run the cleanup has aborted

vars == <<phase, running, config, pc, snap, alive, listening, conf, cancelled,
          fault, cleanup, aborted>>
runVars == <<alive, listening, conf, cancelled, fault>>
stopVars == <<cleanup, aborted>>

Init ==
  /\ phase = "stopped" /\ running = NoInstance
  /\ config \in Valid
  /\ pc = [c \in Callers |-> "idle"]
  /\ snap = [c \in Callers |-> NoConfig]
  /\ alive = [i \in Instances |-> {}] /\ listening = {}
  /\ conf = [i \in Instances |-> NoConfig]
  /\ cancelled = [i \in Instances |-> FALSE]
  /\ fault = [i \in Instances |-> FALSE]
  /\ cleanup = NoInstance /\ aborted = {}

Step(c, to) == pc' = [pc EXCEPT ![c] = to]

----------------------------------------------------------------------------
(* Start *)

\* The handler stores the merged settings before it asks to start, and leaves
\* them stored when the start is refused.
UpdateConfig(c) ==
  /\ pc[c] = "idle"
  /\ config' \in Configs
  /\ Step(c, "begin")
  /\ UNCHANGED <<phase, running, snap, runVars, stopVars>>

\* Mutant: the phase is looked at but not taken.
AdmittedPhaseUntaken == "stopped"
\* begin_start takes the phase in the critical section that looks at it.
AdmittedPhase == "starting"

BeginStart(c) ==
  /\ pc[c] = "begin"
  /\ IF phase = "stopped"
       THEN Step(c, "validate") /\ phase' = AdmittedPhase
       ELSE Step(c, "idle") /\ UNCHANGED phase
  /\ UNCHANGED <<running, config, snap, runVars, stopVars>>

\* StartGuard::drop, on every early return.
Rollback(c) ==
  /\ phase' = "stopped"
  /\ Step(c, "idle")
  /\ snap' = [snap EXCEPT ![c] = NoConfig]

\* The configuration is read once; an invalid one, or no address at all, rolls
\* back.
ReadConfig(c) ==
  /\ pc[c] = "validate"
  /\ \/ /\ config \in Valid
        /\ Step(c, "bind") /\ snap' = [snap EXCEPT ![c] = config]
        /\ UNCHANGED phase
     \/ Rollback(c)
  /\ UNCHANGED <<running, config, runVars, stopVars>>

\* The port is held by every run that has its listener.
PortHeld == listening # {}

\* bind_listener comes before the first spawn.  It may also fail because
\* another program holds the port.
Bind(c) ==
  /\ pc[c] = "bind"
  /\ \/ ~PortHeld /\ Step(c, "spawn") /\ UNCHANGED <<phase, snap>>
     \/ Rollback(c)
  /\ UNCHANGED <<running, config, runVars, stopVars>>

\* Mutant: the configuration is read again after it was validated.
ReadAgain(c) == config
\* finish_start is handed the configuration that was validated.
BuiltFrom(c) == snap[c]

Spawn(c) ==
  /\ pc[c] = "spawn"
  /\ \E i \in Instances :
       /\ alive[i] = {} /\ i \notin {running, cleanup}
       /\ alive' = [alive EXCEPT ![i] = Managed]
       /\ listening' = listening \cup {i}
       /\ conf' = [conf EXCEPT ![i] = BuiltFrom(c)]
       /\ cancelled' = [cancelled EXCEPT ![i] = FALSE]
       /\ fault' = [fault EXCEPT ![i] = FALSE]
       /\ snap' = [snap EXCEPT ![c] = i]   \* from here on, the run it built
  /\ Step(c, "activate")
  /\ UNCHANGED <<phase, running, config, stopVars>>

Activate(c) ==
  /\ pc[c] = "activate"
  /\ phase' = "running" /\ running' = snap[c]
  /\ Step(c, "idle")
  /\ snap' = [snap EXCEPT ![c] = NoConfig]
  /\ UNCHANGED <<config, runVars, stopVars>>

----------------------------------------------------------------------------
(* Stop *)

\* Under the phase lock: the phase, the cancellation, the shutdown of the
\* sockets and the taking of the handles.
Stop(c) ==
  /\ pc[c] = "idle"
  /\ phase = "running"
  /\ phase' = "stopping" /\ running' = NoInstance
  /\ cancelled' = [cancelled EXCEPT ![running] = TRUE]
  /\ cleanup' = running /\ aborted' = {}
  /\ Step(c, "stopping")
  /\ UNCHANGED <<config, snap, alive, listening, conf, fault>>

\* Mutant: the caller's future owns the cleanup.
CleanupDropped == NoInstance
\* The cleanup is a task of its own: it survives the caller.
CleanupKept == cleanup

\* The caller's future is dropped, by a client that disconnects.
DropCaller(c) ==
  /\ pc[c] = "stopping"
  /\ Step(c, "idle")
  /\ cleanup' = CleanupKept
  /\ UNCHANGED <<phase, running, config, snap, runVars, aborted>>

\* Mutant: tasks are awaited whose handles the run never had.
WaitedAll == alive[cleanup]
Waited == alive[cleanup] \cap Managed

\* await_handles: the shared budget is spent and every task still there is
\* aborted.
BudgetSpent ==
  /\ cleanup # NoInstance /\ aborted = {} /\ Waited # {}
  /\ aborted' = Waited
  /\ UNCHANGED <<phase, running, config, pc, snap, runVars, cleanup>>

\* Mutant: after the abort nothing is awaited.
HandlesAborted == Waited = {} \/ aborted # {}
\* The second wait has no limit.
HandlesEnded == Waited = {}

CleanupDone ==
  /\ cleanup # NoInstance /\ HandlesEnded
  /\ phase' = "stopped"
  /\ cleanup' = NoInstance /\ aborted' = {}
  /\ pc' = [c \in Callers |-> IF pc[c] = "stopping" THEN "idle" ELSE pc[c]]
  /\ UNCHANGED <<running, config, snap, runVars>>

----------------------------------------------------------------------------
(* The tasks of a run *)

RunsOn == UNCHANGED <<phase, running, config, pc, snap, conf, cancelled, stopVars>>

\* Task k of run i ends; the listener goes with run_forward.
TaskEnds(i, k) ==
  /\ alive' = [alive EXCEPT ![i] = @ \ {k}]
  /\ listening' = IF k = "forward" THEN listening \ {i} ELSE listening
  /\ RunsOn /\ UNCHANGED fault

\* run_forward has failed: what is left of the task has no await.
Failing(i) == "forward" \in alive[i] /\ i \notin listening

\* A cancelled task returns on its own, or never does (it may be blocked).
TaskReturns(i, k) ==
  /\ cancelled[i] /\ k \in alive[i] \cap Managed
  /\ k = "forward" => i \in listening
  /\ TaskEnds(i, k)

\* An aborted task ends at its next await.
AbortLands(k) ==
  /\ cleanup # NoInstance /\ k \in aborted \cap alive[cleanup]
  /\ k = "forward" => cleanup \in listening
  /\ TaskEnds(cleanup, k)

\* run_forward gives up on accept, and drops its listener as it returns.
ForwardFails(i) ==
  /\ i \in listening
  /\ listening' = listening \ {i}
  /\ RunsOn /\ UNCHANGED <<alive, fault>>

\* Its task fills the slot with the reason ...
RecordFault(i) ==
  /\ Failing(i) /\ ~fault[i]
  /\ fault' = [fault EXCEPT ![i] = TRUE]
  /\ RunsOn /\ UNCHANGED <<alive, listening>>

\* Mutant: the task ends, in whatever order, before it has said why.
ReasonLater(i) == TRUE
ReasonGiven(i) == fault[i]

\* ... before it ends.
FailedTaskEnds(i) ==
  /\ Failing(i) /\ ReasonGiven(i)
  /\ TaskEnds(i, "forward")

\* The health loop spawns rounds and the accept loop connections.
SpawnDetached(i) ==
  /\ \/ "health" \in alive[i] /\ alive' = [alive EXCEPT ![i] = @ \cup {"round"}]
     \/ i \in listening /\ alive' = [alive EXCEPT ![i] = @ \cup {"connection"}]
  /\ RunsOn /\ UNCHANGED <<listening, fault>>

\* A round ends when its pings have; a connection when its sockets are closed.
DetachedEnds(i, k) ==
  /\ k \in alive[i] \cap Detached
  /\ TaskEnds(i, k)

----------------------------------------------------------------------------
Caller(c) ==
  \/ UpdateConfig(c) \/ BeginStart(c) \/ ReadConfig(c) \/ Bind(c) \/ Spawn(c)
  \/ Activate(c) \/ Stop(c) \/ DropCaller(c)

Next ==
  \/ \E c \in Callers : Caller(c)
  \/ BudgetSpent \/ CleanupDone
  \/ \E i \in Instances, k \in Managed : TaskReturns(i, k)
  \/ \E k \in Managed : AbortLands(k)
  \/ \E i \in Instances : ForwardFails(i) \/ RecordFault(i) \/ FailedTaskEnds(i)
                          \/ SpawnDetached(i)
  \/ \E i \in Instances, k \in Detached : DetachedEnds(i, k)

Spec == Init /\ [][Next]_vars

\* The runtime keeps polling the cleanup task, drops aborted tasks at their next
\* await and lets a failed one run to its end; nothing makes a cancelled task
\* return by itself.
Fairness ==
  /\ WF_vars(BudgetSpent) /\ WF_vars(CleanupDone)
  /\ \A k \in Managed : WF_vars(AbortLands(k))
  /\ \A i \in Instances : WF_vars(RecordFault(i)) /\ WF_vars(FailedTaskEnds(i))
FairSpec == Spec /\ Fairness

----------------------------------------------------------------------------
(* Properties *)

Live(i) == alive[i] \cap Managed # {}

TypeOK ==
  /\ phase \in {"stopped", "starting", "running", "stopping"}
  /\ running \in Instances \cup {NoInstance}
  /\ config \in Configs
  /\ pc \in [Callers -> {"idle", "begin", "validate", "bind", "spawn",
                         "activate", "stopping"}]
  /\ snap \in [Callers -> Configs \cup Instances \cup {NoConfig}]
  /\ alive \in [Instances -> SUBSET (Managed \cup Detached)]
  /\ listening \subseteq {i \in Instances : "forward" \in alive[i]}
  /\ conf \in [Instances -> Configs \cup {NoConfig}]
  /\ cancelled \in [Instances -> BOOLEAN] /\ fault \in [Instances -> BOOLEAN]
  /\ cleanup \in Instances \cup {NoInstance}
  /\ aborted \subseteq Managed

\* Whatever requests race, one run at most owns tasks, and the phase says so:
\* "starting" has exactly one caller that will leave it, "running" has its run
\* and "stopping" its cleanup (service.rs:19, 299).
PhaseOwned ==
  /\ Cardinality({i \in Instances : Live(i)}) <= 1
  /\ LET building == {c \in Callers : pc[c] \in {"validate", "bind", "spawn", "activate"}}
     IN  Cardinality(building) = (IF phase = "starting" THEN 1 ELSE 0)
  /\ phase = "running" <=> running # NoInstance
  /\ phase = "stopping" <=> cleanup # NoInstance

\* No run was ever built from settings that validate() had not accepted, even
\* when another request replaced them meanwhile (service.rs:372).
OnlyValidated == \A i \in Instances : Live(i) => conf[i] \in Valid

\* A run that is reported as running has a live forward task, wherever a request
\* for the status falls between the failure of run_forward, the filling of the
\* slot and the end of the task (service.rs:281-287, 437-443).
ReportedAlive ==
  phase = "running" /\ ~fault[running] => "forward" \in alive[running]

\* A stop in progress ends in "stopped" although its caller may give up and
\* tasks may ignore the cancellation (service.rs:486).
StopConverges == (phase = "stopping") ~> (phase = "stopped")

\* The service implements the abstract life cycle; in particular the tasks of
\* a run have ended before the next one is admitted.
Contract == INSTANCE Lifecycle
  WITH live <- {i \in Instances : Live(i)}
ImplementsLifecycle == Contract!Spec

\* await_handles: "so that the resources are released before Stopped is
\* entered" (service.rs:116), read over every task a run has spawned.
StoppedIsQuiet == phase = "stopped" => \A i \in Instances : alive[i] = {}
=============================================================================
