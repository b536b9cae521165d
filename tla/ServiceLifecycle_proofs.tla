----------------------- MODULE ServiceLifecycle_proofs -----------------------
(***************************************************************************)
(* The phases of the service, its runs and its configurations, for any     *)
(* number of racing requests; and that the service implements Lifecycle.   *)
(***************************************************************************)
EXTENDS ServiceLifecycle, FiniteSetTheorems, TLAPS

\* A start between begin_start and the end of finish_start.
Building(c) == pc[c] \in {"validate", "bind", "spawn", "activate"}
Built(c, i) == pc[c] = "activate" /\ snap[c] = i

\* The phase is "starting" while one caller builds, and tells which of a run
\* and a cleanup the state holds.
OneBuilder ==
  /\ phase = "starting" <=> \E c \in Callers : Building(c)
  /\ \A c, d \in Callers : Building(c) /\ Building(d) => c = d
  /\ phase = "running" <=> running # NoInstance
  /\ phase = "stopping" <=> cleanup # NoInstance

\* A caller holds the configuration it has validated, then the run it built.
Snapped ==
  \A c \in Callers :
    /\ pc[c] \in {"bind", "spawn"} => snap[c] \in Valid
    /\ pc[c] = "activate" => snap[c] \in Instances

\* A run that owns tasks is the one being built, the one in the state, or the
\* one the cleanup waits for.
Owned ==
  \A i \in Instances :
    Live(i) => \/ i \in {running, cleanup} \/ \E c \in Callers : Built(c, i)

\* Before its cancellation a run loses no task but the forward task.
Untouched(i) ==
  /\ ~cancelled[i] /\ Managed \ {"forward"} \subseteq alive[i]
  /\ ~fault[i] => "forward" \in alive[i]
Serving ==
  \A i \in Instances :
    i = running \/ (\E c \in Callers : Built(c, i)) => Untouched(i)

LifeInv ==
  TypeOK /\ OneBuilder /\ Snapped /\ Owned /\ Serving /\ OnlyValidated

\* Who owns tasks: nobody outside a start, a run or a cleanup.
LEMMA OwnerAlone ==
  ASSUME LifeInv, NEW i \in Instances, Live(i)
  PROVE  /\ phase # "stopped"
         /\ phase = "starting" => \E c \in Callers : Built(c, i)
         /\ phase = "running" => i = running
         /\ phase = "stopping" => i = cleanup
BY LifecycleAssumption DEF LifeInv, TypeOK, OneBuilder, Owned, Building, Built

\* While a caller builds and has spawned nothing, no run owns tasks.
LEMMA NothingBuilt ==
  ASSUME LifeInv, NEW c \in Callers, pc[c] \in {"validate", "bind", "spawn"}
  PROVE  phase = "starting" /\ \A i \in Instances : ~Live(i)
BY OwnerAlone DEF LifeInv, OneBuilder, Building, Built

----------------------------------------------------------------------------
(* Requests *)

\* A request that moves no phase and touches no run.
LEMMA RequestStep ==
  ASSUME LifeInv, NEW c \in Callers, Caller(c)
  PROVE  LifeInv'
<1> USE LifecycleAssumption
    DEF LifeInv, TypeOK, OneBuilder, Snapped, Owned, Serving, OnlyValidated,
        Building, Built, Untouched, Live, Step
<1>1. CASE UpdateConfig(c)
  BY <1>1 DEF UpdateConfig, runVars, stopVars
<1>2. CASE BeginStart(c)
  BY <1>2 DEF BeginStart, AdmittedPhase, runVars, stopVars
<1>3. CASE ReadConfig(c)
  BY <1>3 DEF ReadConfig, Rollback, runVars, stopVars
<1>4. CASE Bind(c)
  BY <1>4 DEF Bind, Rollback, runVars, stopVars
<1>5. CASE Spawn(c)
  <2>1. PICK i \in Instances :
          /\ alive[i] = {} /\ i \notin {running, cleanup}
          /\ alive' = [alive EXCEPT ![i] = Managed]
          /\ listening' = listening \cup {i}
          /\ conf' = [conf EXCEPT ![i] = snap[c]]
          /\ cancelled' = [cancelled EXCEPT ![i] = FALSE]
          /\ fault' = [fault EXCEPT ![i] = FALSE]
          /\ snap' = [snap EXCEPT ![c] = i]
    BY <1>5 DEF Spawn, BuiltFrom
  <2>2. /\ pc[c] = "spawn" /\ pc' = [pc EXCEPT ![c] = "activate"]
        /\ UNCHANGED <<phase, running, config, cleanup, aborted>>
    BY <1>5 DEF Spawn, stopVars
  <2>3. phase = "starting" /\ \A j \in Instances : ~Live(j)
    BY <2>2, NothingBuilt
  <2>4. \A d \in Callers, j \in Instances : Built(d, j)' <=> d = c /\ j = i
    BY <2>1, <2>2
  <2>5. TypeOK'
    BY <2>1, <2>2 DEF Managed
  <2>6. OneBuilder' /\ Snapped'
    BY <2>1, <2>2
  <2>7. \A j \in Instances : Live(j)' <=> j = i
    BY <2>1, <2>3 DEF Managed
  <2>8. Owned' /\ OnlyValidated'
    BY <2>1, <2>2, <2>4, <2>7
  <2>9. Serving'
    <3>1. Untouched(i)'
      BY <2>1 DEF Managed
    <3>2. running = NoInstance
      BY <2>3
    <3> QED
      BY <2>2, <2>4, <3>1, <3>2
  <2> QED
    BY <2>5, <2>6, <2>8, <2>9
<1>6. CASE Activate(c)
  BY <1>6 DEF Activate, runVars, stopVars
<1>7. CASE Stop(c)
  BY <1>7 DEF Stop
<1>8. CASE DropCaller(c)
  BY <1>8 DEF DropCaller, CleanupKept, runVars
<1> QED
  BY <1>1, <1>2, <1>3, <1>4, <1>5, <1>6, <1>7, <1>8 DEF Caller

----------------------------------------------------------------------------
(* The cleanup and the tasks of a run *)

\* A step of the tasks of run i, which takes some of them from it.
LEMMA TaskStep ==
  ASSUME LifeInv, NEW i \in Instances,
         UNCHANGED <<phase, running, config, pc, snap, conf, cancelled, stopVars>>,
         NEW K \in SUBSET (Managed \cup Detached),
         alive' = [alive EXCEPT ![i] = K],
         listening' \subseteq listening, i \in listening' => "forward" \in K,
         Live(i)' => Live(i),
         fault' \in [Instances -> BOOLEAN],
         \A j \in Instances \ {i} : fault'[j] = fault[j],
         i = running \/ (\E c \in Callers : Built(c, i)) => Untouched(i)'
  PROVE  LifeInv'
<1> USE LifecycleAssumption DEF LifeInv, stopVars
<1>1. TypeOK'
  BY DEF TypeOK
<1>2. OneBuilder' /\ Snapped'
  BY DEF OneBuilder, Snapped, Building
<1>3. \A j \in Instances : Live(j)' => Live(j)
  BY DEF Live, TypeOK
<1>4. Owned' /\ OnlyValidated'
  BY <1>3 DEF Owned, OnlyValidated, Built
<1>5. \A j \in Instances \ {i} : Untouched(j) => Untouched(j)'
  BY DEF Untouched, TypeOK
<1>6. Serving'
  BY <1>5 DEF Serving, Built
<1> QED
  BY <1>1, <1>2, <1>4, <1>6

\* Every step keeps the invariant.
LEMMA LifeStep == LifeInv /\ [Next]_vars => LifeInv'
<1> SUFFICES ASSUME LifeInv, [Next]_vars PROVE LifeInv'
  OBVIOUS
<1>1. ASSUME NEW c \in Callers, Caller(c) PROVE LifeInv'
  BY <1>1, RequestStep
<1>2. CASE BudgetSpent
  BY <1>2 DEF BudgetSpent, Waited, LifeInv, TypeOK, OneBuilder, Snapped, Owned,
              Serving, OnlyValidated, Building, Built, Untouched, Live, runVars
<1>3. CASE CleanupDone
  <2>1. /\ phase = "stopping" /\ phase' = "stopped" /\ running = NoInstance
        /\ cleanup' = NoInstance /\ aborted' = {}
        /\ UNCHANGED <<running, config, snap, runVars>>
    BY <1>3 DEF CleanupDone, LifeInv, OneBuilder
  <2>2. \A i \in Instances : ~Live(i)
    BY <1>3, <2>1, OwnerAlone DEF CleanupDone, HandlesEnded, Waited, Live
  <2>3. \A c \in Callers : /\ Building(c)' <=> Building(c)
                           /\ pc'[c] = "activate" => pc[c] = "activate"
                           /\ pc'[c] \in {"bind", "spawn"} => pc'[c] = pc[c]
    BY <1>3 DEF CleanupDone, Building, LifeInv, TypeOK
  <2>4. TypeOK'
    BY <1>3, <2>1 DEF CleanupDone, LifeInv, TypeOK, runVars
  <2>5. OneBuilder' /\ Snapped'
    BY <2>1, <2>3 DEF LifeInv, OneBuilder, Snapped
  <2>6. Owned' /\ OnlyValidated'
    BY <2>1, <2>2 DEF Owned, OnlyValidated, Live, runVars
  <2>7. Serving'
    BY <2>1, <2>3 DEF LifeInv, Serving, Built, Untouched, runVars
  <2> QED
    BY <2>4, <2>5, <2>6, <2>7 DEF LifeInv
\* A task of a run that serves ends only with the slot filled.
<1>0. ASSUME NEW i \in Instances, NEW k \in Managed \cup Detached, TaskEnds(i, k),
             i = running \/ (\E c \in Callers : Built(c, i)) =>
               k \in Detached \/ (k = "forward" /\ fault[i])
      PROVE  LifeInv'
  <2> DEFINE K == alive[i] \ {k}
  <2>1. /\ K \in SUBSET (Managed \cup Detached)
        /\ alive' = [alive EXCEPT ![i] = K] /\ K \subseteq alive[i]
        /\ listening' \subseteq listening /\ fault' = fault
        /\ i \in listening' => "forward" \in K
        /\ UNCHANGED <<phase, running, config, pc, snap, conf, cancelled, stopVars>>
    BY <1>0 DEF TaskEnds, RunsOn, LifeInv, TypeOK
  <2>2. alive'[i] = K /\ alive \in [Instances -> SUBSET (Managed \cup Detached)]
    BY <2>1 DEF LifeInv, TypeOK
  <2>3. Live(i)' => Live(i)
    BY <2>1, <2>2 DEF Live
  <2>4. i = running \/ (\E c \in Callers : Built(c, i)) => Untouched(i)'
    BY <1>0, <2>1, <2>2 DEF LifeInv, Serving, Untouched, Managed, Detached
  <2>5. /\ fault' \in [Instances -> BOOLEAN]
        /\ \A j \in Instances \ {i} : fault'[j] = fault[j]
    BY <2>1 DEF LifeInv, TypeOK
  <2> HIDE DEF K
  <2> QED
    BY <2>1, <2>3, <2>4, <2>5, TaskStep
<1>4. ASSUME NEW i \in Instances, NEW k \in Managed, TaskReturns(i, k)
      PROVE LifeInv'
  \* It has been cancelled: it is not a run that serves or is being built.
  BY <1>4, <1>0 DEF TaskReturns, Serving, Untouched, LifeInv
<1>5. ASSUME NEW k \in Managed, AbortLands(k) PROVE LifeInv'
  <2>1. cleanup \in Instances
    BY <1>5 DEF AbortLands, LifeInv, TypeOK
  <2>2. running # cleanup /\ ~ \E c \in Callers : Built(c, cleanup)
    BY <1>5, <2>1, LifecycleAssumption
       DEF AbortLands, LifeInv, OneBuilder, Building, Built
  <2> QED
    BY <1>5, <2>1, <2>2, <1>0 DEF AbortLands
<1>6. ASSUME NEW i \in Instances, ForwardFails(i) \/ RecordFault(i)
      PROVE  LifeInv'
  <2>1. /\ alive' = [alive EXCEPT ![i] = alive[i]]
        /\ alive[i] \in SUBSET (Managed \cup Detached)
        /\ listening' \subseteq listening
        /\ i \in listening' => "forward" \in alive[i]
        /\ fault' \in [Instances -> BOOLEAN]
        /\ \A j \in Instances \ {i} : fault'[j] = fault[j]
        /\ fault'[i] \in {fault[i], TRUE}
        /\ UNCHANGED <<alive, phase, running, config, pc, snap, conf, cancelled, stopVars>>
    BY <1>6 DEF ForwardFails, RecordFault, RunsOn, LifeInv, TypeOK
  <2>2. Live(i)' => Live(i)
    BY <2>1 DEF Live
  <2>3. Untouched(i) => Untouched(i)'
    BY <2>1 DEF Untouched
  <2>4. i = running \/ (\E c \in Callers : Built(c, i)) => Untouched(i)'
    BY <2>3 DEF LifeInv, Serving
  <2> QED
    BY <2>1, <2>2, <2>4, TaskStep
<1>7. ASSUME NEW i \in Instances, SpawnDetached(i) PROVE LifeInv'
  <2>1. PICK k \in Detached : alive' = [alive EXCEPT ![i] = alive[i] \cup {k}]
    BY <1>7 DEF SpawnDetached, Detached
  <2>2. /\ alive[i] \cup {k} \in SUBSET (Managed \cup Detached)
        /\ listening' = listening /\ fault' = fault
        /\ i \in listening' => "forward" \in alive[i] \cup {k}
        /\ UNCHANGED <<phase, running, config, pc, snap, conf, cancelled, stopVars>>
    BY <1>7, <2>1 DEF SpawnDetached, RunsOn, LifeInv, TypeOK
  <2>3. alive'[i] = alive[i] \cup {k}
    BY <2>1 DEF LifeInv, TypeOK
  <2>4. Live(i)' => Live(i)
    BY <2>3 DEF Live, Managed, Detached
  <2>5. i = running \/ (\E c \in Callers : Built(c, i)) => Untouched(i)'
    BY <2>2, <2>3 DEF LifeInv, Serving, Untouched
  <2>6. fault' \in [Instances -> BOOLEAN]
    BY <2>2 DEF LifeInv, TypeOK
  <2> QED
    BY <2>1, <2>2, <2>4, <2>5, <2>6, TaskStep
<1>8. ASSUME NEW i \in Instances,
             FailedTaskEnds(i) \/ \E k \in Detached : DetachedEnds(i, k)
      PROVE LifeInv'
  BY <1>8, <1>0 DEF FailedTaskEnds, ReasonGiven, DetachedEnds, Managed, Detached
<1>9. CASE UNCHANGED vars
  BY <1>9 DEF vars, runVars, stopVars, LifeInv, TypeOK, OneBuilder, Snapped,
              Owned, Serving, OnlyValidated, Building, Built, Untouched, Live
<1> QED
  BY <1>1, <1>2, <1>3, <1>4, <1>5, <1>6, <1>7, <1>8, <1>9 DEF Next

LEMMA LifeInvariant == Spec => []LifeInv
<1>1. Init => LifeInv
  BY LifecycleAssumption
     DEF Init, LifeInv, TypeOK, OneBuilder, Snapped, Owned, Serving,
         OnlyValidated, Building, Built, Live
<1> QED
  BY <1>1, LifeStep, PTL DEF Spec

\* Every variable keeps its type.
THEOREM LifecycleTypes == Spec => []TypeOK
<1>1. LifeInv => TypeOK
  BY DEF LifeInv
<1> QED
  BY <1>1, LifeInvariant, PTL

\* Whatever requests race, one run at most owns tasks and the phase says who:
\* one caller while "starting", the run while "running", the cleanup while
\* "stopping" (service.rs:19, 299).
THEOREM PhaseIsOwned == Spec => []PhaseOwned
<1>1. LifeInv => PhaseOwned
  <2> SUFFICES ASSUME LifeInv PROVE PhaseOwned
    OBVIOUS
  <2> DEFINE live == {i \in Instances : Live(i)}
             building == {c \in Callers : Building(c)}
  <2>1. Cardinality(live) <= 1
    <3>1. CASE live = {}
      BY <3>1, FS_EmptySet
    <3>2. CASE live # {}
      <4>1. PICK i \in live : TRUE
        BY <3>2
      <4>2. \A j \in live : j = i
        BY <4>1, OwnerAlone DEF LifeInv, TypeOK, OneBuilder, Building, Built
      <4>3. live = {i}
        BY <4>1, <4>2
      <4> QED
        BY <4>3, FS_Singleton
    <3> QED
      BY <3>1, <3>2
  <2>2. Cardinality(building) = (IF phase = "starting" THEN 1 ELSE 0)
    <3>1. CASE phase = "starting"
      <4>1. PICK c \in Callers : building = {c}
        BY <3>1 DEF LifeInv, OneBuilder
      <4> QED
        BY <3>1, <4>1, FS_Singleton
    <3>2. CASE phase # "starting"
      <4>1. building = {}
        BY <3>2 DEF LifeInv, OneBuilder
      <4> QED
        BY <3>2, <4>1, FS_EmptySet
    <3> QED
      BY <3>1, <3>2
  <2> QED
    BY <2>1, <2>2 DEF PhaseOwned, LifeInv, OneBuilder, Building
<1> QED
  BY <1>1, LifeInvariant, PTL

\* No run is built from settings that validate() has not accepted, even when
\* another request replaces them meanwhile (service.rs:372).
THEOREM OnlyValidatedRuns == Spec => []OnlyValidated
<1>1. LifeInv => OnlyValidated
  BY DEF LifeInv
<1> QED
  BY <1>1, LifeInvariant, PTL

\* A run that is reported as running has a live forward task, also while the task
\* of a failed run_forward records why (service.rs:276-283, 435-443).
THEOREM ReportedIsAlive == Spec => []ReportedAlive
<1>1. LifeInv => ReportedAlive
  BY DEF LifeInv, TypeOK, OneBuilder, Serving, Untouched, ReportedAlive
<1> QED
  BY <1>1, LifeInvariant, PTL

----------------------------------------------------------------------------
(* Refinement of Lifecycle *)

Runs == {i \in Instances : Live(i)}

\* A task that ends is no step of the contract, or the last one of the run that
\* is being stopped.
LEMMA TaskEndRefines ==
  ASSUME LifeInv, LifeInv', NEW i \in Instances,
         UNCHANGED <<phase, running, pc, snap>>,
         NEW K, alive' = [alive EXCEPT ![i] = K],
         Live(i)' => Live(i)
  PROVE  [Contract!Next]_(Contract!vars)
<1>1. \A j \in Instances \ {i} : Live(j)' <=> Live(j)
  BY DEF Live, LifeInv, TypeOK
<1>2. CASE Live(i)' <=> Live(i)
  <2>1. Runs' = Runs
    BY <1>1, <1>2 DEF Runs
  <2> QED
    BY <2>1 DEF Contract!vars, Runs
<1>3. CASE Live(i) /\ ~Live(i)'
  <2>1. ~(i = running \/ \E c \in Callers : Built(c, i))
    <3>1. Untouched(i)' => Live(i)'
      BY DEF Untouched, Live, Managed
    <3> QED
      BY <1>3, <3>1 DEF LifeInv, Serving, Built
  <2>2. phase = "stopping" /\ i = cleanup
    BY <1>3, <2>1, OwnerAlone DEF LifeInv, TypeOK
  <2>3. Runs' = {}
    BY <1>1, <1>3, <2>2, OwnerAlone DEF Runs
  <2>4. Contract!Wither
    BY <2>2, <2>3 DEF Contract!Wither, Runs
  <2> QED
    BY <2>4 DEF Contract!Next
<1> QED
  BY <1>2, <1>3

\* Every step of the service is a step of the contract or changes nothing in it.
LEMMA StepRefines ==
  ASSUME LifeInv, LifeInv', [Next]_vars
  PROVE  [Contract!Next]_(Contract!vars)
<1> USE DEF Runs, Contract!vars
<1>0. ASSUME NEW i \in Instances, NEW k, TaskEnds(i, k)
       PROVE  [Contract!Next]_(Contract!vars)
  <2>1. /\ UNCHANGED <<phase, running, pc, snap>>
        /\ alive' = [alive EXCEPT ![i] = alive[i] \ {k}]
    BY <1>0 DEF TaskEnds, RunsOn
  <2>2. Live(i)' => Live(i)
    BY <2>1 DEF Live, LifeInv, TypeOK
  <2> QED
    BY <2>1, <2>2, TaskEndRefines
<1>1. ASSUME UNCHANGED <<phase, alive>> PROVE UNCHANGED Contract!vars
  BY <1>1 DEF Live
<1>2. ASSUME NEW c \in Callers, UpdateConfig(c) \/ DropCaller(c)
      PROVE  UNCHANGED <<phase, alive>>
  BY <1>2 DEF UpdateConfig, DropCaller, runVars
<1>3. ASSUME NEW c \in Callers, BeginStart(c)
      PROVE  [Contract!Next]_(Contract!vars)
  <2>1. phase = "stopped" => Runs = {}
    BY OwnerAlone
  <2> QED
    BY <1>1, <1>3, <2>1
       DEF BeginStart, AdmittedPhase, runVars, Live, Contract!Admit, Contract!Next
<1>4. ASSUME NEW c \in Callers, ReadConfig(c) \/ Bind(c)
      PROVE  [Contract!Next]_(Contract!vars)
  <2>1. phase = "starting" /\ Runs = {}
    BY <1>4, NothingBuilt DEF ReadConfig, Bind
  <2>2. alive' = alive /\ (phase' = phase \/ phase' = "stopped")
    BY <1>4 DEF ReadConfig, Bind, Rollback, runVars
  <2> QED
    BY <1>1, <2>1, <2>2 DEF Live, Contract!Reject, Contract!Next
<1>5. ASSUME NEW c \in Callers, Spawn(c) PROVE Contract!Launch
  <2>1. phase = "starting" /\ Runs = {} /\ phase' = phase
    BY <1>5, NothingBuilt DEF Spawn
  <2>2. PICK i \in Instances : alive' = [alive EXCEPT ![i] = Managed]
    BY <1>5 DEF Spawn
  <2>3. Runs' = {i}
    <3>1. Live(i)'
      BY <2>2 DEF Live, Managed, LifeInv, TypeOK
    <3>2. \A j \in Instances \ {i} : Live(j)' = Live(j)
      BY <2>2 DEF Live, LifeInv, TypeOK
    <3> QED
      BY <2>1, <3>1, <3>2
  <2> QED
    BY <2>1, <2>3 DEF Contract!Launch
<1>6. ASSUME NEW c \in Callers, Activate(c) PROVE Contract!Serve
  BY <1>6 DEF Activate, runVars, Live, LifeInv, OneBuilder, Building,
              Contract!Serve
<1>7. ASSUME NEW c \in Callers, Stop(c) PROVE Contract!Halt
  BY <1>7 DEF Stop, Live, Contract!Halt
<1>8. CASE BudgetSpent
  BY <1>1, <1>8 DEF BudgetSpent, runVars
<1>9. CASE CleanupDone
  <2>1. phase = "stopping" /\ Runs = {}
    BY <1>9, OwnerAlone DEF CleanupDone, HandlesEnded, Waited, Live, LifeInv,
                            OneBuilder
  <2>2. Contract!Settle
    BY <1>9, <2>1 DEF CleanupDone, runVars, Live, Contract!Settle
  <2> QED
    BY <2>2 DEF Contract!Next
<1>10. ASSUME NEW i \in Instances, NEW k \in Managed, TaskReturns(i, k)
       PROVE  [Contract!Next]_(Contract!vars)
  BY <1>10, <1>0 DEF TaskReturns
<1>11. ASSUME NEW k \in Managed, AbortLands(k)
       PROVE  [Contract!Next]_(Contract!vars)
  <2>1. cleanup \in Instances
    BY <1>11 DEF AbortLands, LifeInv, TypeOK
  <2> QED
    BY <1>11, <1>0, <2>1 DEF AbortLands
<1>12. ASSUME NEW i \in Instances,
              ForwardFails(i) \/ RecordFault(i) \/ FailedTaskEnds(i)
       PROVE  [Contract!Next]_(Contract!vars)
  <2>1. CASE FailedTaskEnds(i)
    BY <1>0, <2>1 DEF FailedTaskEnds
  <2>2. CASE ForwardFails(i) \/ RecordFault(i)
    BY <1>1, <2>2 DEF ForwardFails, RecordFault, RunsOn
  <2> QED
    BY <1>12, <2>1, <2>2
<1>13. ASSUME NEW i \in Instances,
              SpawnDetached(i) \/ \E k \in Detached : DetachedEnds(i, k)
       PROVE  [Contract!Next]_(Contract!vars)
  <2>1. phase' = phase /\ Runs' = Runs
    BY <1>13 DEF SpawnDetached, DetachedEnds, TaskEnds, RunsOn, Live, Managed,
                 Detached, LifeInv, TypeOK
  <2> QED
    BY <2>1
<1>14. CASE UNCHANGED vars
  BY <1>1, <1>14 DEF vars, runVars
<1> QED
  BY <1>1, <1>2, <1>3, <1>4, <1>5, <1>6, <1>7, <1>8, <1>9, <1>10, <1>11, <1>12,
     <1>13, <1>14 DEF Next, Caller, Contract!Next

\* The service implements the abstract life cycle: the phases follow each other
\* in order, and a new run is admitted only after the tasks of the last one have
\* ended (service.rs:299-500).
THEOREM LifecycleImplemented == Spec => ImplementsLifecycle
<1>1. Init => Contract!Init
  BY DEF Init, Live, Contract!Init
<1>2. LifeInv /\ LifeInv' /\ [Next]_vars => [Contract!Next]_(Contract!vars)
  BY StepRefines
<1> QED
  BY <1>1, <1>2, LifeInvariant, PTL DEF Spec, ImplementsLifecycle, Contract!Spec
=============================================================================
