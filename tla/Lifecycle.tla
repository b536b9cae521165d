----------------------------- MODULE Lifecycle -----------------------------
(* What the service promises of its life cycle (src/core/service.rs): the    *)
(* four phases follow each other in order, at most one run owns tasks, and   *)
(* a new run is admitted only after the tasks of the last one have ended.    *)
CONSTANT Instances
VARIABLES phase, live  \* live: the runs that own at least one managed task
vars == <<phase, live>>

Init == phase = "stopped" /\ live = {}

Admit == phase = "stopped" /\ live = {} /\ phase' = "starting" /\ UNCHANGED live
Reject == phase = "starting" /\ live = {} /\ phase' = "stopped" /\ UNCHANGED live
Launch == /\ phase = "starting" /\ live = {}
          /\ \E i \in Instances : live' = {i}
          /\ UNCHANGED phase
Serve == phase = "starting" /\ phase' = "running" /\ UNCHANGED live
Halt == phase = "running" /\ phase' = "stopping" /\ UNCHANGED live
Wither == phase = "stopping" /\ live' = {} /\ UNCHANGED phase
Settle == /\ phase = "stopping" /\ live = {}
          /\ phase' = "stopped" /\ UNCHANGED live

Next == Admit \/ Reject \/ Launch \/ Serve \/ Halt \/ Wither \/ Settle
Spec == Init /\ [][Next]_vars
=============================================================================
