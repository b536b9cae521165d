------------------------------ MODULE Forward ------------------------------
(***************************************************************************)
(* The forwarding side (src/core/forward.rs): the accept loop, the task of *)
(* each accepted connection, the registry of live connections and          *)
(* shutdown_all, which the stop of the service calls from another thread   *)
(* while the loop may still accept and tasks run.  A transfer direction    *)
(* runs in a blocking thread that an abort cannot reach: only the shutdown *)
(* of its sockets ends it.                                                 *)
(* Which backend select() returns, and what eviction does with it, is left *)
(* open here: BackendPools models the load balancer.                       *)
(***************************************************************************)
EXTENDS Integers, FiniteSets

CONSTANTS
  Conns, Backends,
  MaxClosed  \* bound: how many sockets are closed when a peer closes the last

ASSUME ForwardAssumption == IsFiniteSet(Conns) /\ IsFiniteSet(Backends)
                            /\ MaxClosed \in Nat

Sides == {"client", "server"}
Directions == {"up", "down"}
Running == {"wait", "copying", "blocked"}
Source(d) == IF d = "up" THEN "client" ELSE "server"
Sink(d) == IF d = "up" THEN "server" ELSE "client"

VARIABLES
  loop,         \* where run_forward is, and the connection it handles
  arrived,      \* the connections accept() has returned
  stopping,     \* how far stop() has come: the token, then shutdown_all
  entries,      \* the ids in ConnectionRegistry::entries
  held,         \* what an entry holds: "client", "server", "handle"
  active,       \* ConnectionRegistry::active
  taken,        \* what shutdown_all has moved out of the entries
  task,         \* where the connection's task is
  aborted,      \* the tasks whose JoinHandle has been aborted
  chosen,       \* handle_client's backends: counted and not given back; the
                \* winner once there is one.  What an abort leaves counted stays
  connections,  \* Backend::connections
  dir,          \* the two transfer directions
  shut          \* the sockets shut down, or closed by their peer

loopVars == <<loop, arrived>>
registryVars == <<entries, held, active>>
stopVars == <<stopping, taken>>
taskVars == <<task, chosen, connections, dir>>
vars == <<loopVars, registryVars, stopVars, taskVars, aborted, shut>>

At(l, c) == loop = [at |-> l, conn |-> c]
Goto(l, c) == loop' = [at |-> l, conn |-> c]
Idle == "none"
Waiting(l) == At(l, Idle)
Live(c) == task[c] \notin {"none", "ended"}
\* The service's token, and ConnectionRegistry::shutting_down.
Cancelled == stopping # "no"
ShuttingDown == stopping \in {"flagged", "taken", "shut", "done"}
InUse(c) == Live(c) \/ \E d \in Directions : dir[c][d] \in Running
OtherTasks == UNCHANGED <<loopVars, stopVars, aborted>>

Init ==
  /\ loop = [at |-> "accept", conn |-> Idle]
  /\ arrived = {} /\ entries = {} /\ aborted = {} /\ shut = {} /\ taken = {}
  /\ stopping = "no"
  /\ held = [c \in Conns |-> {}]
  /\ active = 0
  /\ task = [c \in Conns |-> "none"]
  /\ chosen = [c \in Conns |-> {}]
  /\ connections = [b \in Backends |-> 0]
  /\ dir = [c \in Conns |-> [d \in Directions |-> "none"]]

----------------------------------------------------------------------------
(* The accept loop *)

\* accept() returned a client; register() drops it if its descriptor cannot
\* be duplicated.
Accept(c) ==
  /\ Waiting("accept") /\ c \notin arrived
  /\ arrived' = arrived \cup {c}
  /\ Goto("insert", c) \/ (Goto("accept", Idle))
  /\ UNCHANGED <<registryVars, stopVars, taskVars, aborted, shut>>

Insert(c) ==
  /\ At("insert", c) /\ Goto("count", c)
  /\ entries' = entries \cup {c}
  /\ held' = [held EXCEPT ![c] = {"client"}]
  /\ UNCHANGED <<arrived, active, stopVars, taskVars, aborted, shut>>

Count(c) ==
  /\ At("count", c) /\ Goto("spawn", c)
  /\ active' = active + 1
  /\ UNCHANGED <<arrived, entries, held, stopVars, taskVars, aborted, shut>>

Spawn(c) ==
  /\ At("spawn", c) /\ Goto("handle", c)
  /\ task' = [task EXCEPT ![c] = "spawned"]
  /\ UNCHANGED <<arrived, registryVars, stopVars, chosen, connections, dir,
                 aborted, shut>>

\* Mutant: the flag is not consulted.
Unregistered(c) == c \notin entries
\* The handle is aborted at once: the task is gone, or the registry is being
\* shut down.
Refused(c) == c \notin entries \/ ShuttingDown

SetHandle(c) ==
  /\ At("handle", c) /\ Goto("accept", Idle)
  /\ aborted' = IF Refused(c) THEN aborted \cup {c} ELSE aborted
  /\ held' = IF Refused(c) THEN held
             ELSE [held EXCEPT ![c] = @ \cup {"handle"}]
  /\ UNCHANGED <<arrived, entries, active, stopVars, taskVars, shut>>

\* A failed accept ends the loop (fatal, or failing for too long) or backs off.
AcceptFails ==
  /\ Waiting("accept")
  /\ Goto("backoff", Idle) \/ Goto("ended", Idle)
  /\ UNCHANGED <<arrived, registryVars, stopVars, taskVars, aborted, shut>>

BackoffElapsed ==
  /\ Waiting("backoff") /\ Goto("accept", Idle)
  /\ UNCHANGED <<arrived, registryVars, stopVars, taskVars, aborted, shut>>

\* Both the select! and the backoff listen to the token; while accept() is
\* ready as well, either branch may win.
LoopCancelled ==
  /\ Cancelled /\ (Waiting("accept") \/ Waiting("backoff"))
  /\ Goto("ended", Idle)
  /\ UNCHANGED <<arrived, registryVars, stopVars, taskVars, aborted, shut>>

----------------------------------------------------------------------------
(* stop(): the token first, then shutdown_all *)

Cancel ==
  /\ stopping = "no" /\ stopping' = "cancelled"
  /\ UNCHANGED <<taken, loopVars, registryVars, taskVars, aborted, shut>>

\* The flag is raised before the entries are locked.
RaiseFlag ==
  /\ stopping = "cancelled" /\ stopping' = "flagged"
  /\ UNCHANGED <<taken, loopVars, registryVars, taskVars, aborted, shut>>

\* Under the lock: ownership of sockets and handles moves out, nothing else.
Take ==
  /\ stopping = "flagged"
  /\ stopping' = "taken"
  /\ taken' = {p \in entries \X {"client", "server", "handle"} :
                 p[2] \in held[p[1]]}
  /\ held' = [c \in Conns |-> {}]
  /\ UNCHANGED <<entries, active, loopVars, taskVars, aborted, shut>>

\* Outside the lock: the sockets first (closed ones no longer matter) ...
ShutSockets ==
  /\ stopping = "taken" /\ stopping' = "shut"
  /\ shut' = shut \cup {p \in taken : p[2] \in Sides /\ InUse(p[1])}
  /\ UNCHANGED <<taken, loopVars, registryVars, taskVars, aborted>>

\* ... then the handles.
AbortHandles ==
  /\ stopping = "shut" /\ stopping' = "done"
  /\ aborted' = aborted \cup {c \in Conns : <<c, "handle">> \in taken}
  /\ taken' = {}
  /\ UNCHANGED <<loopVars, registryVars, taskVars, shut>>

----------------------------------------------------------------------------
(* The connection's task *)

\* RegistryGuard: dropped with the future, whether it returned, panicked or
\* was aborted.
Unregister(c) ==
  /\ entries' = entries \ {c}
  /\ held' = [held EXCEPT ![c] = {}]
  /\ active' = IF c \in entries THEN active - 1 ELSE active

EndTask(c) == task' = [task EXCEPT ![c] = "ended"] /\ Unregister(c)

\* Mutant: the guard and the early return both release.
TwiceFewer(n) == n - 2
\* release(): one connection fewer.
OneFewer(n) == n - 1

Release(bs) ==
  connections' = [b \in Backends |-> IF b \in bs THEN OneFewer(connections[b])
                                    ELSE connections[b]]

FirstPoll(c) ==
  /\ task[c] = "spawned"
  /\ task' = [task EXCEPT ![c] = "peek"]
  /\ OtherTasks /\ UNCHANGED <<registryVars, chosen, connections, dir, shut>>

\* The first byte tells TLS from HTTP; end of stream, an error and the
\* timeout end the task.
Peeked(c) ==
  /\ task[c] = "peek"
  /\ task' = [task EXCEPT ![c] = "select"]
  /\ OtherTasks /\ UNCHANGED <<registryVars, chosen, connections, dir, shut>>

PeekFails(c) ==
  /\ task[c] = "peek" /\ EndTask(c)
  /\ OtherTasks /\ UNCHANGED <<chosen, connections, dir, shut>>

\* select() counts the connection on the backend it returns.
SelectNew(c, b) ==
  /\ task[c] = "select" /\ b \notin chosen[c] /\ Cardinality(chosen[c]) < 2
  /\ chosen' = [chosen EXCEPT ![c] = @ \cup {b}]
  /\ connections' = [connections EXCEPT ![b] = @ + 1]
  /\ OtherTasks /\ UNCHANGED <<registryVars, task, dir, shut>>

\* The same backend twice: the second count is released.
ReleasedDuplicate(n) == n + 1 - 1

SelectSame(c, b) ==
  /\ task[c] = "select" /\ b \in chosen[c] /\ Cardinality(chosen[c]) < 2
  /\ connections' = [connections EXCEPT ![b] = ReleasedDuplicate(@)]
  /\ task' = [task EXCEPT ![c] = "race"]
  /\ OtherTasks /\ UNCHANGED <<registryVars, chosen, dir, shut>>

\* Two candidates, or select() found no second one.
SelectDone(c) ==
  /\ task[c] = "select" /\ chosen[c] # {}
  /\ task' = [task EXCEPT ![c] = "race"]
  /\ OtherTasks /\ UNCHANGED <<registryVars, chosen, connections, dir, shut>>

NoBackend(c) ==
  /\ task[c] = "select" /\ chosen[c] = {} /\ EndTask(c)
  /\ OtherTasks /\ UNCHANGED <<chosen, connections, dir, shut>>

\* Mutant: every candidate is released, the winner too.
Candidates(c, winner) == chosen[c]
\* The candidates that lost the race give their count back.
Losers(c, winner) == chosen[c] \ {winner}

RaceWon(c, winner) ==
  /\ task[c] = "race" /\ winner \in chosen[c]
  /\ Release(Losers(c, winner))
  /\ chosen' = [chosen EXCEPT ![c] = {winner}]
  /\ task' = [task EXCEPT ![c] = "attach"]
  /\ OtherTasks /\ UNCHANGED <<registryVars, dir, shut>>

RaceLost(c) ==
  /\ task[c] = "race" /\ Release(chosen[c])
  /\ chosen' = [chosen EXCEPT ![c] = {}]
  /\ EndTask(c)
  /\ OtherTasks /\ UNCHANGED <<dir, shut>>

\* set_nodelay failed: BackendGuard releases the winner on the way out.
SetupFails(c) ==
  /\ task[c] = "attach" /\ Release(chosen[c])
  /\ chosen' = [chosen EXCEPT ![c] = {}]
  /\ EndTask(c)
  /\ OtherTasks /\ UNCHANGED <<dir, shut>>

\* attach_server gives up silently when the descriptor cannot be duplicated.
AttachServer(c) ==
  /\ task[c] = "attach"
  /\ \/ held' = IF c \in entries THEN [held EXCEPT ![c] = @ \cup {"server"}]
                ELSE held
     \/ UNCHANGED held
  /\ task' = [task EXCEPT ![c] = "transfer"]
  /\ dir' = [dir EXCEPT ![c] = [d \in Directions |-> "wait"]]
  /\ OtherTasks /\ UNCHANGED <<entries, active, chosen, connections, shut>>

\* The source became readable in time: the copy moves to a blocking thread,
\* which finds the bytes, or the end of the stream, at once.
StartThread(c, d) ==
  /\ task[c] = "transfer" /\ dir[c][d] = "wait"
  /\ dir' = [dir EXCEPT ![c][d] = "copying"]
  /\ OtherTasks /\ UNCHANGED <<registryVars, task, chosen, connections, shut>>

ReadableTimeout(c, d) ==
  /\ task[c] = "transfer" /\ dir[c][d] = "wait"
  /\ dir' = [dir EXCEPT ![c][d] = "done"]
  /\ OtherTasks /\ UNCHANGED <<registryVars, task, chosen, connections, shut>>

\* Nothing uses the sockets of c any more: what is known of them is dropped.
Forget(c) == shut' = shut \ ({c} \X Sides)

\* join! is complete: the backend is given back, then the task ends.
TransferDone(c) ==
  /\ task[c] = "transfer" /\ \A d \in Directions : dir[c][d] = "done"
  /\ Release(chosen[c])
  /\ chosen' = [chosen EXCEPT ![c] = {}]
  /\ EndTask(c) /\ Forget(c)
  /\ OtherTasks /\ UNCHANGED dir

\* Mutant: the guard is made inside the future, so that a task aborted before
\* its first poll has none.
Polled(c) == task[c] # "spawned"
\* The guard is made before the task is spawned.
Guarded(c) == TRUE

\* Mutant: the guard of the winner is made after the transfer.
NothingGuarded(c) == {}
\* BackendGuard, dropped with the future, exists only once the race is won.
WinnerGuarded(c) == IF task[c] = "transfer" THEN chosen[c] ELSE {}

\* An abort lands where the task awaits; a direction that still waits is dropped,
\* a thread runs on.
AbortLands(c) ==
  /\ c \in aborted /\ task[c] \in {"spawned", "peek", "race", "transfer"}
  /\ task' = [task EXCEPT ![c] = "ended"]
  /\ IF Guarded(c) THEN Unregister(c) ELSE UNCHANGED registryVars
  /\ Release(WinnerGuarded(c))
  /\ chosen' = [chosen EXCEPT ![c] = @ \ WinnerGuarded(c)]
  /\ dir' = [dir EXCEPT ![c] =
               [d \in Directions |-> IF @[d] = "wait" THEN "done" ELSE @[d]]]
  /\ OtherTasks /\ UNCHANGED shut

----------------------------------------------------------------------------
(* Blocking threads and peers *)

\* What has arrived is written on, and the thread blocks on its source; with
\* either socket closed it returns instead.
Copied(c, d) ==
  /\ dir[c][d] = "copying"
  /\ dir' = [dir EXCEPT ![c][d] =
               IF shut \cap {<<c, Source(d)>>, <<c, Sink(d)>>} = {}
               THEN "blocked" ELSE "done"]
  /\ OtherTasks /\ UNCHANGED <<registryVars, task, chosen, connections, shut>>

\* The source reads as ended.
ThreadEnds(c, d) ==
  /\ dir[c][d] = "blocked" /\ <<c, Source(d)>> \in shut
  /\ dir' = [dir EXCEPT ![c][d] = "done"]
  /\ OtherTasks /\ UNCHANGED <<registryVars, task, chosen, connections, shut>>

\* Data came from a live source, and the write to a closed sink failed.
WriteFails(c, d) ==
  /\ dir[c][d] = "blocked" /\ <<c, Sink(d)>> \in shut
  /\ dir' = [dir EXCEPT ![c][d] = "done"]
  /\ OtherTasks /\ UNCHANGED <<registryVars, task, chosen, connections, shut>>

\* A peer closes while its socket is still in use.
PeerCloses(c, side) ==
  /\ <<c, side>> \notin shut /\ Cardinality(shut) < MaxClosed
  /\ \E d \in Directions : dir[c][d] \in Running
  /\ shut' = shut \cup {<<c, side>>}
  /\ OtherTasks /\ UNCHANGED <<registryVars, taskVars>>

LoopStep ==
  \/ \E c \in Conns : Insert(c) \/ Count(c) \/ Spawn(c) \/ SetHandle(c)
  \/ BackoffElapsed \/ LoopCancelled
StopStep == RaiseFlag \/ Take \/ ShutSockets \/ AbortHandles
TaskStep(c) ==
  \/ FirstPoll(c) \/ Peeked(c) \/ PeekFails(c) \/ NoBackend(c)
  \/ \E b \in Backends : SelectNew(c, b) \/ SelectSame(c, b) \/ RaceWon(c, b)
  \/ SelectDone(c) \/ RaceLost(c) \/ SetupFails(c) \/ AttachServer(c)
  \/ \E d \in Directions : StartThread(c, d) \/ ReadableTimeout(c, d)
  \/ TransferDone(c)
ThreadStep(c) == \E d \in Directions : Copied(c, d) \/ ThreadEnds(c, d)

Next ==
  \/ (\E c \in Conns : Accept(c)) \/ AcceptFails \/ LoopStep
  \/ Cancel \/ StopStep
  \/ \E c \in Conns : TaskStep(c) \/ AbortLands(c) \/ ThreadStep(c)
  \/ \E c \in Conns, d \in Directions : WriteFails(c, d)
  \/ \E c \in Conns, side \in Sides : PeerCloses(c, side)

Spec == Init /\ [][Next]_vars

----------------------------------------------------------------------------
(* Properties *)

TypeOK ==
  /\ loop \in [at : {"accept", "insert", "count", "spawn", "handle", "backoff",
                     "ended"}, conn : Conns \cup {Idle}]
  /\ arrived \subseteq Conns /\ entries \subseteq arrived
  /\ aborted \subseteq arrived
  /\ stopping \in {"no", "cancelled", "flagged", "taken", "shut", "done"}
  /\ held \in [Conns -> SUBSET {"client", "server", "handle"}]
  /\ taken \subseteq Conns \X {"client", "server", "handle"}
  /\ active \in 0 .. Cardinality(Conns)
  /\ task \in [Conns -> {"none", "spawned", "peek", "select", "race", "attach",
                         "transfer", "ended"}]
  /\ chosen \in [Conns -> SUBSET Backends]
  /\ connections \in [Backends -> 0 .. Cardinality(Conns)]
  /\ dir \in [Conns -> [Directions -> {"none", "wait", "copying", "blocked",
                                     "done"}]]
  /\ shut \subseteq Conns \X Sides

\* The registry holds exactly the connections whose task runs, and the one the
\* loop is about to spawn; active_count() agrees with it (forward.rs:73-86,
\* 111-115).
RegistryExact ==
  /\ \A c \in Conns :
       c \in entries <=> Live(c) \/ At("count", c) \/ At("spawn", c)
  /\ active = Cardinality(entries) -
                (IF loop.at = "count" THEN 1 ELSE 0)

\* A backend's count is the number of connections that have selected it and not
\* given it back, and a task that has ended has given back everything, on every
\* path, the early returns and an abort in the transfer included
\* (forward.rs:260-272, 302-382): only an abort in the race, before BackendGuard
\* exists and a direction begins, leaves its candidates counted.
QuotaPaired ==
  /\ \A b \in Backends :
       connections[b] = Cardinality({c \in Conns : b \in chosen[c]})
  /\ \A c \in Conns :
       task[c] = "ended" /\ chosen[c] # {} =>
         c \in aborted /\ \A d \in Directions : dir[c][d] = "none"

\* Once shutdown_all has returned, no task escapes: each one has been aborted
\* or the loop is about to hand its handle to set_handle, which will
\* (forward.rs:95-109).
NoTaskEscapes ==
  stopping = "done" =>
    \A c \in Conns :
      Live(c) => c \in aborted \/ At("handle", c)

\* Once shutdown_all has returned and a connection's task has ended, no
\* blocking thread is left waiting on a socket nobody has shut down
\* (forward.rs:51-53, 121-124).
NoThreadEscapes ==
  stopping = "done" /\ loop.at = "ended" =>
    \A c \in Conns, d \in Directions :
      task[c] = "ended" /\ dir[c][d] = "blocked" => <<c, Source(d)>> \in shut
=============================================================================
