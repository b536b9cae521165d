---------------------------- MODULE Forward_proofs ----------------------------
(***************************************************************************)
(* The registry, the backends' counts and shutdown_all, for any number of  *)
(* connections and backends.                                               *)
(***************************************************************************)
EXTENDS Forward, FiniteSetTheorems, TLAPS

\* From register() to set_handle() the loop has one connection in hand; its
\* task exists from spawn() on, and no other connection waits for one.
Placed ==
  /\ loop.at \in {"insert", "count", "spawn", "handle"} => loop.conn \in arrived
  /\ \A c \in Conns :
       /\ task[c] # "none" =>
            c \in arrived /\ loop # [at |-> "insert", conn |-> c]
                          /\ ~At("count", c) /\ ~At("spawn", c)
       /\ At("handle", c) => task[c] # "none"
       /\ task[c] \in {"none", "spawned", "peek"} => chosen[c] = {}
  /\ taken \subseteq arrived \X {"client", "server", "handle"}

\* Who has selected a backend and not given it back.
Users(b) == {c \in Conns : b \in chosen[c]}

Counted == \A b \in Backends : connections[b] = Cardinality(Users(b))

\* A task has no direction before its transfer; what it leaves counted, it leaves
\* in the race.
Before(c) ==
  task[c] \in {"none", "spawned", "peek", "select", "race", "attach"}

GivenBack ==
  \A c \in Conns :
    /\ Before(c) => \A d \in Directions : dir[c][d] = "none"
    /\ task[c] = "ended" /\ chosen[c] # {} =>
         c \in aborted /\ \A d \in Directions : dir[c][d] = "none"

\* Where shutdown_all finds the handle of a task, as far as it has come.
Reached(c) ==
  \/ c \in aborted
  \/ stopping \in {"no", "cancelled", "flagged"} /\ "handle" \in held[c]
  \/ stopping \in {"taken", "shut"} /\ <<c, "handle">> \in taken

EveryTaskReached ==
  \A c \in Conns : Live(c) => Reached(c) \/ At("handle", c)

ForwardInv ==
  TypeOK /\ Placed /\ RegistryExact /\ Counted /\ GivenBack /\ EveryTaskReached

----------------------------------------------------------------------------
(* What the actions of a connection's task have in common *)

\* The task goes on, or its threads and peers move: the registry stays.
Goes(c) ==
  \/ FirstPoll(c) \/ Peeked(c) \/ SelectDone(c) \/ AttachServer(c)
  \/ \E b \in Backends : SelectNew(c, b) \/ SelectSame(c, b) \/ RaceWon(c, b)
  \/ \E d \in Directions : StartThread(c, d) \/ ReadableTimeout(c, d)

Ends(c) ==
  \/ PeekFails(c) \/ NoBackend(c) \/ RaceLost(c) \/ SetupFails(c)
  \/ TransferDone(c) \/ AbortLands(c)

Threads(c) ==
  \E d \in Directions : Copied(c, d) \/ ThreadEnds(c, d) \/ WriteFails(c, d)

\* Every step is one of the loop, of stop(), of a task, or of its sockets.
LEMMA NextCases ==
  ASSUME [Next]_vars
  PROVE  \/ \E c \in Conns : \/ Accept(c) \/ Insert(c) \/ Count(c) \/ Spawn(c)
                              \/ SetHandle(c) \/ Goes(c) \/ Ends(c) \/ Threads(c)
                              \/ \E side \in Sides : PeerCloses(c, side)
         \/ AcceptFails \/ BackoffElapsed \/ LoopCancelled
         \/ Cancel \/ RaiseFlag \/ Take \/ ShutSockets \/ AbortHandles
         \/ UNCHANGED vars
BY DEF Next, LoopStep, StopStep, TaskStep, ThreadStep, Goes, Ends, Threads

\* The task of c runs before and after the step, and c alone is touched.
LEMMA GoesEffect ==
  ASSUME TypeOK, NEW c \in Conns, Goes(c)
  PROVE  /\ Live(c) /\ Live(c)'
         /\ UNCHANGED <<loopVars, stopVars, aborted, entries, active>>
         /\ \A k \in Conns : "handle" \in held[k] => "handle" \in held'[k]
         /\ \A k \in Conns \ {c} : task'[k] = task[k] /\ chosen'[k] = chosen[k]
<1> USE DEF TypeOK, Live, OtherTasks, registryVars
<1>1. CASE FirstPoll(c) \/ Peeked(c) \/ SelectDone(c)
  BY <1>1 DEF FirstPoll, Peeked, SelectDone
<1>2. CASE AttachServer(c)
  BY <1>2 DEF AttachServer
<1>3. ASSUME NEW b \in Backends,
             SelectNew(c, b) \/ SelectSame(c, b) \/ RaceWon(c, b)
      PROVE  /\ task[c] \in {"select", "race"}
             /\ task'[c] \in {"select", "race", "attach"}
             /\ OtherTasks /\ UNCHANGED registryVars
             /\ \A k \in Conns \ {c} : task'[k] = task[k]
                                      /\ chosen'[k] = chosen[k]
  BY <1>3 DEF SelectNew, SelectSame, RaceWon
<1>4. ASSUME NEW d \in Directions, StartThread(c, d) \/ ReadableTimeout(c, d)
      PROVE  /\ task[c] = "transfer"
             /\ OtherTasks /\ UNCHANGED <<registryVars, task, chosen>>
  BY <1>4 DEF StartThread, ReadableTimeout
<1> QED
  BY <1>1, <1>2, <1>3, <1>4 DEF Goes

\* The task of c ends, and its RegistryGuard is dropped.
LEMMA EndsEffect ==
  ASSUME TypeOK, NEW c \in Conns, Ends(c)
  PROVE  /\ Live(c) /\ task' = [task EXCEPT ![c] = "ended"]
         /\ Unregister(c) /\ OtherTasks
         /\ \A k \in Conns \ {c} : chosen'[k] = chosen[k]
BY DEF TypeOK, Live, Ends, PeekFails, NoBackend, RaceLost, SetupFails,
       TransferDone, AbortLands, EndTask, Guarded

----------------------------------------------------------------------------
(* The registry *)

\* An entry is counted one step after it is inserted.
Uncounted == IF loop.at = "count" THEN 1 ELSE 0

\* The entries are a finite set.
LEMMA EntriesFinite ==
  ASSUME TypeOK
  PROVE  IsFiniteSet(entries) /\ Cardinality(entries) \in 0 .. Cardinality(Conns)
<1>1. IsFiniteSet(Conns) /\ entries \in SUBSET Conns
  BY ForwardAssumption DEF TypeOK
<1>2. IsFiniteSet(entries) /\ Cardinality(entries) <= Cardinality(Conns)
  BY <1>1, FS_Subset
<1> QED
  BY <1>1, <1>2, FS_CardinalityType

\* The loop's place, the tasks and the entries stay in step.
LEMMA RegistryStep ==
  ASSUME TypeOK, Placed, RegistryExact, [Next]_vars
  PROVE  RegistryExact'
<1> USE DEF TypeOK, Placed, RegistryExact, Live, At, Goto, Waiting
<1>1. ASSUME NEW c \in Conns, Accept(c) PROVE RegistryExact'
  <2>1. loop.at = "accept" /\ loop'.at \in {"accept", "insert"}
    BY <1>1 DEF Accept
  <2>2. UNCHANGED <<entries, active, task>>
    BY <1>1 DEF Accept, registryVars, taskVars
  <2> QED
    BY <2>1, <2>2
<1>2. ASSUME NEW c \in Conns, Insert(c) PROVE RegistryExact'
  <2>1. /\ c \notin entries /\ entries' = entries \cup {c}
        /\ active' = active /\ loop.at = "insert" /\ loop'.at = "count"
    BY <1>2 DEF Insert
  <2>2. Cardinality(entries') = Cardinality(entries) + 1
    BY <2>1, EntriesFinite, FS_AddElement
  <2>3. active' = Cardinality(entries') - Uncounted'
    BY <2>1, <2>2, EntriesFinite DEF Uncounted
  <2> QED
    BY <1>2, <2>3 DEF Insert, taskVars, Uncounted
<1>3. ASSUME NEW c \in Conns, Count(c) \/ Spawn(c) PROVE RegistryExact'
  BY <1>3, EntriesFinite DEF Count, Spawn, taskVars, registryVars
<1>4. ASSUME NEW c \in Conns, SetHandle(c) PROVE RegistryExact'
  BY <1>4 DEF SetHandle, taskVars
<1>5. CASE AcceptFails \/ BackoffElapsed \/ LoopCancelled
  BY <1>5 DEF AcceptFails, BackoffElapsed, LoopCancelled, registryVars, taskVars
<1>6. CASE Cancel \/ RaiseFlag \/ Take \/ ShutSockets \/ AbortHandles
  BY <1>6 DEF Cancel, RaiseFlag, Take, ShutSockets, AbortHandles, loopVars,
              registryVars, taskVars
<1>7. ASSUME NEW c \in Conns, Goes(c) PROVE RegistryExact'
  BY <1>7, GoesEffect DEF loopVars
<1>8. ASSUME NEW c \in Conns, Ends(c) PROVE RegistryExact'
  <2>1. /\ c \in entries /\ entries' = entries \ {c} /\ active' = active - 1
        /\ UNCHANGED loop
    BY <1>8, EndsEffect DEF Unregister, OtherTasks, loopVars
  <2>2. Cardinality(entries') = Cardinality(entries) - 1
    BY <2>1, EntriesFinite, FS_RemoveElement
  <2>3. active' = Cardinality(entries') - Uncounted'
    BY <2>1, <2>2, EntriesFinite DEF Uncounted
  <2> QED
    BY <1>8, <2>1, <2>3, EndsEffect DEF Uncounted
<1>9. ASSUME NEW c \in Conns, Threads(c) PROVE RegistryExact'
  BY <1>9 DEF Threads, Copied, ThreadEnds, WriteFails, OtherTasks, loopVars,
              registryVars
<1>10. ASSUME NEW c \in Conns, NEW side \in Sides, PeerCloses(c, side)
       PROVE RegistryExact'
  BY <1>10 DEF PeerCloses, OtherTasks, loopVars, registryVars, taskVars
<1>11. CASE UNCHANGED vars
  BY <1>11 DEF vars, loopVars, registryVars, taskVars
<1> QED
  BY <1>1, <1>2, <1>3, <1>4, <1>5, <1>6, <1>7, <1>8, <1>9, <1>10, <1>11,
     NextCases

\* A task is spawned once, for the connection the loop has in hand.
LEMMA PlacedStep ==
  ASSUME TypeOK, Placed, RegistryExact, [Next]_vars
  PROVE  Placed'
<1> USE DEF TypeOK, Placed, RegistryExact, Live, At, Goto, Waiting
<1>1. ASSUME NEW c \in Conns, Accept(c) PROVE Placed'
  <2>1. /\ loop.at = "accept" /\ arrived' = arrived \cup {c} /\ c \notin arrived
        /\ UNCHANGED <<task, chosen, taken>>
    BY <1>1 DEF Accept, stopVars, taskVars
  <2>2. CASE loop' = [at |-> "insert", conn |-> c]
    BY <2>1, <2>2
  <2>3. CASE loop' = [at |-> "accept", conn |-> Idle]
    BY <2>1, <2>3
  <2> QED
    BY <1>1, <2>2, <2>3 DEF Accept
<1>2. ASSUME NEW c \in Conns, Insert(c) \/ Count(c) PROVE Placed'
  BY <1>2 DEF Insert, Count, stopVars, taskVars
<1>3. ASSUME NEW c \in Conns, Spawn(c) PROVE Placed'
  BY <1>3 DEF Spawn, stopVars
<1>4. ASSUME NEW c \in Conns, SetHandle(c) PROVE Placed'
  BY <1>4 DEF SetHandle, stopVars, taskVars
<1>5. CASE AcceptFails \/ BackoffElapsed \/ LoopCancelled
  BY <1>5 DEF AcceptFails, BackoffElapsed, LoopCancelled, stopVars, taskVars
<1>6. CASE Cancel \/ RaiseFlag \/ ShutSockets \/ AbortHandles
  BY <1>6 DEF Cancel, RaiseFlag, ShutSockets, AbortHandles, loopVars, taskVars
<1>7. CASE Take
  BY <1>7 DEF Take, loopVars, taskVars
<1>8. ASSUME NEW c \in Conns, Goes(c) PROVE Placed'
  <2>1. \/ task[c] = "spawned" /\ chosen' = chosen
        \/ task'[c] \in {"select", "race", "attach", "transfer"}
    BY <1>8 DEF Goes, FirstPoll, Peeked, SelectDone, AttachServer, SelectNew,
                SelectSame, RaceWon, StartThread, ReadableTimeout
  <2> QED
    BY <1>8, <2>1, GoesEffect DEF loopVars, stopVars
<1>9. ASSUME NEW c \in Conns, Ends(c) PROVE Placed'
  BY <1>9, EndsEffect, SMTT(40) DEF OtherTasks, loopVars, stopVars
<1>10. ASSUME NEW c \in Conns, Threads(c) PROVE Placed'
  BY <1>10 DEF Threads, Copied, ThreadEnds, WriteFails, OtherTasks, loopVars,
               stopVars
<1>11. ASSUME NEW c \in Conns, NEW side \in Sides, PeerCloses(c, side)
       PROVE Placed'
  BY <1>11 DEF PeerCloses, OtherTasks, loopVars, stopVars, taskVars
<1>12. CASE UNCHANGED vars
  BY <1>12 DEF vars, loopVars, stopVars, taskVars
<1> QED
  BY <1>1, <1>2, <1>3, <1>4, <1>5, <1>6, <1>7, <1>8, <1>9, <1>10, <1>11, <1>12,
     NextCases

----------------------------------------------------------------------------
(* shutdown_all *)

\* A handle is in an entry, or shutdown_all has it, or it has been aborted.
LEMMA ReachStep ==
  ASSUME TypeOK, Placed, RegistryExact, EveryTaskReached, [Next]_vars
  PROVE  EveryTaskReached'
<1> USE DEF TypeOK, Placed, RegistryExact, EveryTaskReached, Reached, Live, At,
            Goto, Waiting
<1>1. ASSUME NEW c \in Conns, Accept(c) PROVE EveryTaskReached'
  BY <1>1 DEF Accept, registryVars, stopVars, taskVars
<1>2. ASSUME NEW c \in Conns, Insert(c) \/ Count(c) PROVE EveryTaskReached'
  BY <1>2 DEF Insert, Count, stopVars, taskVars
<1>3. ASSUME NEW c \in Conns, Spawn(c) PROVE EveryTaskReached'
  BY <1>3 DEF Spawn, registryVars, stopVars
<1>4. ASSUME NEW c \in Conns, SetHandle(c) PROVE EveryTaskReached'
  <2>1. Reached(c)'
    BY <1>4 DEF SetHandle, Refused, ShuttingDown, stopVars
  <2> QED
    BY <1>4, <2>1 DEF SetHandle, stopVars, taskVars
<1>5. CASE AcceptFails \/ BackoffElapsed \/ LoopCancelled
  BY <1>5 DEF AcceptFails, BackoffElapsed, LoopCancelled, registryVars,
              stopVars, taskVars
<1>6. CASE Cancel \/ RaiseFlag
  BY <1>6 DEF Cancel, RaiseFlag, loopVars, registryVars, taskVars
<1>7. CASE Take
  \* A running task has an entry, so that its handle is among what is taken.
  BY <1>7 DEF Take, loopVars, taskVars
<1>8. CASE ShutSockets \/ AbortHandles
  BY <1>8 DEF ShutSockets, AbortHandles, loopVars, registryVars, taskVars
<1>9. ASSUME NEW c \in Conns, Goes(c) PROVE EveryTaskReached'
  BY <1>9, GoesEffect DEF loopVars, stopVars
<1>10. ASSUME NEW c \in Conns, Ends(c) PROVE EveryTaskReached'
  <2>1. /\ task' = [task EXCEPT ![c] = "ended"] /\ Unregister(c) /\ OtherTasks
    BY <1>10, EndsEffect
  <2>2. /\ task'[c] = "ended"
        /\ \A k \in Conns \ {c} : task'[k] = task[k] /\ held'[k] = held[k]
    BY <2>1 DEF Unregister
  <2>3. UNCHANGED <<loop, stopping, taken, aborted>>
    BY <2>1 DEF OtherTasks, loopVars, stopVars
  <2> QED
    BY <2>2, <2>3
<1>11. ASSUME NEW c \in Conns, Threads(c) PROVE EveryTaskReached'
  BY <1>11 DEF Threads, Copied, ThreadEnds, WriteFails, OtherTasks, loopVars,
               registryVars, stopVars
<1>12. ASSUME NEW c \in Conns, NEW side \in Sides, PeerCloses(c, side)
       PROVE EveryTaskReached'
  BY <1>12 DEF PeerCloses, OtherTasks, loopVars, registryVars, stopVars, taskVars
<1>13. CASE UNCHANGED vars
  BY <1>13 DEF vars, loopVars, registryVars, stopVars, taskVars
<1> QED
  BY <1>1, <1>2, <1>3, <1>4, <1>5, <1>6, <1>7, <1>8, <1>9, <1>10, <1>11, <1>12,
     <1>13, NextCases

----------------------------------------------------------------------------
(* The backends' counts *)

\* Two sets of connections that agree on all but one differ by at most one.
LEMMA OneMember ==
  ASSUME NEW S \in SUBSET Conns, NEW T \in SUBSET Conns, NEW c,
         S \ {c} = T \ {c}
  PROVE  /\ Cardinality(S) \in 0 .. Cardinality(Conns)
         /\ Cardinality(T) \in 0 .. Cardinality(Conns)
         /\ (c \in S <=> c \in T) => Cardinality(T) = Cardinality(S)
         /\ c \in T /\ c \notin S => Cardinality(T) = Cardinality(S) + 1
         /\ c \in S /\ c \notin T => Cardinality(T) = Cardinality(S) - 1
<1>1. /\ IsFiniteSet(Conns) /\ Cardinality(Conns) \in Nat
      /\ IsFiniteSet(S) /\ Cardinality(S) <= Cardinality(Conns)
      /\ IsFiniteSet(T) /\ Cardinality(T) <= Cardinality(Conns)
      /\ Cardinality(S) \in Nat /\ Cardinality(T) \in Nat
  BY ForwardAssumption, FS_Subset, FS_CardinalityType
<1>2. /\ Cardinality(S \ {c}) =
           IF c \in S THEN Cardinality(S) - 1 ELSE Cardinality(S)
      /\ Cardinality(T \ {c}) =
           IF c \in T THEN Cardinality(T) - 1 ELSE Cardinality(T)
  BY <1>1, FS_RemoveElement
<1> QED
  BY <1>1, <1>2

\* The count of a backend changes with what one connection holds.
LEMMA CountedByOne ==
  ASSUME TypeOK, Counted, NEW c \in Conns, NEW b \in Backends,
         \A k \in Conns \ {c} : chosen'[k] = chosen[k],
         NEW more \in -1 .. 1, connections'[b] = connections[b] + more,
         more = -1 => b \in chosen[c] /\ b \notin chosen'[c],
         more = 0 => (b \in chosen'[c] <=> b \in chosen[c]),
         more = 1 => b \notin chosen[c] /\ b \in chosen'[c]
  PROVE  connections'[b] = Cardinality(Users(b)')
<1>1. /\ Users(b) \in SUBSET Conns /\ Users(b)' \in SUBSET Conns
      /\ Users(b) \ {c} = Users(b)' \ {c}
      /\ c \in Users(b) <=> b \in chosen[c]
      /\ c \in Users(b)' <=> b \in chosen'[c]
  BY DEF Users
<1>2. connections[b] = Cardinality(Users(b)) /\ connections[b] \in Int
  BY DEF Counted, TypeOK
<1> QED
  BY <1>1, <1>2, OneMember

\* What each step of a task does to the count of each backend.
LEMMA TaskCounts ==
  ASSUME TypeOK, Counted, NEW c \in Conns, Goes(c) \/ Ends(c)
  PROVE  Counted' /\ connections' \in [Backends -> Int]
<1> DEFINE Counts == /\ connections' \in [Backends -> Int]
                     /\ \A b \in Backends :
                          connections'[b] = Cardinality(Users(b)')
<1>1. \A k \in Conns \ {c} : chosen'[k] = chosen[k]
  BY GoesEffect, EndsEffect
<1>2. ASSUME chosen'[c] = chosen[c], connections' \in [Backends -> Int],
             \A b \in Backends : connections'[b] = connections[b] + 0
      PROVE  Counts
  BY <1>1, <1>2, CountedByOne
<1>3. CASE \/ FirstPoll(c) \/ Peeked(c) \/ SelectDone(c) \/ AttachServer(c)
           \/ PeekFails(c) \/ NoBackend(c)
           \/ \E d \in Directions : StartThread(c, d) \/ ReadableTimeout(c, d)
  <2>1. UNCHANGED <<connections, chosen>>
    BY <1>3 DEF FirstPoll, Peeked, SelectDone, AttachServer, PeekFails,
                NoBackend, StartThread, ReadableTimeout
  <2> QED
    BY <1>2, <2>1 DEF TypeOK, Counted
<1>4. ASSUME NEW x \in Backends, SelectNew(c, x) PROVE Counts
  <2>1. /\ x \notin chosen[c] /\ chosen'[c] = chosen[c] \cup {x}
        /\ connections' \in [Backends -> Int]
        /\ connections'[x] = connections[x] + 1
        /\ \A b \in Backends \ {x} : connections'[b] = connections[b] + 0
    BY <1>4 DEF SelectNew, TypeOK
  <2>2. connections'[x] = Cardinality(Users(x)')
    BY <1>1, <2>1, CountedByOne
  <2>3. ASSUME NEW b \in Backends \ {x}
        PROVE  connections'[b] = Cardinality(Users(b)')
    BY <1>1, <2>1, CountedByOne
  <2> QED
    BY <2>1, <2>2, <2>3
<1>5. ASSUME NEW x \in Backends, SelectSame(c, x) PROVE Counts
  <2>1. /\ UNCHANGED chosen /\ connections' \in [Backends -> Int]
        /\ \A b \in Backends : connections'[b] = connections[b] + 0
    BY <1>5 DEF SelectSame, ReleasedDuplicate, TypeOK
  <2> QED
    BY <1>2, <2>1
\* The rest gives back some of what c has chosen, and keeps the rest.
<1>6. ASSUME NEW gone \in SUBSET chosen[c], Release(gone),
             chosen'[c] = chosen[c] \ gone
      PROVE  Counts
  <2>1. /\ connections' \in [Backends -> Int]
        /\ \A b \in gone : connections'[b] = connections[b] + (-1)
        /\ \A b \in Backends \ gone : connections'[b] = connections[b] + 0
    BY <1>6 DEF Release, OneFewer, TypeOK
  <2>2. ASSUME NEW b \in gone
        PROVE  connections'[b] = Cardinality(Users(b)')
    <3>1. b \in Backends /\ b \in chosen[c] /\ b \notin chosen'[c]
      BY <1>6 DEF TypeOK
    <3> QED
      BY <1>1, <2>1, <3>1, CountedByOne
  <2>3. ASSUME NEW b \in Backends \ gone
        PROVE  connections'[b] = Cardinality(Users(b)')
    <3>1. b \in chosen'[c] <=> b \in chosen[c]
      BY <1>6
    <3> QED
      BY <1>1, <2>1, <3>1, CountedByOne
  <2> QED
    BY <2>1, <2>2, <2>3
<1>7. ASSUME NEW x \in Backends, RaceWon(c, x) PROVE Counts
  <2>1. /\ Release(Losers(c, x)) /\ x \in chosen[c] /\ chosen'[c] = {x}
    BY <1>7 DEF RaceWon, TypeOK
  <2> QED
    BY <1>6, <2>1 DEF Losers
<1>8. CASE RaceLost(c) \/ SetupFails(c) \/ TransferDone(c)
  <2>1. Release(chosen[c]) /\ chosen'[c] = {}
    BY <1>8 DEF RaceLost, SetupFails, TransferDone, TypeOK
  <2>2. chosen[c] \ chosen[c] = {} /\ chosen[c] \in SUBSET chosen[c]
    OBVIOUS
  <2> QED
    BY <1>6, <2>1, <2>2 DEF Counted
<1>9. CASE AbortLands(c)
  <2>1. /\ Release(WinnerGuarded(c))
        /\ chosen'[c] = chosen[c] \ WinnerGuarded(c)
    BY <1>9 DEF AbortLands, TypeOK
  <2>2. WinnerGuarded(c) \in SUBSET chosen[c]
    BY DEF WinnerGuarded
  <2> QED
    BY <1>6, <2>1, <2>2 DEF Counted
<1> QED
  BY <1>3, <1>4, <1>5, <1>7, <1>8, <1>9 DEF Goes, Ends, Counted

\* No other step changes a count, or what a connection holds.
LEMMA CountedStep ==
  ASSUME TypeOK, Counted, [Next]_vars
  PROVE  Counted' /\ connections' \in [Backends -> Int]
<1>1. ASSUME NEW c \in Conns, Goes(c) \/ Ends(c)
      PROVE  Counted' /\ connections' \in [Backends -> Int]
  BY <1>1, TaskCounts
<1>2. ASSUME UNCHANGED <<connections, chosen>>
      PROVE  Counted' /\ connections' \in [Backends -> Int]
  BY <1>2 DEF Counted, Users, TypeOK
<1>3. ASSUME NEW c \in Conns, \/ Accept(c) \/ Insert(c) \/ Count(c) \/ Spawn(c)
                              \/ SetHandle(c) \/ Threads(c)
                              \/ \E side \in Sides : PeerCloses(c, side)
      PROVE  UNCHANGED <<connections, chosen>>
  BY <1>3 DEF Accept, Insert, Count, Spawn, SetHandle, Threads, Copied,
              ThreadEnds, WriteFails, PeerCloses, taskVars
<1>4. CASE \/ AcceptFails \/ BackoffElapsed \/ LoopCancelled
           \/ Cancel \/ RaiseFlag \/ Take \/ ShutSockets \/ AbortHandles
           \/ UNCHANGED vars
  BY <1>2, <1>4 DEF AcceptFails, BackoffElapsed, LoopCancelled, Cancel,
     RaiseFlag, Take, ShutSockets, AbortHandles, vars, taskVars
<1> QED
  BY <1>1, <1>2, <1>3, <1>4, NextCases

\* A task ends with nothing counted, unless an abort meets it in the race.
LEMMA GivenBackStep ==
  ASSUME TypeOK, Placed, GivenBack, [Next]_vars
  PROVE  GivenBack'
<1> USE DEF TypeOK, GivenBack, Before
<1>1. ASSUME NEW c \in Conns, \/ Accept(c) \/ Insert(c) \/ Count(c)
                              \/ SetHandle(c)
                              \/ \E side \in Sides : PeerCloses(c, side)
      PROVE  UNCHANGED <<task, chosen, dir>> /\ aborted \subseteq aborted'
  BY <1>1 DEF Accept, Insert, Count, SetHandle, PeerCloses, OtherTasks, taskVars
<1>2. CASE \/ AcceptFails \/ BackoffElapsed \/ LoopCancelled
           \/ Cancel \/ RaiseFlag \/ Take \/ ShutSockets \/ AbortHandles
           \/ UNCHANGED vars
  <2>1. UNCHANGED <<task, chosen, dir>> /\ aborted \subseteq aborted'
    BY <1>2 DEF AcceptFails, BackoffElapsed, LoopCancelled, Cancel,
       RaiseFlag, Take, ShutSockets, AbortHandles, vars, taskVars
  <2> QED
    BY <2>1
<1>3. ASSUME NEW c \in Conns, Spawn(c) PROVE GivenBack'
  <2>1. task[c] = "none" /\ task' = [task EXCEPT ![c] = "spawned"]
    BY <1>3 DEF Spawn, Placed
  <2>2. UNCHANGED <<chosen, dir, aborted>>
    BY <1>3 DEF Spawn
  <2> QED
    BY <2>1, <2>2
<1>4. ASSUME NEW c \in Conns, FirstPoll(c) \/ Peeked(c) \/ SelectDone(c)
      PROVE  GivenBack'
  BY <1>4 DEF FirstPoll, Peeked, SelectDone, OtherTasks
<1>5. ASSUME NEW c \in Conns, AttachServer(c) PROVE GivenBack'
  BY <1>5 DEF AttachServer, OtherTasks
<1>6. ASSUME NEW c \in Conns, NEW b \in Backends,
             SelectNew(c, b) \/ SelectSame(c, b) \/ RaceWon(c, b)
      PROVE  GivenBack'
  BY <1>6 DEF SelectNew, SelectSame, RaceWon, OtherTasks
<1>7. ASSUME NEW c \in Conns, NEW d \in Directions,
             \/ StartThread(c, d) \/ ReadableTimeout(c, d) \/ Copied(c, d)
             \/ ThreadEnds(c, d) \/ WriteFails(c, d)
      PROVE  GivenBack'
  <2>1. /\ UNCHANGED <<task, chosen, aborted>> /\ dir[c][d] # "none"
        /\ \A k \in Conns \ {c} : dir'[k] = dir[k]
    BY <1>7 DEF StartThread, ReadableTimeout, Copied, ThreadEnds, WriteFails,
       OtherTasks
  <2> QED
    BY <2>1
<1>8. ASSUME NEW c \in Conns, PeekFails(c) \/ NoBackend(c) PROVE GivenBack'
  <2>1. chosen[c] = {}
    BY <1>8 DEF PeekFails, NoBackend, Placed
  <2> QED
    BY <1>8, <2>1 DEF PeekFails, NoBackend, EndTask, OtherTasks
<1>9. ASSUME NEW c \in Conns, RaceLost(c) \/ SetupFails(c) \/ TransferDone(c)
      PROVE  GivenBack'
  BY <1>9 DEF RaceLost, SetupFails, TransferDone, EndTask, OtherTasks
<1>10. ASSUME NEW c \in Conns, AbortLands(c) PROVE GivenBack'
  <2>1. /\ c \in aborted /\ aborted' = aborted /\ task'[c] = "ended"
        /\ \A k \in Conns \ {c} :
             task'[k] = task[k] /\ chosen'[k] = chosen[k] /\ dir'[k] = dir[k]
    BY <1>10 DEF AbortLands, OtherTasks
  <2>2. CASE task[c] = "transfer"
    <3>1. chosen'[c] = {}
      BY <1>10, <2>2 DEF AbortLands, WinnerGuarded
    <3> QED
      BY <2>1, <3>1
  <2>3. CASE task[c] # "transfer"
    <3>1. Before(c)
      BY <1>10, <2>3 DEF AbortLands
    <3>2. \A d \in Directions : dir'[c][d] = "none"
      BY <1>10, <3>1 DEF AbortLands
    <3> QED
      BY <2>1, <3>2
  <2> QED
    BY <2>2, <2>3
<1> QED
  BY <1>1, <1>2, <1>3, <1>4, <1>5, <1>6, <1>7, <1>8, <1>9, <1>10
     DEF Next, LoopStep, StopStep, TaskStep, ThreadStep

----------------------------------------------------------------------------
(* Types, and the theorems *)

\* The bounds of active and of connections come from the other invariants.
LEMMA TypeStep ==
  ASSUME ForwardInv, [Next]_vars, RegistryExact', Placed'
  PROVE  TypeOK'
<1> USE DEF ForwardInv, TypeOK
<1> DEFINE Others ==
      /\ loop' \in [at : {"accept", "insert", "count", "spawn", "handle",
                          "backoff", "ended"}, conn : Conns \cup {Idle}]
      /\ arrived' \subseteq Conns /\ entries' \subseteq arrived'
      /\ aborted' \subseteq arrived'
      /\ stopping' \in {"no", "cancelled", "flagged", "taken", "shut", "done"}
      /\ held' \in [Conns -> SUBSET {"client", "server", "handle"}]
      /\ task' \in [Conns -> {"none", "spawned", "peek", "select", "race",
                              "attach", "transfer", "ended"}]
      /\ chosen' \in [Conns -> SUBSET Backends]
      /\ dir' \in [Conns -> [Directions -> {"none", "wait", "copying",
                                           "blocked", "done"}]]
      /\ shut' \subseteq Conns \X Sides
<1>1. Others
  <2>1. ASSUME NEW c \in Conns,
               Accept(c) \/ Insert(c) \/ Count(c) \/ Spawn(c) \/ SetHandle(c)
        PROVE Others
    <3>1. CASE Accept(c)
      BY <3>1 DEF Accept, Goto, Waiting, registryVars, stopVars, taskVars
    <3>2. CASE Insert(c) \/ Count(c)
      BY <3>2 DEF Insert, Count, At, Goto, Placed, stopVars, taskVars
    <3>3. CASE Spawn(c)
      BY <3>3 DEF Spawn, At, Goto, registryVars, stopVars
    <3>4. CASE SetHandle(c)
      <4>1. c \in arrived
        BY <3>4 DEF SetHandle, At, Placed
      <4> QED
        BY <3>4, <4>1 DEF SetHandle, At, Goto, stopVars, taskVars
    <3> QED
      BY <2>1, <3>1, <3>2, <3>3, <3>4
  <2>2. CASE AcceptFails \/ BackoffElapsed \/ LoopCancelled
    BY <2>2 DEF AcceptFails, BackoffElapsed, LoopCancelled, Goto, registryVars,
                stopVars, taskVars
  <2>3. CASE Cancel \/ RaiseFlag \/ Take
    BY <2>3 DEF Cancel, RaiseFlag, Take, loopVars, registryVars, taskVars
  <2>4. CASE ShutSockets \/ AbortHandles
    <3>1. ASSUME ShutSockets PROVE shut' \subseteq Conns \X Sides
      <4>1. ASSUME NEW p \in taken, p[2] \in Sides PROVE p \in Conns \X Sides
        BY <4>1
      <4> QED
        BY <3>1, <4>1 DEF ShutSockets
    <3>2. aborted' \subseteq arrived
      <4>1. ASSUME NEW k \in Conns, <<k, "handle">> \in taken PROVE k \in arrived
        BY <4>1 DEF Placed
      <4> QED
        BY <2>4, <4>1 DEF ShutSockets, AbortHandles
    <3> QED
      BY <2>4, <3>1, <3>2 DEF ShutSockets, AbortHandles, loopVars,
                              registryVars, taskVars
  \* What a task or a thread does: the loop and stop() stay as they are.
  <2>5. ASSUME NEW c \in Conns, Goes(c) \/ Ends(c) \/ Threads(c)
        PROVE  Others
    <3>1. UNCHANGED <<loop, arrived, stopping, aborted>>
      BY <2>5 DEF Goes, Ends, Threads, FirstPoll, Peeked, SelectDone,
         AttachServer, SelectNew, SelectSame, RaceWon, StartThread,
         ReadableTimeout, PeekFails, NoBackend, RaceLost, SetupFails,
         TransferDone, AbortLands, Copied, ThreadEnds, WriteFails, OtherTasks,
         loopVars, stopVars
    <3>2. entries' \subseteq arrived
      BY <2>5, GoesEffect, EndsEffect
         DEF Threads, Unregister, Copied, ThreadEnds, WriteFails, registryVars
    <3>3. held' \in [Conns -> SUBSET {"client", "server", "handle"}]
      <4>1. CASE AttachServer(c)
        BY <4>1 DEF AttachServer
      <4>2. CASE Ends(c)
        BY <4>2, EndsEffect DEF Unregister
      <4>3. CASE UNCHANGED held
        BY <4>3
      <4> QED
        BY <2>5, <4>1, <4>2, <4>3 DEF Goes, Threads, FirstPoll, Peeked,
           SelectDone, SelectNew, SelectSame, RaceWon, StartThread,
           ReadableTimeout, Copied, ThreadEnds, WriteFails, registryVars
    <3>4. task' \in [Conns -> {"none", "spawned", "peek", "select", "race",
                               "attach", "transfer", "ended"}]
      <4>1. CASE Ends(c)
        BY <4>1, EndsEffect
      <4>2. CASE Goes(c)
        BY <4>2 DEF Goes, FirstPoll, Peeked, SelectDone, AttachServer, SelectNew,
           SelectSame, RaceWon, StartThread, ReadableTimeout
      <4>3. CASE Threads(c)
        BY <4>3 DEF Threads, Copied, ThreadEnds, WriteFails
      <4> QED
        BY <2>5, <4>1, <4>2, <4>3
    <3>5. chosen' \in [Conns -> SUBSET Backends]
      <4>1. ASSUME NEW b \in Backends, SelectNew(c, b) \/ RaceWon(c, b)
            PROVE  \E x \in SUBSET Backends : chosen' = [chosen EXCEPT ![c] = x]
        BY <4>1 DEF SelectNew, RaceWon
      <4>2. ASSUME NEW x \in SUBSET Backends, chosen' = [chosen EXCEPT ![c] = x]
            PROVE  chosen' \in [Conns -> SUBSET Backends]
        BY <4>2
      <4>3. CASE UNCHANGED chosen
        BY <4>3
      <4>4. CASE AbortLands(c)
        BY <4>4 DEF AbortLands
      <4> QED
        BY <2>5, <4>1, <4>2, <4>3, <4>4 DEF Goes, Ends, Threads, FirstPoll,
           Peeked, SelectDone, AttachServer, SelectSame, StartThread,
           ReadableTimeout, PeekFails, NoBackend, RaceLost, SetupFails,
           TransferDone, Copied, ThreadEnds, WriteFails
    <3>6. dir' \in [Conns -> [Directions -> {"none", "wait", "copying",
                                             "blocked", "done"}]]
      <4>1. CASE AttachServer(c)
        BY <4>1 DEF AttachServer
      <4>2. CASE AbortLands(c)
        BY <4>2 DEF AbortLands
      <4>3. ASSUME NEW d \in Directions,
                   \/ StartThread(c, d) \/ ReadableTimeout(c, d) \/ Copied(c, d)
                   \/ ThreadEnds(c, d) \/ WriteFails(c, d)
            PROVE  \E x \in {"copying", "blocked", "done"} :
                     dir' = [dir EXCEPT ![c][d] = x]
        BY <4>3 DEF StartThread, ReadableTimeout, Copied, ThreadEnds, WriteFails
      <4>4. ASSUME NEW d \in Directions, NEW x \in {"copying", "blocked", "done"},
                   dir' = [dir EXCEPT ![c][d] = x]
            PROVE  dir' \in [Conns -> [Directions ->
                               {"none", "wait", "copying", "blocked", "done"}]]
        BY <4>4
      <4>5. CASE UNCHANGED dir
        BY <4>5
      <4> QED
        BY <2>5, <4>1, <4>2, <4>3, <4>4, <4>5 DEF Goes, Ends, Threads,
           FirstPoll, Peeked, SelectDone, SelectNew, SelectSame, RaceWon,
           PeekFails, NoBackend, RaceLost, SetupFails, TransferDone
    <3>7. shut' \subseteq Conns \X Sides
      BY <2>5 DEF Goes, Ends, Threads, FirstPoll, Peeked, SelectDone,
         AttachServer, SelectNew, SelectSame, RaceWon, StartThread,
         ReadableTimeout, PeekFails, NoBackend, RaceLost, SetupFails,
         TransferDone, AbortLands, Copied, ThreadEnds, WriteFails, Forget
    <3> QED
      BY <3>1, <3>2, <3>3, <3>4, <3>5, <3>6, <3>7
  <2>6. ASSUME NEW c \in Conns, NEW side \in Sides, PeerCloses(c, side)
        PROVE Others
    BY <2>6 DEF PeerCloses, OtherTasks, loopVars, registryVars, stopVars, taskVars
  <2>7. CASE UNCHANGED vars
    BY <2>7 DEF vars, loopVars, registryVars, stopVars, taskVars
  <2> QED
    BY <2>1, <2>2, <2>3, <2>4, <2>5, <2>6, <2>7, NextCases
<1>2. taken' \subseteq Conns \X {"client", "server", "handle"}
  BY <1>1 DEF Placed
<1>3. active' \in 0 .. Cardinality(Conns)
  <2>1. IsFiniteSet(Conns) /\ entries' \in SUBSET Conns
    BY <1>1, ForwardAssumption
  <2>2. /\ IsFiniteSet(entries') /\ Cardinality(entries') \in Nat
        /\ Cardinality(Conns) \in Nat
        /\ Cardinality(entries') <= Cardinality(Conns)
    BY <2>1, FS_Subset, FS_CardinalityType
  <2>3. loop'.at = "count" => entries' # {}
    <3>1. ASSUME loop'.at = "count" PROVE loop' = [at |-> "count", conn |-> loop'.conn]
      BY <1>1, <3>1
    <3> QED
      BY <1>1, <3>1 DEF Placed, RegistryExact, At
  <2>4. loop'.at = "count" => Cardinality(entries') # 0
    BY <2>2, <2>3, FS_EmptySet
  <2>5. active' = Cardinality(entries') - (IF loop'.at = "count" THEN 1 ELSE 0)
    BY DEF RegistryExact
  <2> QED
    BY <2>2, <2>4, <2>5
<1>4. connections' \in [Backends -> 0 .. Cardinality(Conns)]
  <2>1. Counted' /\ connections' \in [Backends -> Int]
    BY CountedStep
  <2>2. ASSUME NEW b \in Backends
        PROVE  /\ Cardinality(Users(b)') \in Nat
               /\ Cardinality(Users(b)') <= Cardinality(Conns)
               /\ Cardinality(Conns) \in Nat
    <3>1. Users(b)' \in SUBSET Conns
      BY DEF Users
    <3> QED
      BY <3>1, ForwardAssumption, FS_Subset, FS_CardinalityType
  <2> QED
    BY <2>1, <2>2 DEF Counted
<1> QED
  BY <1>1, <1>2, <1>3, <1>4

\* The strengthening holds in every state.
LEMMA ForwardInvariant == Spec => []ForwardInv
<1>1. Init => ForwardInv
  <2> SUFFICES ASSUME Init PROVE ForwardInv
    OBVIOUS
  <2> USE DEF Init
  <2>1. Cardinality(Conns) \in Nat
    BY ForwardAssumption, FS_CardinalityType
  <2>2. TypeOK
    BY <2>1 DEF TypeOK
  <2>3. Placed
    BY DEF Placed, At
  <2>4. RegistryExact
    BY FS_EmptySet DEF RegistryExact, Live, At
  <2>5. Counted
    <3>1. ASSUME NEW b \in Backends PROVE Users(b) = {}
      BY DEF Users
    <3> QED
      BY <3>1, FS_EmptySet, SMTT(40) DEF Counted
  <2>6. EveryTaskReached
    BY DEF EveryTaskReached, Live
  <2>7. GivenBack
    BY DEF GivenBack
  <2> QED
    BY <2>2, <2>3, <2>4, <2>5, <2>6, <2>7 DEF ForwardInv
<1>2. ForwardInv /\ [Next]_vars => ForwardInv'
  BY TypeStep, PlacedStep, RegistryStep, CountedStep, GivenBackStep, ReachStep
     DEF ForwardInv
<1> QED
  BY <1>1, <1>2, PTL DEF Spec

\* Every variable keeps its type; active_count() and the backends' counts stay
\* between 0 and the number of connections (forward.rs:43-115).
THEOREM ForwardTypes == Spec => []TypeOK
<1>1. ForwardInv => TypeOK
  BY DEF ForwardInv
<1> QED
  BY <1>1, ForwardInvariant, PTL

\* The registry holds exactly the connections whose task runs or is about to be
\* spawned, and active_count() agrees with it, whatever end a task comes to
\* (forward.rs:43-86, 111-115).
THEOREM RegistryIsExact == Spec => []RegistryExact
<1>1. ForwardInv => RegistryExact
  BY DEF ForwardInv
<1> QED
  BY <1>1, ForwardInvariant, PTL

\* Each count select() takes on a backend is given back once on every path, an
\* abort in the transfer included; an abort in the race alone leaves it counted
\* (forward.rs:260-272, 345-390, loadbalancer.rs release).
THEOREM QuotaIsPaired == Spec => []QuotaPaired
<1>1. ForwardInv => QuotaPaired
  BY DEF ForwardInv, Counted, Users, GivenBack, QuotaPaired
<1> QED
  BY <1>1, ForwardInvariant, PTL

\* No task outlives shutdown_all unaborted, however the accept loop interleaves
\* with it: a task spawned too late to be taken meets the flag in set_handle
\* (forward.rs:57-71, 88-109).
THEOREM NoTaskOutlivesShutdown == Spec => []NoTaskEscapes
<1>1. ForwardInv => NoTaskEscapes
  BY DEF ForwardInv, EveryTaskReached, Reached, NoTaskEscapes
<1> QED
  BY <1>1, ForwardInvariant, PTL
=============================================================================
