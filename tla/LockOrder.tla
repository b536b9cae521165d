----------------------------- MODULE LockOrder -----------------------------
(***************************************************************************)
(* The locks of a run, each operation reduced to the order in which it     *)
(* takes and drops them: the phase of the service, the registry's entries, *)
(* the balancer's queues (inner), its sticky slots and its address set.    *)
(* They are parking_lot locks, which are fair: a reader waits behind a     *)
(* writer that waits, so two readers can be part of a deadlock.            *)
(* Locks taken alone and dropped at once by the code that holds another    *)
(* (fault slot, task handle, a backend's timestamp, the log) are left out. *)
(***************************************************************************)
EXTENDS Naturals, Sequences

CONSTANTS Threads

Locks == {"phase", "entries", "inner", "slots", "ipSet"}

Rd(l) == [op |-> "read", lock |-> l]
Wr(l) == [op |-> "write", lock |-> l]
Drop(l) == [op |-> "drop", lock |-> l]

----------------------------------------------------------------------------
(* The operations *)

ReadBriefly(l) == <<Rd(l), Drop(l)>>
WriteBriefly(l) == <<Wr(l), Drop(l)>>

\* select() with a usable slot.
SelectSlot == ReadBriefly("slots")
\* Mutant: the slots stay locked while the queues are read.
SelectHolding == <<Rd("slots"), Rd("inner"), Drop("inner"), Drop("slots")>>
\* select() without one: the slots are dropped before the queues are read.
SelectPool == ReadBriefly("slots") \o ReadBriefly("inner")

\* The sticky maintainer, once a second.
MaintainSlots == <<Rd("inner"), Wr("slots"), Drop("slots"), Drop("inner")>>

\* try_add_backend; the last guard lives to the end of the statement that
\* passes it to add_to_list.
TryAdd ==
  ReadBriefly("ipSet") \o ReadBriefly("inner") \o ReadBriefly("inner") \o
  <<Wr("inner"), Wr("ipSet"), Drop("ipSet"), Drop("inner")>>

\* try_deactivate with a promotion; cleanup_removed is its second half.
TryDeactivate ==
  ReadBriefly("inner") \o WriteBriefly("inner") \o WriteBriefly("ipSet")
CleanupRemoved == WriteBriefly("inner") \o WriteBriefly("ipSet")

\* refill_from_backup, sort_backup and the snapshot of a health round.
RewriteQueues == WriteBriefly("inner")

\* build_full_status reads the balancer under the phase.
FullStatus ==
  <<Wr("phase")>> \o ReadBriefly("inner") \o ReadBriefly("slots") \o
  ReadBriefly("inner") \o <<Drop("phase")>>

\* stop(): the registry is emptied under the phase.
StopService == <<Wr("phase"), Wr("entries"), Drop("entries"), Drop("phase")>>

\* register, attach_server, set_handle, unregister.
TouchEntry == WriteBriefly("entries")

Operations ==
  {SelectSlot, SelectPool, MaintainSlots, TryAdd, TryDeactivate, CleanupRemoved,
   RewriteQueues, FullStatus, StopService, TouchEntry}

----------------------------------------------------------------------------
(* The threads *)

VARIABLES
  todo,     \* what is left of the operation a thread runs
  readers, writers,  \* who holds a lock
  parked    \* the threads that wait to write

lockVars == <<todo, readers, writers, parked>>

LockInit ==
  /\ todo = [t \in Threads |-> <<>>]
  /\ readers = [l \in Locks |-> {}]
  /\ writers = [l \in Locks |-> {}]
  /\ parked = {}

Wanted(t) == Head(todo[t])

\* Whom t waits for: the holders of the lock it wants, and, to read it, the
\* threads parked to write it.
Holders(t) ==
  LET w == Wanted(t) IN
    IF todo[t] = <<>> \/ w.op = "drop" THEN {}
    ELSE IF w.op = "write" THEN readers[w.lock] \cup writers[w.lock]
    ELSE writers[w.lock] \cup
           {p \in parked : Wanted(p).lock = w.lock}

Begin(t) ==
  /\ todo[t] = <<>>
  /\ \E op \in Operations : todo' = [todo EXCEPT ![t] = op]
  /\ UNCHANGED <<readers, writers, parked>>

Acquire(t) ==
  /\ todo[t] # <<>> /\ Wanted(t).op # "drop" /\ Holders(t) = {}
  /\ LET l == Wanted(t).lock IN
       IF Wanted(t).op = "read"
         THEN readers' = [readers EXCEPT ![l] = @ \cup {t}] /\ UNCHANGED writers
         ELSE writers' = [writers EXCEPT ![l] = @ \cup {t}] /\ UNCHANGED readers
  /\ parked' = parked \ {t}
  /\ todo' = [todo EXCEPT ![t] = Tail(@)]

Park(t) ==
  /\ t \notin parked
  /\ todo[t] # <<>> /\ Wanted(t).op = "write" /\ Holders(t) # {}
  /\ parked' = parked \cup {t}
  /\ UNCHANGED <<todo, readers, writers>>

Unlock(t) ==
  /\ todo[t] # <<>> /\ Wanted(t).op = "drop"
  /\ LET l == Wanted(t).lock IN
       /\ readers' = [readers EXCEPT ![l] = @ \ {t}]
       /\ writers' = [writers EXCEPT ![l] = @ \ {t}]
  /\ todo' = [todo EXCEPT ![t] = Tail(@)]
  /\ UNCHANGED parked

LockNext == \E t \in Threads : Begin(t) \/ Acquire(t) \/ Park(t) \/ Unlock(t)

LockSpec == LockInit /\ [][LockNext]_lockVars

----------------------------------------------------------------------------
(* Properties *)

\* No threads wait for each other in a circle, whichever operations run
\* together (loadbalancer.rs:276 drops the slots before it reads the queues).
NoCircularWait ==
  \A s \in (SUBSET Threads) \ {{}} : \E t \in s : Holders(t) \cap s = {}
=============================================================================
