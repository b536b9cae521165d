---------------------------- MODULE BackendPools ----------------------------
(***************************************************************************)
(* The balancer's two queues of backends (src/core/loadbalancer.rs): the   *)
(* primary queue that serves connections, the backup queue behind it and   *)
(* the set of addresses already collected.  Every step below is what one   *)
(* thread does between two acquisitions of a lock, so the interleavings of *)
(* TLC are those of the tokio worker threads.                              *)
(*                                                                         *)
(* The tasks that touch the queues:                                        *)
(*   - the prober (one task), which adds what it has measured and pauses   *)
(*     while both queues are full;                                         *)
(*   - the health loop (one task), which starts a Round per tick; the      *)
(*     rounds are spawned and never awaited, so several may overlap;       *)
(*   - the connections, which judge the backend they used when they end.   *)
(*                                                                         *)
(* Queues are sets: their order (insertion, or quality after sort_backup)  *)
(* is not told apart here, and "the first that ..." is "some that ...".    *)
(* The EWMA averages are left out: a verdict over them is nondeterministic *)
(* and only the number of samples, which gates every verdict, is kept.     *)
(*                                                                         *)
(* A backend's state is an atomic of its own: marks take no lock.  Where   *)
(* one step reads the states of several backends (a count, a choice, a     *)
(* pass over a queue), a mark that lands in the middle of the reads is     *)
(* ordered before or after all of them.  Where the code reads the state of *)
(* the same backend twice, in cleanup_removed, the reads are two steps.    *)
(***************************************************************************)
EXTENDS Integers, FiniteSets

CONSTANTS
  Ips,              \* addresses the prober can find
  Backends,         \* identities of Backend objects (bounds those alive at once)
  IpOf,             \* the address of each object
  Conns,            \* connection tasks
  Rounds,           \* health rounds (bounds those in flight at once)
  PrimaryTarget,    \* the "ips" setting
  MaxBackupTarget,  \* Config::max_backup_target
  MinBackupTarget,  \* MIN_BACKUP_TARGET
  SampleWindow,     \* Config::sample_window
  EvictThreshold,   \* Config::evict_threshold
  Concurrency,      \* Config::health_check_concurrency
  Jumps             \* may the wall clock jump between two ticks? a set of Booleans

None == "none"

ASSUME PoolsAssumption ==
  /\ IpOf \in [Backends -> Ips]
  /\ None \notin Ips \cup Backends
  /\ Conns \cap Rounds = {}
  /\ PrimaryTarget \in Nat \ {0}
  /\ MaxBackupTarget \in Nat
  /\ MinBackupTarget \in Nat \ {0}
  /\ SampleWindow \in Nat \ {0}
  /\ EvictThreshold \in 0..SampleWindow
  /\ Concurrency \in Nat \ {0}
  /\ Jumps \subseteq BOOLEAN

Tasks == Conns \cup Rounds

\* LoadBalancer::new derives both limits from the target.
Half == (PrimaryTarget + 1) \div 2
MinActive == Half
Capped == IF Half < MaxBackupTarget THEN Half ELSE MaxBackupTarget
BackupTarget == IF Capped > MinBackupTarget THEN Capped ELSE MinBackupTarget

VARIABLES
  primary, backup,  \* BalancerInner
  ipSet,            \* LoadBalancer::ip_set
  st, samples,      \* Backend::state and Backend::sample_count
  unseen,           \* the watch channel holds a version the prober has not seen
  ppc, cand, room,  \* prober: program counter, candidate, "primary had room"
  hpc,              \* health loop: waiting, or about to check a queue
  phase,            \* what a task is doing
  dpc,              \* where a task is inside a deactivation
  victim, mark,     \* the backend it deactivates and the state it will give it
  untrack,          \* addresses it still has to take out of ip_set
  listed,           \* history: the backends whose addresses a cleanup has listed
  lost, loose,      \* history: the addresses a cleanup left out of step, see Retain
  owes,             \* it shrank a queue and has not called notify_resume yet
  queue, todo, inflight  \* a round: its queue, its snapshot, its running pings

proberVars == <<ppc, cand, room>>
roundVars == <<queue, todo, inflight>>
deactVars == <<dpc, victim, mark>>
histVars == <<listed, lost, loose>>
debtVars == <<untrack, owes, histVars>>
poolVars == <<primary, backup>>
vars == <<primary, backup, ipSet, st, samples, unseen, ppc, cand, room, hpc,
          phase, dpc, victim, mark, untrack, histVars, owes, queue, todo,
          inflight>>

----------------------------------------------------------------------------
(* Reading the queues *)

Pooled == primary \cup backup

\* Backend::is_selectable
Selectable(b) == st[b] = "active" \/ (st[b] = "warming" /\ samples[b] > 0)
SelectablePrimary == {b \in primary : Selectable(b)}
SelectableBackup == {b \in backup : Selectable(b)}

PrimaryFull == Cardinality(primary) >= PrimaryTarget
BackupFull == Cardinality(backup) >= BackupTarget

\* cleanup_removed holds the write lock of the queues from its first read of the
\* states to its second: meanwhile nobody else reads or changes the queues.
Unlocked == \A t \in Tasks : phase[t] # "retain"

\* An object nobody refers to: its identity may stand for a new one.
Fresh(b) == /\ b \notin Pooled
            /\ \A t \in Tasks : victim[t] # b
            /\ \A r \in Rounds : b \notin todo[r] \cup inflight[r]

Init ==
  /\ primary = {} /\ backup = {} /\ ipSet = {}
  /\ st = [b \in Backends |-> "removed"]
  /\ samples = [b \in Backends |-> 0]
  /\ unseen = FALSE
  /\ ppc = "run" /\ cand = None /\ room = FALSE
  /\ hpc = "wait"
  /\ phase = [t \in Tasks |-> "idle"]
  /\ dpc = [t \in Tasks |-> None]
  /\ victim = [t \in Tasks |-> None]
  /\ mark = [t \in Tasks |-> None]
  /\ untrack = [t \in Tasks |-> {}]
  /\ listed = {} /\ lost = {} /\ loose = {}
  /\ owes = [t \in Tasks |-> FALSE]
  /\ queue = [r \in Rounds |-> None]
  /\ todo = [r \in Rounds |-> {}]
  /\ inflight = [r \in Rounds |-> {}]

----------------------------------------------------------------------------
(* The prober: try_add_backend reads ip_set, the primary length and the    *)
(* backup length under separate locks before it takes the one it adds under *)

\* Mutant: the membership test is forgotten.
NeverCollected(ip) == FALSE
Collected(ip) == ip \in ipSet

ProbeContains(ip) ==
  /\ ppc = "run" /\ ~Collected(ip)
  /\ ppc' = "contains" /\ cand' = ip
  /\ UNCHANGED <<poolVars, ipSet, st, samples, unseen, room, hpc, phase,
                 deactVars, debtVars, roundVars>>

ProbeCountPrimary ==
  /\ ppc = "contains" /\ Unlocked
  /\ ppc' = "counted" /\ room' = (Cardinality(primary) < PrimaryTarget)
  /\ UNCHANGED <<poolVars, ipSet, st, samples, unseen, cand, hpc, phase,
                 deactVars, debtVars, roundVars>>

\* Mutant: the backup queue takes one more than its capacity.
BackupRoomInclusive == Cardinality(backup) <= BackupTarget
BackupRoom == Cardinality(backup) < BackupTarget

\* QueueFull, which the real prober never meets (Prober), drops the candidate.
ProbeCountBackup ==
  /\ ppc = "counted" /\ Unlocked
  /\ ppc' = CASE room -> "addPrimary"
              [] ~room /\ BackupRoom -> "addBackup"
              [] OTHER -> "run"
  /\ cand' = IF room \/ BackupRoom THEN cand ELSE None
  /\ room' = FALSE
  /\ UNCHANGED <<poolVars, ipSet, st, samples, unseen, hpc, phase,
                 deactVars, debtVars, roundVars>>

\* add_to_list: a new object starts warming with one sample.  ip_set is
\* updated while the write lock of the queues is still held.
ProbeAdd(b) ==
  /\ ppc \in {"addPrimary", "addBackup"} /\ Unlocked
  /\ IpOf[b] = cand /\ Fresh(b)
  /\ primary' = IF ppc = "addPrimary" THEN primary \cup {b} ELSE primary
  /\ backup' = IF ppc = "addBackup" THEN backup \cup {b} ELSE backup
  /\ ipSet' = ipSet \cup {cand}
  /\ st' = [st EXCEPT ![b] = "warming"]
  /\ samples' = [samples EXCEPT ![b] = 1]
  /\ ppc' = "run" /\ cand' = None
  /\ UNCHANGED <<unseen, room, hpc, phase, deactVars, debtVars, roundVars>>

\* should_pause: two reads again, the second only when the first says full.
PauseReadPrimary ==
  /\ ppc = "run" /\ PrimaryFull /\ Unlocked
  /\ ppc' = "pausing"
  /\ UNCHANGED <<poolVars, ipSet, st, samples, unseen, cand, room, hpc, phase,
                 deactVars, debtVars, roundVars>>

PauseReadBackup ==
  /\ ppc = "pausing" /\ Unlocked
  /\ ppc' = IF BackupFull THEN "paused" ELSE "run"
  /\ UNCHANGED <<poolVars, ipSet, st, samples, unseen, cand, room, hpc, phase,
                 deactVars, debtVars, roundVars>>

\* notify_rx.changed() returns at once when a version is unseen.
ProbeResume ==
  /\ ppc = "paused" /\ unseen
  /\ ppc' = "run" /\ unseen' = FALSE
  /\ UNCHANGED <<poolVars, ipSet, st, samples, cand, room, hpc, phase,
                 deactVars, debtVars, roundVars>>

\* The idle wait (httping.rs:237-247) listens as well: the version it takes is
\* followed by the two reads of should_pause.
ProbeNotice ==
  /\ ppc = "run" /\ unseen
  /\ unseen' = FALSE
  /\ UNCHANGED <<poolVars, ipSet, st, samples, proberVars, hpc, phase,
                 deactVars, debtVars, roundVars>>

----------------------------------------------------------------------------
(* A deactivation, by any task: try_deactivate, the late mark, the refill  *)

BeginDeactivation(t, b, m) ==
  /\ dpc' = [dpc EXCEPT ![t] = "floor"]
  /\ victim' = [victim EXCEPT ![t] = b]
  /\ mark' = [mark EXCEPT ![t] = m]

\* What a round does with a result that removed nothing: while draining, the
\* loop "while handle_result(..)" ends there.
AfterFalse(t) == IF phase[t] = "drain" THEN "cleanup" ELSE phase[t]

\* A connection keeps its backend until it is done; a round drops it here.
AfterDeactivation(t) ==
  /\ dpc' = [dpc EXCEPT ![t] = None]
  /\ mark' = [mark EXCEPT ![t] = None]
  /\ victim' = [victim EXCEPT ![t] = IF t \in Rounds THEN None ELSE @]

\* Mutant: the floor itself is given away.
AtFloor == Cardinality(SelectablePrimary) >= MinActive

AboveFloor == Cardinality(SelectablePrimary) > MinActive

\* try_deactivate, first half: the count is taken under the read lock ...
CheckFloor(t) ==
  /\ dpc[t] = "floor" /\ Unlocked
  /\ dpc' = [dpc EXCEPT ![t] = IF AboveFloor THEN "mark" ELSE "promote"]
  /\ UNCHANGED <<poolVars, ipSet, st, samples, unseen, proberVars, hpc, phase,
                 victim, mark, debtVars, roundVars>>

\* The queue member a promotion evicts to keep the primary queue at its
\* target: one that cannot be selected, if there is one.
Evictable == IF PrimaryFull THEN {b \in primary : ~Selectable(b)} ELSE {}

\* ... second half: under the write lock a backup replaces the backend that is
\* going to be lost.
Promote(t) ==
  /\ dpc[t] = "promote" /\ Unlocked
  /\ \E b \in SelectableBackup :
       /\ backup' = backup \ {b}
       /\ st' = [st EXCEPT ![b] = "active"]
       /\ IF Evictable = {}
            THEN /\ primary' = primary \cup {b}
                 /\ untrack' = untrack
            ELSE \E e \in Evictable :
                   /\ primary' = (primary \ {e}) \cup {b}
                   /\ untrack' = [untrack EXCEPT ![t] = @ \cup {IpOf[e]}]
  /\ owes' = [owes EXCEPT ![t] = TRUE]
  /\ dpc' = [dpc EXCEPT ![t] = "mark"]
  /\ UNCHANGED <<ipSet, samples, unseen, proberVars, hpc, phase, victim, mark,
                 histVars, roundVars>>

\* No selectable backup: the operation is refused.
Refuse(t) ==
  /\ dpc[t] = "promote" /\ SelectableBackup = {} /\ Unlocked
  /\ AfterDeactivation(t)
  /\ phase' = [phase EXCEPT ![t] = AfterFalse(t)]
  /\ UNCHANGED <<poolVars, ipSet, st, samples, unseen, proberVars, hpc,
                 debtVars, roundVars>>

\* ip_set is cleared of one address per lock acquisition, after the queues'
\* lock is dropped.
Untrack(t) ==
  /\ phase[t] # "retain"
  /\ \E ip \in untrack[t] :
       /\ ipSet' = ipSet \ {ip}
       /\ untrack' = [untrack EXCEPT ![t] = @ \ {ip}]
  /\ UNCHANGED <<poolVars, st, samples, unseen, proberVars, hpc, phase,
                 deactVars, owes, histVars, roundVars>>

\* watch::Sender::send stores a new version whoever waits.
NotifyVersion == TRUE

NotifyResume(t) ==
  /\ phase[t] # "retain" /\ owes[t] /\ untrack[t] = {}
  /\ owes' = [owes EXCEPT ![t] = FALSE]
  /\ unseen' = NotifyVersion
  /\ UNCHANGED <<poolVars, ipSet, st, samples, proberVars, hpc, phase,
                 deactVars, untrack, histVars, roundVars>>

Settled(t) == untrack[t] = {} /\ ~owes[t]

\* mark_isolated or mark_removed, whatever the state has become meanwhile.
Mark(t) ==
  /\ dpc[t] = "mark" /\ Settled(t)
  /\ st' = [st EXCEPT ![victim[t]] = mark[t]]
  /\ IF t \in Rounds /\ mark[t] = "removed" /\ queue[t] = "primary"
       THEN /\ dpc' = [dpc EXCEPT ![t] = "refill"]
            /\ UNCHANGED <<victim, mark>>
       ELSE AfterDeactivation(t)
  /\ UNCHANGED <<poolVars, ipSet, samples, unseen, proberVars, hpc, phase,
                 debtVars, roundVars>>

\* refill_from_backup: the head of the backup queue moves over until the
\* primary queue is at its target; the prober is notified in every case.
Lesser(m, n) == IF m < n THEN m ELSE n
Missing == IF PrimaryFull THEN 0 ELSE PrimaryTarget - Cardinality(primary)
Movable == {s \in SUBSET backup :
              Cardinality(s) = Lesser(Missing, Cardinality(backup))}
RefillFromBackup(t) ==
  /\ \E moved \in Movable :
       /\ primary' = primary \cup moved
       /\ backup' = backup \ moved
  /\ owes' = [owes EXCEPT ![t] = TRUE]

RefillAfterRemoval(t) ==
  /\ dpc[t] = "refill" /\ Unlocked
  /\ RefillFromBackup(t)
  /\ AfterDeactivation(t)
  /\ UNCHANGED <<ipSet, st, samples, unseen, proberVars, hpc, phase, untrack,
                 histVars, roundVars>>

----------------------------------------------------------------------------
(* Connections *)

\* Mutant: the count is not capped.
Unsaturated(n) == n + 1

\* Backend::record: the count saturates at the window.
Sampled(n) == IF n + 1 < SampleWindow THEN n + 1 ELSE SampleWindow

\* select: any selectable object that is still referenced may be in a sticky
\* slot, which needs no lock of the queues; without one, a queue none of whose
\* members is selectable falls back on the isolated ones, and the backup queue
\* serves while the primary is empty.
Candidates ==
  LET served == IF primary # {} THEN primary ELSE backup
      selectable == {b \in served : Selectable(b)}
  IN  {b \in Backends : Selectable(b)} \cup
      (IF Unlocked /\ selectable = {} THEN {b \in served : st[b] = "isolated"} ELSE {})

\* A connection that races two backends holds both: it is two of the Conns.
ConnSelect(c) ==
  /\ phase[c] = "idle"
  /\ \E b \in Candidates : victim' = [victim EXCEPT ![c] = b]
  /\ phase' = [phase EXCEPT ![c] = "held"]
  /\ UNCHANGED <<poolVars, ipSet, st, samples, unseen, proberVars, hpc, dpc,
                 mark, debtVars, roundVars>>

\* A first byte from the server, or a race in which every connect failed.
ConnRecord(c) ==
  /\ phase[c] = "held"
  /\ samples' = [samples EXCEPT ![victim[c]] = Sampled(@)]
  /\ UNCHANGED <<poolVars, ipSet, st, unseen, proberVars, hpc, phase,
                 deactVars, debtVars, roundVars>>

EvictJudged(b) == /\ st[b] \notin {"isolated", "removed"}
                  /\ samples[b] >= EvictThreshold

\* check_and_evict finds the averages over a threshold ...
ConnEvict(c) ==
  /\ phase[c] = "held" /\ EvictJudged(victim[c])
  /\ BeginDeactivation(c, victim[c], "isolated")
  /\ phase' = [phase EXCEPT ![c] = "released"]
  /\ UNCHANGED <<poolVars, ipSet, st, samples, unseen, proberVars, hpc,
                 debtVars, roundVars>>

\* ... or has nothing to say.
ConnKeep(c) ==
  /\ phase[c] = "held"
  /\ phase' = [phase EXCEPT ![c] = "released"]
  /\ UNCHANGED <<poolVars, ipSet, st, samples, unseen, proberVars, hpc,
                 deactVars, debtVars, roundVars>>

\* Two failures within three seconds of connecting: the backend is removed.
ConnFastFail(c) ==
  /\ phase[c] = "released" /\ dpc[c] = None /\ Settled(c)
  /\ BeginDeactivation(c, victim[c], "removed")
  /\ phase' = [phase EXCEPT ![c] = "closing"]
  /\ UNCHANGED <<poolVars, ipSet, st, samples, unseen, proberVars, hpc,
                 debtVars, roundVars>>

ConnEnd(c) ==
  /\ phase[c] \in {"released", "closing"} /\ dpc[c] = None /\ Settled(c)
  /\ phase' = [phase EXCEPT ![c] = "idle"]
  /\ victim' = [victim EXCEPT ![c] = None]
  /\ UNCHANGED <<poolVars, ipSet, st, samples, unseen, proberVars, hpc, dpc,
                 mark, debtVars, roundVars>>

----------------------------------------------------------------------------
(* The health loop and its rounds *)

\* A tick of either interval.  A wall clock that moved more than a minute
\* resets the metrics of every queued backend (reset_all_metrics).
HealthTick(q, jump) ==
  /\ hpc = "wait" /\ (jump => Unlocked)
  /\ \E r \in Rounds : phase[r] = "idle"     \* bound: Rounds
  /\ hpc' = q
  /\ samples' = IF jump THEN [b \in Backends |-> IF b \in Pooled THEN 0
                                                 ELSE samples[b]]
                ELSE samples
  /\ UNCHANGED <<poolVars, ipSet, st, unseen, proberVars, phase, deactVars,
                 debtVars, roundVars>>

\* run_health_check_for_pool: under the write lock, backends that have warmed
\* up become active and the queue is copied; an empty queue starts nothing.
StartRound(r) ==
  /\ hpc # "wait" /\ phase[r] = "idle" /\ Settled(r) /\ Unlocked
  /\ LET members == IF hpc = "primary" THEN primary ELSE backup IN
     /\ \E warm \in SUBSET {b \in members : st[b] = "warming"} :
          st' = [b \in Backends |-> IF b \in warm THEN "active" ELSE st[b]]
     /\ todo' = [todo EXCEPT ![r] = members]
     /\ phase' = [phase EXCEPT ![r] = IF members = {} THEN "idle" ELSE "spawn"]
     /\ queue' = [queue EXCEPT ![r] = IF members = {} THEN None ELSE hpc]
  /\ hpc' = "wait"
  /\ UNCHANGED <<poolVars, ipSet, samples, unseen, proberVars, deactVars,
                 debtVars, inflight>>

Idle(r) == dpc[r] = None /\ Settled(r)
\* Mutant: one ping too many in flight.
ThrottledLate(r) == Cardinality(inflight[r]) > Concurrency

Throttled(r) == Cardinality(inflight[r]) >= Concurrency

\* The spawning loop skips what was removed since the snapshot.
SpawnPing(r) ==
  /\ phase[r] = "spawn" /\ Idle(r) /\ ~Throttled(r)
  /\ \E b \in todo[r] :
       /\ todo' = [todo EXCEPT ![r] = @ \ {b}]
       /\ inflight' = [inflight EXCEPT ![r] =
                         IF st[b] = "removed" THEN @ ELSE @ \cup {b}]
  /\ UNCHANGED <<poolVars, ipSet, st, samples, unseen, proberVars, hpc, phase,
                 deactVars, debtVars, queue>>

StartDrain(r) ==
  /\ phase[r] = "spawn" /\ Idle(r) /\ todo[r] = {} /\ ~Throttled(r)
  /\ phase' = [phase EXCEPT ![r] = IF inflight[r] = {} THEN "cleanup"
                                   ELSE "drain"]
  /\ UNCHANGED <<poolVars, ipSet, st, samples, unseen, proberVars, hpc,
                 deactVars, debtVars, roundVars>>

Awaiting(r) == /\ Idle(r)
               /\ \/ phase[r] = "spawn" /\ Throttled(r)
                  \/ phase[r] = "drain"

\* A result that leaves the backend alone (Action::None), with or without a
\* sample recorded.
ResultNone(r) ==
  /\ Awaiting(r)
  /\ \E b \in inflight[r] :
       /\ inflight' = [inflight EXCEPT ![r] = @ \ {b}]
       /\ samples' = [samples EXCEPT ![b] = Sampled(@)]
  /\ phase' = [phase EXCEPT ![r] = AfterFalse(r)]
  /\ UNCHANGED <<poolVars, ipSet, st, unseen, proberVars, hpc, deactVars,
                 debtVars, queue, todo>>

\* Action::Recover of a full window: an isolated backend is to become active.
ResultRecover(r) ==
  /\ Awaiting(r)
  /\ \E b \in inflight[r] :
       /\ Sampled(samples[b]) = SampleWindow /\ st[b] = "isolated"
       /\ inflight' = [inflight EXCEPT ![r] = @ \ {b}]
       /\ samples' = [samples EXCEPT ![b] = SampleWindow]
       /\ victim' = [victim EXCEPT ![r] = b]
  /\ dpc' = [dpc EXCEPT ![r] = "recover"]
  /\ phase' = [phase EXCEPT ![r] = AfterFalse(r)]
  /\ UNCHANGED <<poolVars, ipSet, st, unseen, proberVars, hpc, mark, debtVars,
                 queue, todo>>

Recover(r) ==
  /\ dpc[r] = "recover"
  /\ st' = [st EXCEPT ![victim[r]] = "active"]
  /\ AfterDeactivation(r)
  /\ UNCHANGED <<poolVars, ipSet, samples, unseen, proberVars, hpc, phase,
                 debtVars, roundVars>>

\* Over a threshold with a full window: a serving primary is isolated, one
\* already isolated or waiting in the backup queue is removed.
ResultBad(r) ==
  /\ Awaiting(r)
  /\ \E b \in inflight[r] :
       /\ Sampled(samples[b]) = SampleWindow
       /\ inflight' = [inflight EXCEPT ![r] = @ \ {b}]
       /\ samples' = [samples EXCEPT ![b] = SampleWindow]
       /\ BeginDeactivation(r, b, IF st[b] = "isolated" \/ queue[r] = "backup"
                                  THEN "removed" ELSE "isolated")
  /\ UNCHANGED <<poolVars, ipSet, st, unseen, proberVars, hpc, phase,
                 debtVars, queue, todo>>

\* A data centre outside the filter removes, with no sample recorded.
ResultColoMismatch(r) ==
  /\ Awaiting(r)
  /\ \E b \in inflight[r] :
       /\ inflight' = [inflight EXCEPT ![r] = @ \ {b}]
       /\ BeginDeactivation(r, b, "removed")
  /\ UNCHANGED <<poolVars, ipSet, st, samples, unseen, proberVars, hpc, phase,
                 debtVars, queue, todo>>

\* The last ping of a drain has been judged, and it removed something.
DrainEmpty(r) ==
  /\ phase[r] = "drain" /\ Idle(r) /\ inflight[r] = {}
  /\ phase' = [phase EXCEPT ![r] = "cleanup"]
  /\ UNCHANGED <<poolVars, ipSet, st, samples, unseen, proberVars, hpc,
                 deactVars, debtVars, roundVars>>

\* What is removed at the moment of the reading.
Gone == {b \in Pooled : st[b] = "removed"}
\* Mutant: the addresses of removed primaries are not taken out of ip_set.
BackupAddresses == {IpOf[b] : b \in Gone \cap backup}
RemovedAddresses == {IpOf[b] : b \in Gone}
\* Mutant: the prober is notified only of removals from the primary queue.
PrimaryFreed == Gone \cap primary # {}
QueueFreed == Gone # {}

\* cleanup_removed takes the write lock and lists the addresses of the removed
\* backends ...
ReadRemoved(r) ==
  /\ phase[r] = "cleanup" /\ Idle(r) /\ Unlocked
  /\ untrack' = [untrack EXCEPT ![r] = RemovedAddresses]
  /\ listed' = Gone
  /\ phase' = [phase EXCEPT ![r] = "retain"]
  /\ UNCHANGED <<poolVars, ipSet, st, samples, unseen, proberVars, hpc,
                 deactVars, lost, loose, owes, roundVars>>

\* ... then asks every backend again and drops those removed by now; their
\* addresses leave ip_set afterwards (Untrack).  A mark that lands between the two
\* reads leaves an address out of step: lost, when its backend is dropped that was
\* not listed and the address stays in ip_set; loose, when its backend was listed
\* and stays queued and the address goes.  No guard reads these histories.
Missed == {IpOf[b] : b \in Gone \ listed}
Revived == {IpOf[b] : b \in listed \ Gone}

Retain(r) ==
  /\ phase[r] = "retain"
  /\ primary' = primary \ Gone
  /\ backup' = backup \ Gone
  /\ owes' = [owes EXCEPT ![r] = QueueFreed]
  /\ lost' = lost \cup Missed
  /\ loose' = loose \cup Revived
  /\ listed' = {}
  /\ inflight' = [inflight EXCEPT ![r] = {}]
  /\ phase' = [phase EXCEPT ![r] = "finish"]
  /\ UNCHANGED <<ipSet, st, samples, unseen, proberVars, hpc, deactVars, untrack,
                 queue, todo>>

\* The round's last step: a primary round refills; a backup round re-sorts the
\* backup queue, whose order is not modelled.
FinishRound(r) ==
  /\ phase[r] = "finish" /\ Idle(r) /\ Unlocked
  /\ IF queue[r] = "primary" THEN RefillFromBackup(r)
     ELSE UNCHANGED <<primary, backup, owes>>
  /\ phase' = [phase EXCEPT ![r] = "idle"]
  /\ queue' = [queue EXCEPT ![r] = None]
  /\ UNCHANGED <<ipSet, st, samples, unseen, proberVars, hpc, deactVars,
                 untrack, histVars, todo, inflight>>

----------------------------------------------------------------------------
Prober ==
  \/ \E ip \in Ips : ProbeContains(ip)
  \/ ProbeCountPrimary \/ ProbeCountBackup
  \/ \E b \in Backends : ProbeAdd(b)
  \/ PauseReadPrimary \/ PauseReadBackup \/ ProbeResume \/ ProbeNotice

Deactivation(t) ==
  \/ CheckFloor(t) \/ Promote(t) \/ Refuse(t) \/ Untrack(t) \/ NotifyResume(t)
  \/ Mark(t) \/ RefillAfterRemoval(t)

Conn(c) ==
  \/ ConnSelect(c) \/ ConnRecord(c) \/ ConnEvict(c) \/ ConnKeep(c)
  \/ ConnFastFail(c) \/ ConnEnd(c)

Round(r) ==
  \/ StartRound(r) \/ SpawnPing(r) \/ StartDrain(r)
  \/ ResultNone(r) \/ ResultRecover(r) \/ Recover(r) \/ ResultBad(r)
  \/ ResultColoMismatch(r) \/ DrainEmpty(r) \/ ReadRemoved(r)
  \/ Retain(r) \/ FinishRound(r)

Next ==
  \/ Prober
  \/ \E t \in Tasks : Deactivation(t)
  \/ \E c \in Conns : Conn(c)
  \/ \E q \in {"primary", "backup"}, jump \in Jumps : HealthTick(q, jump)
  \/ \E r \in Rounds : Round(r)

Spec == Init /\ [][Next]_vars

----------------------------------------------------------------------------
(* Properties *)

TypeOK ==
  /\ primary \subseteq Backends /\ backup \subseteq Backends
  /\ ipSet \subseteq Ips
  /\ st \in [Backends -> {"warming", "active", "isolated", "removed"}]
  /\ samples \in [Backends -> 0..SampleWindow]
  /\ unseen \in BOOLEAN
  /\ ppc \in {"run", "contains", "counted", "addPrimary", "addBackup",
             "pausing", "paused"}
  /\ cand \in Ips \cup {None} /\ room \in BOOLEAN
  /\ hpc \in {"wait", "primary", "backup"}
  /\ phase \in [Tasks -> {"idle", "held", "released", "closing",
                          "spawn", "drain", "cleanup", "retain", "finish"}]
  /\ dpc \in [Tasks -> {None, "floor", "promote", "mark", "refill", "recover"}]
  /\ victim \in [Tasks -> Backends \cup {None}]
  /\ mark \in [Tasks -> {None, "isolated", "removed"}]
  /\ \A t \in Tasks : dpc[t] \in {"floor", "promote", "mark"} => mark[t] # None
  /\ untrack \in [Tasks -> SUBSET Ips]
  /\ listed \subseteq Backends /\ lost \subseteq Ips /\ loose \subseteq Ips
  /\ owes \in [Tasks -> BOOLEAN]
  /\ queue \in [Rounds -> {None, "primary", "backup"}]
  /\ todo \in [Rounds -> SUBSET Backends]
  /\ inflight \in [Rounds -> SUBSET Backends]

\* An address is served by at most one object over both queues, although
\* try_add_backend tests ip_set long before it pushes (loadbalancer.rs:160),
\* unless a round revived its backend between the two reads of cleanup_removed.
NoAddressTwice ==
  /\ primary \cap backup = {}
  /\ \A a, b \in Pooled : IpOf[a] = IpOf[b] /\ IpOf[a] \notin loose => a = b

\* ip_set is the queued addresses, those a task is about to take out of it and
\* those lost by a mark between the two reads of cleanup_removed: no queued
\* backend can be collected again, no other way loses an address to the prober
\* for good, and a late removal never hits an address queued anew.
Queued(ip) == \E b \in Pooled : IpOf[b] = ip
Leaving(ip) == \E t \in Tasks : ip \in untrack[t] /\ phase[t] # "retain"
AddressesTracked ==
  \A ip \in Ips \ loose :
    /\ ip \in ipSet <=> Queued(ip) \/ Leaving(ip) \/ ip \in lost
    /\ ~(Queued(ip) /\ Leaving(ip))
    /\ ip \in lost => ~Queued(ip) /\ ~Leaving(ip)

\* The backup queue never outgrows its capacity, although the length is read
\* before the lock it is pushed under (loadbalancer.rs:165).
BackupBounded == Cardinality(backup) <= BackupTarget

\* A prober that pauses while a queue has room has been, or is about to be,
\* notified: the two reads of should_pause may straddle a removal.
NoLostWakeup ==
  ppc = "paused" =>
    \/ PrimaryFull /\ BackupFull
    \/ unseen
    \/ \E t \in Tasks : owes[t]

\* No ping of a round is dropped unjudged: the draining loop stops at the
\* first result that removed nothing (loadbalancer.rs:792).
EveryPingJudged ==
  \A r \in Rounds : phase[r] \in {"cleanup", "retain", "finish"} => inflight[r] = {}

\* The floor of the primary queue (loadbalancer.rs:23, 521-523): once that many
\* primaries can be selected, no step takes the queue below it.
FloorKept ==
  [][Cardinality(SelectablePrimary) >= MinActive
       => Cardinality(SelectablePrimary') >= MinActive]_vars

\* try_deactivate promises that the primary queue does not exceed its target
\* (loadbalancer.rs:522).
PrimaryWithinTarget == Cardinality(primary) <= PrimaryTarget
=============================================================================
