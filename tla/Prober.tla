------------------------------- MODULE Prober -------------------------------
(***************************************************************************)
(* The prober (src/core/httping.rs, run_continuous_httping): one task that *)
(* pings the addresses of the pool round and round, adds the good ones to  *)
(* the balancer and sleeps while there is nothing to do: both queues full, *)
(* or a whole turn of the pool that hit addresses collected already.  It   *)
(* sleeps on the watch channel of the balancer and on the cancellation     *)
(* token (CancelToken), step by step.                                      *)
(*   The pool is a circle of slots (IpPool).  A slot of a list has one     *)
(* address, a slot of an address range has many and yields any of them,    *)
(* drawn at each pop.                                                      *)
(*   The cache of results that found no room is left out: ResultsFindRoom  *)
(* says that no result ever gets there.                                    *)
(***************************************************************************)
EXTENDS Integers, FiniteSets

CONSTANTS
  Ips,            \* addresses
  Size,           \* slots of the pool, popped in a circle (see IpPool)
  Draws,          \* the addresses that a slot may yield
  PrimaryTarget, BackupTarget,
  Concurrency,    \* permits of the limiter
  Tasks,          \* rounds and connections that may remove backends
  Cancellers

ASSUME ProberAssumption ==
  /\ IsFiniteSet(Ips) /\ IsFiniteSet(Tasks)
  /\ Size \in Nat /\ Draws \in [1 .. Size -> SUBSET Ips \ {{}}]
  /\ PrimaryTarget \in Nat \ {0} /\ BackupTarget \in Nat \ {0}
  /\ Concurrency \in Nat \ {0}

Slots == 1 .. Size
Me == "prober"
None == 0

VARIABLES
  pc,               \* where the loop is: top, pausing, sweep, wait, contains,
                    \* counted, ended
  reason,           \* what the wait is for: paused, idle, join
  tasks,            \* pings in flight, by address: one may be there twice
  cand, room,       \* try_add_backend: the address, "the primary queue had room"
  hits,             \* consecutive_hits
  cursor,           \* the slot popped last
  primary, backup,  \* the addresses in the balancer's queues
  ipSet,            \* LoadBalancer::ip_set
  leaving,          \* addresses a task has taken out of the queues, not of ip_set
  owes,             \* tasks that have yet to notify
  unseen,           \* the watch channel holds a version the prober has not seen
  cancelled, cpc, wpc, woken  \* the token's

Token == INSTANCE CancelToken WITH Waiters <- {Me}

tokenVars == <<cancelled, cpc, wpc, woken>>
pingVars == <<tasks, cursor, hits>>
addVars == <<cand, room>>
poolVars == <<primary, backup, ipSet>>
debtVars == <<leaving, owes>>
vars == <<pc, reason, pingVars, addVars, poolVars, debtVars, unseen, tokenVars>>

Init ==
  /\ pc = "top" /\ reason = "none"
  /\ tasks = [a \in Ips |-> 0] /\ cursor = 0 /\ hits = 0
  /\ cand = None /\ room = FALSE
  /\ primary = {} /\ backup = {} /\ ipSet = {}
  /\ leaving = [t \in Tasks |-> {}] /\ owes = {}
  /\ unseen = FALSE
  /\ Token!Init

\* The pings in flight, numbered for each address, and tasks.len().
Pings == UNION {{a} \X (1 .. tasks[a]) : a \in Ips}
InFlight == Cardinality(Pings)
PrimaryFull == Cardinality(primary) >= PrimaryTarget
BackupFull == Cardinality(backup) >= BackupTarget
Full == PrimaryFull /\ BackupFull

----------------------------------------------------------------------------
(* One turn of the loop: the flag, the pause, the sweep                    *)

\* tasks.shutdown(): every ping is aborted and awaited.
End == pc' = "ended" /\ tasks' = [a \in Ips |-> 0]

TopCancelled ==
  /\ pc = "top" /\ cancelled /\ End
  /\ UNCHANGED <<reason, cursor, hits, addVars, poolVars, debtVars, unseen,
                 tokenVars>>

\* Mutant: full means more than the target.
PrimaryBeyond == Cardinality(primary) > PrimaryTarget
PauseLikely == PrimaryFull

\* should_pause reads the primary queue, and the backup queue only if that is
\* full.
PauseReadPrimary ==
  /\ pc = "top" /\ ~cancelled
  /\ pc' = IF PauseLikely THEN "pausing" ELSE "sweep"
  /\ UNCHANGED <<reason, pingVars, addVars, poolVars, debtVars, unseen, tokenVars>>

PauseReadBackup ==
  /\ pc = "pausing"
  /\ IF BackupFull THEN pc' = "wait" /\ reason' = "paused"
     ELSE pc' = "sweep" /\ UNCHANGED reason
  /\ UNCHANGED <<pingVars, addVars, poolVars, debtVars, unseen, tokenVars>>

\* Mutant: the sweep stops one slot short of a full turn.
ShortTurn == Size - 1
SweepLimit == Size

\* Mutant: hits are not counted.
Uncounted(n) == n
NextHits(n) == n + 1

\* Mutant: one ping more than there are permits.
PermitsInclusive == InFlight <= Concurrency
Permits == InFlight < Concurrency

Sweeping == Permits /\ Size > 0 /\ hits < SweepLimit
Popped == (cursor % Size) + 1

\* pop() draws an address of the next slot, contains() looks it up: one that the
\* balancer has is skipped ...
PopCollected ==
  /\ pc = "sweep" /\ Sweeping /\ Draws[Popped] \cap ipSet # {}
  /\ cursor' = Popped /\ hits' = NextHits(hits)
  /\ UNCHANGED <<pc, reason, tasks, addVars, poolVars, debtVars, unseen, tokenVars>>

\* ... any other is pinged, also if a ping of it is still in flight.
PopNew ==
  /\ pc = "sweep" /\ Sweeping
  /\ \E a \in Draws[Popped] \ ipSet : tasks' = [tasks EXCEPT ![a] = @ + 1]
  /\ cursor' = Popped /\ hits' = 0
  /\ UNCHANGED <<pc, reason, addVars, poolVars, debtVars, unseen, tokenVars>>

SweepEnds ==
  /\ pc = "sweep" /\ ~Sweeping
  /\ pc' = "wait" /\ reason' = IF InFlight = 0 THEN "idle" ELSE "join"
  /\ hits' = 0
  /\ UNCHANGED <<tasks, cursor, addVars, poolVars, debtVars, unseen, tokenVars>>

----------------------------------------------------------------------------
(* The wait: a select! of the token with the channel or with the pings *)

\* The token's branch is polled ...
PollToken ==
  /\ pc = "wait"
  /\ Token!CreateFuture(Me) \/ Token!CheckFlag(Me) \/ Token!Poll(Me)
  /\ UNCHANGED <<pc, reason, pingVars, addVars, poolVars, debtVars, unseen>>

\* ... and may win, ...
Cancelled ==
  /\ pc = "wait" /\ wpc[Me] = "returned" /\ End
  /\ UNCHANGED <<reason, cursor, hits, addVars, poolVars, debtVars, unseen,
                 tokenVars>>

\* ... or the other one does, and the token's future is dropped if the select!
\* has come to create it.
OtherBranch ==
  /\ pc = "wait" /\ wpc[Me] # "returned" /\ reason' = "none"
  /\ IF wpc[Me] = "idle" THEN UNCHANGED tokenVars ELSE Token!Drop(Me)

Resumed ==
  /\ OtherBranch /\ pc' = "top" /\ reason # "join" /\ unseen
  /\ unseen' = FALSE
  /\ UNCHANGED <<pingVars, addVars, poolVars, debtVars>>

Joined(a) ==
  /\ OtherBranch /\ reason = "join" /\ tasks[a] > 0
  /\ tasks' = [tasks EXCEPT ![a] = @ - 1]
  /\ UNCHANGED <<cursor, hits, poolVars, debtVars, unseen, room>>

\* The ping failed, panicked, or met the wrong site or too long a delay; or its
\* address has been collected meanwhile.
Discard(a) == Joined(a) /\ pc' = "top" /\ UNCHANGED cand

\* try_add_backend: ip_set, the primary length and the backup length are read
\* under separate locks.
Candidate(a) ==
  /\ Joined(a) /\ a \notin ipSet
  /\ pc' = "contains" /\ cand' = a

CountPrimary ==
  /\ pc = "contains" /\ pc' = "counted" /\ room' = ~PrimaryFull
  /\ UNCHANGED <<reason, pingVars, cand, poolVars, debtVars, unseen, tokenVars>>

\* The backup length is read, and the address added where there was room.
Add ==
  /\ pc = "counted" /\ pc' = "top"
  /\ primary' = IF room THEN primary \cup {cand} ELSE primary
  /\ backup' = IF room THEN backup ELSE backup \cup {cand}
  /\ ipSet' = ipSet \cup {cand}
  /\ cand' = None /\ room' = FALSE
  /\ UNCHANGED <<reason, pingVars, debtVars, unseen, tokenVars>>

----------------------------------------------------------------------------
(* The balancer's side, and stop() *)

\* A critical section of a removal, an eviction or a promotion: some backends
\* leave, some move up (BackendPools has the choice in detail), and addresses of
\* those that left are to leave ip_set: all of them, unless a mark came between
\* the two reads of cleanup_removed; what is not among them stays for ever.
\* (The opposite, an address that goes while its backend stays queued, is in
\* BackendPools alone.)
Shrink(t) ==
  /\ t \notin owes
  /\ \E gone \in SUBSET (primary \cup backup), up \in SUBSET backup :
       /\ gone \cup up # {} /\ gone \cap up = {}
       /\ primary' = (primary \ gone) \cup up
       /\ backup' = backup \ (gone \cup up)
       /\ \E out \in SUBSET gone : leaving' = [leaving EXCEPT ![t] = out]
  /\ owes' = owes \cup {t}
  /\ UNCHANGED <<pc, reason, pingVars, addVars, ipSet, unseen, tokenVars>>

\* One address after the other leaves ip_set, then the prober is notified.
Untrack(t) ==
  /\ \E a \in leaving[t] : /\ ipSet' = ipSet \ {a}
                           /\ leaving' = [leaving EXCEPT ![t] = @ \ {a}]
  /\ UNCHANGED <<pc, reason, pingVars, addVars, primary, backup, owes, unseen,
                 tokenVars>>

\* Mutant: a notification reaches only a prober that waits already.
WaiterVersion == unseen \/ pc = "wait"
\* The channel keeps its last version.
NotifyVersion == TRUE

NotifyResume(t) ==
  /\ t \in owes /\ leaving[t] = {}
  /\ owes' = owes \ {t} /\ unseen' = NotifyVersion
  /\ UNCHANGED <<pc, reason, pingVars, addVars, poolVars, leaving, tokenVars>>

Cancel(c) ==
  /\ Token!SetFlag(c) \/ Token!NotifyWaiters(c)
  /\ UNCHANGED <<pc, reason, pingVars, addVars, poolVars, debtVars, unseen>>

Run ==
  \/ TopCancelled \/ PauseReadPrimary \/ PauseReadBackup
  \/ PopCollected \/ PopNew \/ SweepEnds
  \/ PollToken \/ Cancelled \/ Resumed
  \/ \E a \in Ips : Discard(a) \/ Candidate(a)
  \/ CountPrimary \/ Add

Next ==
  \/ Run
  \/ \E t \in Tasks : Shrink(t) \/ Untrack(t) \/ NotifyResume(t)
  \/ \E c \in Cancellers : Cancel(c)

Spec == Init /\ [][Next]_vars

\* The prober runs, and its pings end: each request has a timeout.  Removals and
\* cancel() do not stop between two of their steps.
Fairness ==
  /\ WF_vars(Run)
  /\ \A t \in Tasks : WF_vars(Untrack(t)) /\ WF_vars(NotifyResume(t))
  /\ \A c \in Cancellers : WF_vars(cpc[c] = "notify" /\ Cancel(c))
FairSpec == Spec /\ Fairness

----------------------------------------------------------------------------
(* Properties *)

\* The types, and the limit on pings in flight: the permits (httping.rs:218).
TypeOK ==
  /\ pc \in {"top", "pausing", "sweep", "wait", "contains", "counted", "ended"}
  /\ reason \in {"none", "paused", "idle", "join"}
  /\ tasks \in [Ips -> 0 .. Concurrency] /\ InFlight <= Concurrency
  /\ cursor \in 0 .. Size /\ hits \in 0 .. Size
  /\ cand \in Ips \cup {None} /\ room \in BOOLEAN
  /\ primary \subseteq ipSet /\ backup \subseteq ipSet /\ ipSet \subseteq Ips
  /\ leaving \in [Tasks -> SUBSET ipSet] /\ owes \subseteq Tasks
  /\ unseen \in BOOLEAN
  /\ Token!TypeOK

Asleep(why) == pc = "wait" /\ reason \in why /\ wpc[Me] # "returned"
WakeUpDue == unseen \/ owes # {}

\* A slot one of whose addresses the balancer counts as collected.
Answered(s) == Draws[s] \cap ipSet # {}

\* The prober goes idle only when every slot of the pool has an address in ip_set:
\* an address that leaves the set, even in the middle of the sweep, leaves a
\* wake-up behind (httping.rs:214-247).  Of a slot of many addresses the others
\* may never have been drawn, and one may be in ip_set that has no backend left.
NoSlotForgotten ==
  Asleep({"idle"}) => WakeUpDue \/ \A s \in Slots : Answered(s)

\* A measured result always finds room, although the queues change between the
\* reads of should_pause and those of try_add_backend: the prober alone adds, and
\* checks for room before it joins each result.  QueueFull is never answered, so
\* that result_cache stays empty (httping.rs:176-192, 261-266).
ResultsFindRoom == pc = "counted" => room \/ ~BackupFull

\* The wait on the token is never lost, however select! drops and renews it
\* (cancel.rs:33-42).
NoSleeper == Token!NoSleeper

\* A cancelled prober ends, whatever it was doing: a sweep has no await and ends
\* by its limit alone (httping.rs:195-198, 214-233).
ProberEnds == cancelled ~> pc = "ended"

\* While there is room, no slot of the pool is passed over for ever: ip_set has an
\* address of it, or one is pinged, again and again (httping.rs:216-233).
EverySlotProbed ==
  \A s \in Slots :
    []<>(Answered(s) \/ (\E a \in Draws[s] : tasks[a] > 0) \/ Full \/ pc = "ended")
=============================================================================
