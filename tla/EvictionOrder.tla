--------------------------- MODULE EvictionOrder ---------------------------
(***************************************************************************)
(* The order of the backup queue: sort_backup orders it by cmp_eviction    *)
(* after a health round, refill and promotion take from its front.  The    *)
(* averages and loads it compares go on changing.  They are small numbers  *)
(* here; a difference counts when it exceeds its threshold.                *)
(***************************************************************************)
EXTENDS Integers, Sequences, SequencesExt

CONSTANTS
  Backends,
  Delays, DelayThreshold,  \* numbers; Backend::DELAY_COMPARE_THRESHOLD
  Losses, LossThreshold,   \* numbers; Backend::LOSS_COMPARE_THRESHOLD
  Loads                    \* numbers of connections

VARIABLES
  backup,             \* BalancerInner::backup
  delay, loss, load,  \* the averages and the connections of each backend
  sorted              \* history: nothing has changed since the last sort

vars == <<backup, delay, loss, load, sorted>>

Init ==
  /\ backup = <<>>
  /\ delay \in [Backends -> Delays] /\ loss \in [Backends -> Losses]
  /\ load = [b \in Backends |-> 0]
  /\ sorted = TRUE

Differ(m, n, threshold) == m - n > threshold \/ n - m > threshold

\* cmp_eviction(a, b) = Less: a is worse.
Worse(a, b) ==
  IF Differ(delay[a], delay[b], DelayThreshold) THEN delay[a] > delay[b]
  ELSE IF Differ(loss[a], loss[b], LossThreshold) THEN loss[a] > loss[b]
  ELSE load[a] < load[b]

\* A slice of at most 20 elements is sorted by insertion from the right; the
\* backup queue has at most max_backup_target = 10.
Inserted(s, b) ==
  LET stays == {0} \cup {k \in DOMAIN s : ~Worse(s[k], b)}
  IN  InsertAt(s, 1 + CHOOSE k \in stays : \A j \in stays : j <= k, b)

SortBackup ==
  /\ backup' = FoldLeft(Inserted, <<>>, backup)
  /\ sorted' = TRUE
  /\ UNCHANGED <<delay, loss, load>>

\* add_to_list
Add(b) ==
  /\ b \notin ToSet(backup)
  /\ backup' = Append(backup, b)
  /\ sorted' = FALSE
  /\ UNCHANGED <<delay, loss, load>>

\* refill_from_backup takes the first, try_deactivate the first that can be
\* selected, whose state is left out.
Take(i) ==
  /\ i \in DOMAIN backup /\ backup' = RemoveAt(backup, i)
  /\ UNCHANGED <<delay, loss, load, sorted>>

\* record() and the counts of connections.
Measured(b) ==
  /\ delay' \in {[delay EXCEPT ![b] = d] : d \in Delays}
  /\ loss' \in {[loss EXCEPT ![b] = l] : l \in Losses}
  /\ load' \in {[load EXCEPT ![b] = n] : n \in Loads}
  /\ sorted' = FALSE
  /\ UNCHANGED backup

Next ==
  \/ SortBackup
  \/ \E i \in DOMAIN backup : Take(i)
  \/ \E b \in Backends : Add(b) \/ Measured(b)

Spec == Init /\ [][Next]_vars

----------------------------------------------------------------------------
(* Properties *)

\* Of two backends whose delays differ by more than the threshold, the faster one
\* stands before the other after a sort: "the one with the high delay is evicted
\* first" (backend.rs:169-170).
DelayDecides ==
  sorted => \A i, j \in DOMAIN backup :
              i < j => delay[backup[i]] <= delay[backup[j]] + DelayThreshold
=============================================================================
