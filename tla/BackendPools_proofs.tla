------------------------ MODULE BackendPools_proofs ------------------------
(* Theorems about BackendPools, for every value of its constants. *)
EXTENDS BackendPools, TLAPS, FiniteSetTheorems

\* Backend::record keeps the sample count within the window.
LEMMA SampledBounds ==
  ASSUME NEW n \in 0..SampleWindow
  PROVE  Sampled(n) \in 0..SampleWindow
  BY PoolsAssumption DEF Sampled

\* Every variable keeps its type; a task that is about to mark a backend has
\* chosen the state it marks it with.
THEOREM TypeCorrect == Spec => []TypeOK
<1>1. Init => TypeOK
  <2> SUFFICES ASSUME Init PROVE TypeOK
    OBVIOUS
  <2>1. samples \in [Backends -> 0..SampleWindow]
    BY PoolsAssumption DEF Init
  <2>2. \A t \in Tasks :
          dpc[t] \in {"floor", "promote", "mark"} => mark[t] # None
    BY DEF Init, None
  <2> QED
    BY <2>1, <2>2 DEF Init, TypeOK, None
<1>2. TypeOK /\ [Next]_vars => TypeOK'
  <2> SUFFICES ASSUME TypeOK, [Next]_vars PROVE TypeOK'
    OBVIOUS
  <2> USE PoolsAssumption DEF TypeOK, Tasks, None, poolVars, proberVars,
        roundVars, deactVars, debtVars, histVars, AfterDeactivation, BeginDeactivation
  <2>1. ASSUME NEW ip \in Ips, ProbeContains(ip) PROVE TypeOK'
    BY <2>1 DEF ProbeContains
  <2>2. CASE ProbeCountPrimary
    BY <2>2 DEF ProbeCountPrimary
  <2>3. CASE ProbeCountBackup
    BY <2>3 DEF ProbeCountBackup
  <2>4. ASSUME NEW b \in Backends, ProbeAdd(b) PROVE TypeOK'
    BY <2>4 DEF ProbeAdd
  <2>5. CASE PauseReadPrimary
    BY <2>5 DEF PauseReadPrimary
  <2>6. CASE PauseReadBackup
    BY <2>6 DEF PauseReadBackup
  <2>7. CASE ProbeResume
    BY <2>7 DEF ProbeResume
  <2>8. ASSUME NEW t \in Tasks, CheckFloor(t) PROVE TypeOK'
    BY <2>8 DEF CheckFloor
  <2>9. ASSUME NEW t \in Tasks, Promote(t) PROVE TypeOK'
    BY <2>9 DEF Promote, SelectableBackup, Evictable
  <2>10. ASSUME NEW t \in Tasks, Refuse(t) PROVE TypeOK'
    BY <2>10 DEF Refuse, AfterFalse
  <2>11. ASSUME NEW t \in Tasks, Untrack(t) PROVE TypeOK'
    BY <2>11 DEF Untrack
  <2>12. ASSUME NEW t \in Tasks, NotifyResume(t) PROVE TypeOK'
    BY <2>12 DEF NotifyResume, NotifyVersion
  <2>13. ASSUME NEW t \in Tasks, Mark(t) PROVE TypeOK'
    <3>1. mark[t] \in {"isolated", "removed"}
      BY <2>13 DEF Mark
    <3>2. st' \in [Backends -> {"warming", "active", "isolated", "removed"}]
      BY <2>13, <3>1 DEF Mark
    <3>3. /\ dpc' \in [Tasks -> {None, "floor", "promote", "mark", "refill",
                                 "recover"}]
          /\ victim' \in [Tasks -> Backends \cup {None}]
          /\ mark' \in [Tasks -> {None, "isolated", "removed"}]
          /\ \A u \in Tasks :
               dpc'[u] \in {"floor", "promote", "mark"} => mark'[u] # None
      BY <2>13 DEF Mark
    <3> QED
      BY <2>13, <3>2, <3>3 DEF Mark
  <2>14. ASSUME NEW t \in Tasks, RefillAfterRemoval(t) PROVE TypeOK'
    BY <2>14 DEF RefillAfterRemoval, RefillFromBackup, Movable
  <2>15. ASSUME NEW c \in Conns, ConnSelect(c) PROVE TypeOK'
    BY <2>15 DEF ConnSelect, Candidates
  <2>16. ASSUME NEW c \in Conns, ConnRecord(c) PROVE TypeOK'
    BY <2>16, SampledBounds DEF ConnRecord
  <2>17. ASSUME NEW c \in Conns, ConnEvict(c) PROVE TypeOK'
    BY <2>17 DEF ConnEvict
  <2>18. ASSUME NEW c \in Conns, ConnKeep(c) PROVE TypeOK'
    BY <2>18 DEF ConnKeep
  <2>19. ASSUME NEW c \in Conns, ConnFastFail(c) PROVE TypeOK'
    BY <2>19 DEF ConnFastFail
  <2>20. ASSUME NEW c \in Conns, ConnEnd(c) PROVE TypeOK'
    BY <2>20 DEF ConnEnd
  <2>21. ASSUME NEW q \in {"primary", "backup"}, NEW jump \in Jumps, HealthTick(q, jump) PROVE TypeOK'
    BY <2>21 DEF HealthTick
  <2>22. ASSUME NEW r \in Rounds, StartRound(r) PROVE TypeOK'
    BY <2>22 DEF StartRound
  <2>23. ASSUME NEW r \in Rounds, SpawnPing(r) PROVE TypeOK'
    BY <2>23 DEF SpawnPing
  <2>24. ASSUME NEW r \in Rounds, StartDrain(r) PROVE TypeOK'
    BY <2>24 DEF StartDrain
  <2>25. ASSUME NEW r \in Rounds, ResultNone(r) PROVE TypeOK'
    BY <2>25, SampledBounds DEF ResultNone, AfterFalse
  <2>26. ASSUME NEW r \in Rounds, ResultRecover(r) PROVE TypeOK'
    BY <2>26 DEF ResultRecover, AfterFalse
  <2>27. ASSUME NEW r \in Rounds, Recover(r) PROVE TypeOK'
    BY <2>27 DEF Recover
  <2>28. ASSUME NEW r \in Rounds, ResultBad(r) PROVE TypeOK'
    BY <2>28 DEF ResultBad
  <2>29. ASSUME NEW r \in Rounds, ResultColoMismatch(r) PROVE TypeOK'
    BY <2>29 DEF ResultColoMismatch
  <2>30. ASSUME NEW r \in Rounds, DrainEmpty(r) PROVE TypeOK'
    BY <2>30 DEF DrainEmpty
  <2>31. ASSUME NEW r \in Rounds, ReadRemoved(r) PROVE TypeOK'
    BY <2>31 DEF ReadRemoved, Pooled, Gone, RemovedAddresses
  <2>34. ASSUME NEW r \in Rounds, Retain(r) PROVE TypeOK'
    <3>1. Missed \subseteq Ips /\ Revived \subseteq Ips
      BY DEF Missed, Revived, Pooled, Gone
    <3> QED
      BY <2>34, <3>1 DEF Retain, QueueFreed
  <2>35. CASE ProbeNotice
    BY <2>35 DEF ProbeNotice
  <2>32. ASSUME NEW r \in Rounds, FinishRound(r) PROVE TypeOK'
    <3>1. /\ primary' \subseteq Backends /\ backup' \subseteq Backends
          /\ owes' \in [Tasks -> BOOLEAN]
      BY <2>32 DEF FinishRound, RefillFromBackup, Movable
    <3>2. /\ phase' \in [Tasks -> {"idle", "held", "released", "closing",
                                   "spawn", "drain", "cleanup", "retain", "finish"}]
          /\ queue' \in [Rounds -> {None, "primary", "backup"}]
      BY <2>32 DEF FinishRound
    <3> QED
      BY <2>32, <3>1, <3>2 DEF FinishRound
  <2>33. CASE UNCHANGED vars
    BY <2>33 DEF vars
  <2> QED
    BY <2>1, <2>2, <2>3, <2>4, <2>5, <2>6, <2>7, <2>8, <2>9, <2>10,
       <2>11, <2>12, <2>13, <2>14, <2>15, <2>16, <2>17, <2>18, <2>19,
       <2>20, <2>21, <2>22, <2>23, <2>24, <2>25, <2>26, <2>27, <2>28,
       <2>29, <2>30, <2>31, <2>32, <2>33, <2>34, <2>35 DEF Next, Prober,
       Deactivation, Conn, Round
<1> QED
  BY <1>1, <1>2, PTL DEF Spec

----------------------------------------------------------------------------
(* The write lock of cleanup_removed *)

\* One round at a time is between the two reads of cleanup_removed; it owes
\* nothing yet, and what it is going to take out of ip_set are the addresses of the
\* backends it has listed, which are still queued.
HoldInv ==
  /\ \A t, u \in Tasks : phase[t] = "retain" /\ phase[u] = "retain" => t = u
  /\ \A t \in Tasks : phase[t] = "retain" =>
       /\ ~owes[t]
       /\ listed \subseteq Pooled /\ untrack[t] = {IpOf[b] : b \in listed}

\* While the lock is held no step changes the queues or the debts of its holder.
LEMMA HoldStep == TypeOK /\ HoldInv /\ [Next]_vars => HoldInv'
<1> SUFFICES ASSUME TypeOK, HoldInv, [Next]_vars PROVE HoldInv'
  OBVIOUS
<1> USE PoolsAssumption DEF HoldInv, Tasks, poolVars, proberVars, roundVars,
      deactVars, debtVars, histVars
\* A step that leaves the queues alone.
<1>1. ASSUME UNCHANGED <<poolVars, listed>>,
             \A t \in Tasks : phase'[t] = "retain" =>
               /\ phase[t] = "retain"
               /\ owes'[t] => owes[t]
               /\ untrack'[t] = untrack[t]
      PROVE  HoldInv'
  <2>1. Pooled' = Pooled
    BY <1>1 DEF Pooled
  <2> QED
    BY <1>1, <2>1
\* A step that needs the lock and does not keep it.
<1>2. ASSUME Unlocked, \A t \in Tasks : phase'[t] = "retain" => phase[t] = "retain"
      PROVE  HoldInv'
  BY <1>2 DEF Unlocked
<1>3. ASSUME NEW b \in Backends, ProbeAdd(b) PROVE HoldInv'
  BY <1>2, <1>3 DEF ProbeAdd
<1>4. CASE Prober
  <2>1. ASSUME UNCHANGED <<poolVars, listed, phase, untrack, owes>> PROVE HoldInv'
    BY <1>1, <2>1
  <2> QED
    BY <1>3, <1>4, <2>1 DEF Prober, ProbeContains, ProbeCountPrimary,
       ProbeCountBackup, PauseReadPrimary, PauseReadBackup, ProbeResume, ProbeNotice
<1>5. ASSUME NEW t \in Tasks, CheckFloor(t) \/ Mark(t) PROVE HoldInv'
  BY <1>1, <1>5 DEF CheckFloor, Mark
<1>6. ASSUME NEW t \in Tasks, Promote(t) \/ RefillAfterRemoval(t) PROVE HoldInv'
  BY <1>2, <1>6 DEF Promote, RefillAfterRemoval
<1>7. ASSUME NEW t \in Tasks, Refuse(t) PROVE HoldInv'
  <2>1. Unlocked /\ \A u \in Tasks : phase'[u] = "retain" => phase[u] = "retain"
    BY <1>7 DEF Refuse, AfterFalse, TypeOK
  <2> QED
    BY <1>2, <2>1
<1>8. ASSUME NEW t \in Tasks, Untrack(t) PROVE HoldInv'
  BY <1>1, <1>8 DEF Untrack, TypeOK
<1>9. ASSUME NEW t \in Tasks, NotifyResume(t) PROVE HoldInv'
  BY <1>1, <1>9 DEF NotifyResume, TypeOK
<1>10. ASSUME NEW t \in Tasks, UNCHANGED <<poolVars, listed, untrack, owes>>,
              \E next \in {"idle", "held", "released", "closing", "spawn", "drain",
                          "cleanup"} :
                phase' = [phase EXCEPT ![t] = next]
       PROVE  HoldInv'
  <2>1. \A u \in Tasks : phase'[u] = "retain" => phase[u] = "retain"
    BY <1>10 DEF TypeOK
  <2> QED
    BY <1>1, <1>10, <2>1
<1>11. ASSUME NEW c \in Conns, Conn(c) PROVE HoldInv'
  <2>1. CASE ConnRecord(c)
    BY <1>1, <2>1 DEF ConnRecord
  <2> QED
    BY <1>10, <1>11, <2>1 DEF Conn, ConnSelect, ConnEvict, ConnKeep, ConnFastFail,
       ConnEnd
<1>12. ASSUME NEW q \in {"primary", "backup"}, NEW jump \in Jumps, HealthTick(q, jump)
       PROVE  HoldInv'
  BY <1>1, <1>12 DEF HealthTick
<1>13. ASSUME NEW r \in Rounds, StartRound(r) PROVE HoldInv'
  <2>1. Unlocked /\ \A u \in Tasks : phase'[u] = "retain" => phase[u] = "retain"
    BY <1>13 DEF StartRound, TypeOK
  <2> QED
    BY <1>2, <2>1
<1>14. ASSUME NEW r \in Rounds, SpawnPing(r) \/ Recover(r) \/ ResultBad(r)
              \/ ResultColoMismatch(r)
       PROVE  HoldInv'
  BY <1>1, <1>14 DEF SpawnPing, Recover, ResultBad, ResultColoMismatch
<1>15. ASSUME NEW r \in Rounds, StartDrain(r) \/ DrainEmpty(r) PROVE HoldInv'
  BY <1>10, <1>15 DEF StartDrain, DrainEmpty
<1>16. ASSUME NEW r \in Rounds, ResultNone(r) \/ ResultRecover(r) PROVE HoldInv'
  <2>1. AfterFalse(r) \in {"idle", "held", "released", "closing", "spawn", "drain",
                           "cleanup"}
    <3>1. phase[r] \in {"spawn", "drain"}
      BY <1>16 DEF ResultNone, ResultRecover, Awaiting
    <3> QED
      BY <3>1 DEF AfterFalse
  <2> QED
    BY <1>10, <1>16, <2>1 DEF ResultNone, ResultRecover
\* The list is read from the queues, by a task that owes nothing.
<1>17. ASSUME NEW r \in Rounds, ReadRemoved(r) PROVE HoldInv'
  <2>1. /\ phase' = [phase EXCEPT ![r] = "retain"] /\ owes' = owes /\ ~owes[r]
        /\ untrack'[r] = RemovedAddresses /\ listed' = Gone
        /\ Pooled' = Pooled /\ Unlocked
    BY <1>17 DEF ReadRemoved, Idle, Settled, Pooled, TypeOK
  <2>2. \A t \in Tasks : phase'[t] = "retain" => t = r
    BY <2>1 DEF Unlocked, TypeOK
  <2>3. Gone \subseteq Pooled /\ RemovedAddresses = {IpOf[b] : b \in Gone}
    BY DEF RemovedAddresses, Gone
  <2> QED
    BY <2>1, <2>2, <2>3
<1>18. ASSUME NEW r \in Rounds, Retain(r) PROVE HoldInv'
  <2>1. \A t \in Tasks : phase'[t] # "retain"
    BY <1>18 DEF Retain, TypeOK
  <2> QED
    BY <2>1
<1>19. ASSUME NEW r \in Rounds, FinishRound(r) PROVE HoldInv'
  <2>1. Unlocked /\ \A u \in Tasks : phase'[u] = "retain" => phase[u] = "retain"
    BY <1>19 DEF FinishRound, TypeOK
  <2> QED
    BY <1>2, <2>1
<1>20. CASE UNCHANGED vars
  BY <1>1, <1>20 DEF vars
<1> QED
  BY <1>4, <1>5, <1>6, <1>7, <1>8, <1>9, <1>11, <1>12, <1>13, <1>14, <1>15, <1>16,
     <1>17, <1>18, <1>19, <1>20 DEF Next, Deactivation, Round

\* The lock is free at the start.
LEMMA HoldInvariant == Spec => []HoldInv
<1>1. Init => HoldInv
  BY DEF Init, HoldInv
<1> QED
  BY <1>1, HoldStep, TypeCorrect, PTL DEF Spec

----------------------------------------------------------------------------
(* Addresses *)

\* The prober carries a candidate it found outside ip_set.
Carrying == ppc \in {"contains", "counted", "addPrimary", "addBackup"}

\* Inductive, where AddressesTracked and NoAddressTwice are not: only the
\* prober adds to ip_set, so its candidate stays outside until it is added, and an
\* address waits to be taken out on behalf of one task only.  An address is queued
\* and on a list only while the lister holds the lock.
TrackInv ==
  /\ primary \cap backup = {}
  /\ \A a, b \in Pooled : IpOf[a] = IpOf[b] /\ IpOf[a] \notin loose => a = b
  /\ \A ip \in Ips : ip \notin loose =>
       (ip \in ipSet <=> \/ \E b \in Pooled : IpOf[b] = ip
                         \/ \E t \in Tasks : ip \in untrack[t]
                         \/ ip \in lost)
  /\ \A t \in Tasks, b \in Pooled :
       IpOf[b] \in untrack[t] => IpOf[b] \in loose \/ phase[t] = "retain"
  /\ \A t, u \in Tasks, ip \in Ips :
       t # u /\ ip \in untrack[t] /\ ip \in untrack[u] => ip \in loose
  /\ \A b \in Pooled : IpOf[b] \in lost => IpOf[b] \in loose
  /\ \A t \in Tasks, ip \in lost : ip \in untrack[t] => ip \in loose
  /\ Carrying => cand \in Ips /\ cand \notin ipSet

\* Every step of every task keeps the accounting of addresses.
LEMMA TrackStep == TypeOK /\ HoldInv /\ TrackInv /\ [Next]_vars => TrackInv'
<1> SUFFICES ASSUME TypeOK, HoldInv, TrackInv, [Next]_vars PROVE TrackInv'
  OBVIOUS
<1> USE PoolsAssumption DEF TrackInv, Pooled, Tasks, poolVars, proberVars,
      roundVars, deactVars, debtVars, histVars
<1>0. ASSUME UNCHANGED <<primary, backup, ipSet, untrack, lost, loose, ppc, cand>>,
             \A t \in Tasks : phase[t] = "retain" => phase'[t] = "retain"
      PROVE  TrackInv'
  BY <1>0 DEF Carrying
\* A step that moves backends from one queue to the other.
<1>00. ASSUME UNCHANGED <<Pooled, ipSet, untrack, lost, loose, ppc, cand>>,
              \A t \in Tasks : phase[t] = "retain" => phase'[t] = "retain",
              primary' \cap backup' = {}
       PROVE  TrackInv'
  BY <1>00 DEF Carrying
<1>1. ASSUME NEW ip \in Ips, ProbeContains(ip) PROVE TrackInv'
  BY <1>1 DEF ProbeContains, Collected, Carrying
<1>2. CASE ProbeCountPrimary
  BY <1>2 DEF ProbeCountPrimary, Carrying
<1>3. CASE ProbeCountBackup
  BY <1>3 DEF ProbeCountBackup, Carrying
<1>4. ASSUME NEW b \in Backends, ProbeAdd(b) PROVE TrackInv'
  <2>1. b \notin Pooled /\ IpOf[b] = cand /\ cand \notin ipSet
    BY <1>4 DEF ProbeAdd, Fresh, Carrying
  <2>2. Pooled' = Pooled \cup {b} /\ primary' \cap backup' = {}
    BY <1>4, <2>1 DEF ProbeAdd
  <2>3. /\ ipSet' = ipSet \cup {cand} /\ ppc' = "run"
        /\ UNCHANGED <<untrack, lost, loose, phase>>
    BY <1>4 DEF ProbeAdd
  <2>10. cand \in Ips
    BY <1>4 DEF ProbeAdd, Carrying
  <2>4. cand \notin loose =>
          /\ \A a \in Pooled : IpOf[a] # cand
          /\ \A t \in Tasks : cand \notin untrack[t]
          /\ cand \notin lost
    <3>1. cand \notin loose =>
            (cand \in ipSet <=> \/ \E a \in Pooled : IpOf[a] = cand
                                \/ \E t \in Tasks : cand \in untrack[t]
                                \/ cand \in lost)
      BY <2>10
    <3> QED
      BY <2>1, <3>1
  <2>5. \A c, d \in Pooled' : IpOf[c] = IpOf[d] /\ IpOf[c] \notin loose => c = d
    BY <2>1, <2>2, <2>4
  <2>6. ASSUME NEW ip \in Ips, ip \notin loose
        PROVE  ip \in ipSet' <=> \/ \E c \in Pooled' : IpOf[c] = ip
                                 \/ \E t \in Tasks : ip \in untrack[t]
                                 \/ ip \in lost
    <3>1. (\E c \in Pooled' : IpOf[c] = ip) <=> ip = cand \/ \E c \in Pooled : IpOf[c] = ip
      BY <2>1, <2>2
    <3>2. ip \in ipSet' <=> ip = cand \/ ip \in ipSet
      BY <2>3
    <3>3. ip \in ipSet <=> \/ \E c \in Pooled : IpOf[c] = ip
                           \/ \E t \in Tasks : ip \in untrack[t]
                           \/ ip \in lost
      BY <2>6
    <3> QED
      BY <3>1, <3>2, <3>3
  <2>7. /\ \A t \in Tasks, c \in Pooled' :
             IpOf[c] \in untrack[t] => IpOf[c] \in loose \/ phase[t] = "retain"
        /\ \A c \in Pooled' : IpOf[c] \in lost => IpOf[c] \in loose
    BY <2>1, <2>2, <2>4
  <2>8. /\ \A t, u \in Tasks, ip \in Ips :
             t # u /\ ip \in untrack[t] /\ ip \in untrack[u] => ip \in loose
        /\ \A t \in Tasks, ip \in lost : ip \in untrack[t] => ip \in loose
    OBVIOUS
  <2>9. ~Carrying'
    BY <2>3 DEF Carrying
  <2>11. /\ lost' = lost /\ loose' = loose /\ untrack' = untrack /\ phase' = phase
        /\ primary' \cap backup' = {}
    BY <2>2, <2>3
  <2> HIDE DEF Pooled
  <2>12. \A c, d \in Pooled' : IpOf[c] = IpOf[d] /\ IpOf[c] \notin loose' => c = d
    BY <2>5, <2>11
  <2>13. \A ip \in Ips : ip \notin loose' =>
           (ip \in ipSet' <=> \/ \E c \in Pooled' : IpOf[c] = ip
                              \/ \E t \in Tasks : ip \in untrack'[t]
                              \/ ip \in lost')
    BY <2>6, <2>11
  <2>14. /\ \A t \in Tasks, c \in Pooled' :
              IpOf[c] \in untrack'[t] => IpOf[c] \in loose' \/ phase'[t] = "retain"
         /\ \A c \in Pooled' : IpOf[c] \in lost' => IpOf[c] \in loose'
    BY <2>7, <2>11
  <2>15. /\ \A t, u \in Tasks, ip \in Ips :
              t # u /\ ip \in untrack'[t] /\ ip \in untrack'[u] => ip \in loose'
         /\ \A t \in Tasks, ip \in lost' : ip \in untrack'[t] => ip \in loose'
    BY <2>8, <2>11
  <2> QED
    BY <2>9, <2>11, <2>12, <2>13, <2>14, <2>15
<1>5. CASE PauseReadPrimary
  BY <1>5 DEF PauseReadPrimary, Carrying
<1>6. CASE PauseReadBackup
  BY <1>6 DEF PauseReadBackup, Carrying
<1>7. CASE ProbeResume
  BY <1>7 DEF ProbeResume, Carrying
<1>8. ASSUME NEW t \in Tasks, CheckFloor(t) PROVE TrackInv'
  BY <1>8, <1>0 DEF CheckFloor
<1>9. ASSUME NEW t \in Tasks, Promote(t) PROVE TrackInv'
  <2> PICK b \in SelectableBackup :
        /\ backup' = backup \ {b}
        /\ IF Evictable = {}
             THEN primary' = primary \cup {b} /\ untrack' = untrack
             ELSE \E e \in Evictable :
                    /\ primary' = (primary \ {e}) \cup {b}
                    /\ untrack' = [untrack EXCEPT ![t] = @ \cup {IpOf[e]}]
    BY <1>9 DEF Promote
  <2>1. b \in backup /\ b \notin primary
    BY DEF SelectableBackup
  <2>2. Unlocked /\ UNCHANGED <<ipSet, ppc, cand, lost, loose, phase>>
    BY <1>9 DEF Promote
  <2>3. CASE Evictable = {}
    <3>1. Pooled' = Pooled /\ untrack' = untrack /\ primary' \cap backup' = {}
      BY <2>1, <2>3
    <3> QED
      BY <1>00, <2>2, <3>1
  <2>4. CASE Evictable # {}
    <3> PICK e \in Evictable :
          /\ primary' = (primary \ {e}) \cup {b}
          /\ untrack' = [untrack EXCEPT ![t] = @ \cup {IpOf[e]}]
      BY <2>4
    <3>1. e \in primary
      BY DEF Evictable
    <3>2. Pooled' = Pooled \ {e} /\ primary' \cap backup' = {}
      BY <2>1, <3>1
    <3>3. \A u \in Tasks : untrack'[u] = IF u = t THEN untrack[u] \cup {IpOf[e]}
                                         ELSE untrack[u]
      BY DEF TypeOK
    <3>4. \A a \in Pooled' : IpOf[a] = IpOf[e] => IpOf[a] \in loose
      BY <3>1, <3>2
    <3>5. \A u \in Tasks : IpOf[e] \in untrack[u] => IpOf[e] \in loose
      BY <2>2, <3>1 DEF Unlocked
    <3>6. ASSUME NEW ip \in Ips, ip \notin loose
          PROVE  ip \in ipSet <=> \/ \E a \in Pooled' : IpOf[a] = ip
                                  \/ \E u \in Tasks : ip \in untrack'[u]
                                  \/ ip \in lost
      <4>1. (\E u \in Tasks : ip \in untrack'[u])
              <=> ip = IpOf[e] \/ \E u \in Tasks : ip \in untrack[u]
        <5>1. ip = IpOf[e] => ip \in untrack'[t]
          BY <3>3
        <5> QED
          BY <3>3, <5>1
      <4>2. (\E a \in Pooled : IpOf[a] = ip)
              <=> ip = IpOf[e] \/ \E a \in Pooled' : IpOf[a] = ip
        BY <3>1, <3>2
      <4> QED
        BY <3>6, <4>1, <4>2
    <3>7. \A u \in Tasks, a \in Pooled' :
            IpOf[a] \in untrack'[u] => IpOf[a] \in loose \/ phase[u] = "retain"
      BY <3>2, <3>3, <3>4
    <3>8. \A u, v \in Tasks, ip \in Ips :
            u # v /\ ip \in untrack'[u] /\ ip \in untrack'[v] => ip \in loose
      BY <3>3, <3>5
    <3>9. \A u \in Tasks, ip \in lost : ip \in untrack'[u] => ip \in loose
      BY <3>1, <3>3
    <3> QED
      BY <2>2, <3>2, <3>6, <3>7, <3>8, <3>9 DEF Carrying
  <2> QED
    BY <2>3, <2>4
<1>10. ASSUME NEW t \in Tasks, Refuse(t) PROVE TrackInv'
  BY <1>10, <1>0 DEF Refuse, Unlocked
<1>11. ASSUME NEW t \in Tasks, Untrack(t) PROVE TrackInv'
  <2> PICK ip \in untrack[t] :
        /\ ipSet' = ipSet \ {ip}
        /\ untrack' = [untrack EXCEPT ![t] = @ \ {ip}]
    BY <1>11 DEF Untrack
  <2>1. \A u \in Tasks : untrack'[u] = IF u = t THEN untrack[u] \ {ip}
                                       ELSE untrack[u]
    BY DEF TypeOK
  <2>2. /\ phase[t] # "retain"
        /\ UNCHANGED <<primary, backup, ppc, cand, lost, loose, phase>>
    BY <1>11 DEF Untrack
  <2>3. ip \notin loose => /\ \A b \in Pooled : IpOf[b] # ip
                          /\ \A u \in Tasks \ {t} : ip \notin untrack[u]
                          /\ ip \notin lost
    BY <2>2 DEF TypeOK
  <2>4. ASSUME NEW i \in Ips, i \notin loose
        PROVE  i \in ipSet' <=> \/ \E b \in Pooled : IpOf[b] = i
                                \/ \E u \in Tasks : i \in untrack'[u]
                                \/ i \in lost
    <3>1. CASE i = ip
      BY <2>1, <2>3, <2>4, <3>1
    <3>2. CASE i # ip
      <4>1. (\E u \in Tasks : i \in untrack'[u]) <=> \E u \in Tasks : i \in untrack[u]
        BY <2>1, <3>2
      <4> QED
        BY <2>4, <3>2, <4>1
    <3> QED
      BY <3>1, <3>2
  <2>5. \A u \in Tasks : untrack'[u] \subseteq untrack[u]
    BY <2>1
  <2> QED
    BY <2>2, <2>4, <2>5 DEF Carrying
<1>12. ASSUME NEW t \in Tasks, NotifyResume(t) PROVE TrackInv'
  BY <1>12, <1>0 DEF NotifyResume
<1>13. ASSUME NEW t \in Tasks, Mark(t) PROVE TrackInv'
  BY <1>13, <1>0 DEF Mark
<1>14. ASSUME NEW t \in Tasks, RefillAfterRemoval(t) PROVE TrackInv'
  <2>1. Pooled' = Pooled /\ primary' \cap backup' = {}
    BY <1>14 DEF RefillAfterRemoval, RefillFromBackup, Movable
  <2>2. UNCHANGED <<ipSet, untrack, lost, loose, ppc, cand, phase>>
    BY <1>14 DEF RefillAfterRemoval
  <2> QED
    BY <1>00, <2>1, <2>2
<1>15. ASSUME NEW c \in Conns, ConnSelect(c) PROVE TrackInv'
  BY <1>15, <1>0 DEF ConnSelect, TypeOK
<1>16. ASSUME NEW c \in Conns, ConnRecord(c) PROVE TrackInv'
  BY <1>16, <1>0 DEF ConnRecord
<1>17. ASSUME NEW c \in Conns, ConnEvict(c) PROVE TrackInv'
  BY <1>17, <1>0 DEF ConnEvict, TypeOK
<1>18. ASSUME NEW c \in Conns, ConnKeep(c) PROVE TrackInv'
  BY <1>18, <1>0 DEF ConnKeep, TypeOK
<1>19. ASSUME NEW c \in Conns, ConnFastFail(c) PROVE TrackInv'
  BY <1>19, <1>0 DEF ConnFastFail, TypeOK
<1>20. ASSUME NEW c \in Conns, ConnEnd(c) PROVE TrackInv'
  BY <1>20, <1>0 DEF ConnEnd, TypeOK
<1>21. ASSUME NEW q \in {"primary", "backup"}, NEW jump \in Jumps, HealthTick(q, jump) PROVE TrackInv'
  BY <1>21, <1>0 DEF HealthTick
<1>22. ASSUME NEW r \in Rounds, StartRound(r) PROVE TrackInv'
  BY <1>22, <1>0 DEF StartRound, TypeOK
<1>23. ASSUME NEW r \in Rounds, SpawnPing(r) PROVE TrackInv'
  BY <1>23, <1>0 DEF SpawnPing
<1>24. ASSUME NEW r \in Rounds, StartDrain(r) PROVE TrackInv'
  BY <1>24, <1>0 DEF StartDrain, TypeOK
<1>25. ASSUME NEW r \in Rounds, ResultNone(r) PROVE TrackInv'
  BY <1>25, <1>0 DEF ResultNone, Awaiting, TypeOK
<1>26. ASSUME NEW r \in Rounds, ResultRecover(r) PROVE TrackInv'
  BY <1>26, <1>0 DEF ResultRecover, Awaiting, TypeOK
<1>27. ASSUME NEW r \in Rounds, Recover(r) PROVE TrackInv'
  BY <1>27, <1>0 DEF Recover
<1>28. ASSUME NEW r \in Rounds, ResultBad(r) PROVE TrackInv'
  BY <1>28, <1>0 DEF ResultBad
<1>29. ASSUME NEW r \in Rounds, ResultColoMismatch(r) PROVE TrackInv'
  BY <1>29, <1>0 DEF ResultColoMismatch
<1>30. ASSUME NEW r \in Rounds, DrainEmpty(r) PROVE TrackInv'
  BY <1>30, <1>0 DEF DrainEmpty, TypeOK
\* The list is read: what is on it is queued, so on no other list.
<1>31. ASSUME NEW r \in Rounds, ReadRemoved(r) PROVE TrackInv'
  <2>1. /\ untrack[r] = {} /\ Unlocked
        /\ UNCHANGED <<primary, backup, ipSet, lost, loose, ppc, cand>>
        /\ phase'[r] = "retain"
    BY <1>31 DEF ReadRemoved, Idle, Settled, TypeOK
  <2>2. \A u \in Tasks \ {r} : untrack'[u] = untrack[u] /\ phase'[u] = phase[u]
    BY <1>31 DEF ReadRemoved, TypeOK
  <2>3. /\ \A ip \in untrack'[r] : \E b \in Gone : IpOf[b] = ip
        /\ Gone \subseteq Pooled /\ r \in Tasks
    BY <1>31 DEF ReadRemoved, RemovedAddresses, Gone, TypeOK
  <2>4. \A u \in Tasks, ip \in Ips :
          ip \in untrack'[r] /\ ip \in untrack[u] => ip \in loose
    BY <2>1, <2>3 DEF Unlocked
  <2>5. \A t, u \in Tasks, ip \in Ips :
          t # u /\ ip \in untrack'[t] /\ ip \in untrack'[u] => ip \in loose
    BY <2>2, <2>4
  <2>6. ASSUME NEW ip \in Ips, ip \notin loose
        PROVE  ip \in ipSet <=> \/ \E b \in Pooled : IpOf[b] = ip
                                \/ \E t \in Tasks : ip \in untrack'[t]
                                \/ ip \in lost
    <3>1. \A t \in Tasks : ip \in untrack'[t] =>
            (\E b \in Pooled : IpOf[b] = ip) \/ ip \in untrack[t]
      BY <2>2, <2>3
    <3>2. \A t \in Tasks : ip \in untrack[t] => ip \in untrack'[t]
      BY <2>1, <2>2
    <3> QED
      BY <2>6, <3>1, <3>2
  <2>7. \A t \in Tasks, ip \in lost : ip \in untrack'[t] => ip \in loose
    BY <2>2, <2>3
  <2>8. \A t \in Tasks, b \in Pooled :
          IpOf[b] \in untrack'[t] => IpOf[b] \in loose \/ phase'[t] = "retain"
    BY <2>1, <2>2
  <2> QED
    BY <2>1, <2>5, <2>6, <2>7, <2>8 DEF Carrying
\* The queues are swept: an address that is neither lost nor loose is on the list
\* exactly when its backend is dropped.
<1>34. ASSUME NEW r \in Rounds, Retain(r) PROVE TrackInv'
  <2>1. /\ Pooled' = Pooled \ Gone /\ primary' \cap backup' = {}
        /\ UNCHANGED <<ipSet, untrack, ppc, cand>>
        /\ loose' = loose \cup Revived /\ lost' = lost \cup Missed
        /\ r \in Tasks /\ Gone \subseteq Pooled
    BY <1>34 DEF Retain, Gone
  <2>11. listed \subseteq Pooled /\ untrack[r] = {IpOf[b] : b \in listed}
    BY <1>34 DEF Retain, HoldInv
  <2>12. \A b \in Pooled : IpOf[b] \in untrack[r] => b \in listed \/ IpOf[b] \in loose
    <3> SUFFICES ASSUME NEW b \in Pooled, IpOf[b] \in untrack[r]
                 PROVE  b \in listed \/ IpOf[b] \in loose
      OBVIOUS
    <3> PICK l \in listed : IpOf[l] = IpOf[b]
      BY <2>11
    <3> QED
      BY <2>11
  <2>2. \A u \in Tasks : phase[u] = "retain" => u = r
    BY <1>34 DEF Retain, HoldInv
  <2>3. \A b \in Pooled \ Gone : IpOf[b] \in untrack[r] => IpOf[b] \in loose'
    BY <2>1, <2>12 DEF Revived
  <2>4. \A b \in Gone : IpOf[b] \in untrack[r] \/ IpOf[b] \in lost'
    BY <2>1, <2>11 DEF Missed
  <2>5. \A ip \in lost' :
          ip \in lost \/ \E b \in Gone : /\ IpOf[b] = ip
                                         /\ ip \in untrack[r] => ip \in loose
    BY <2>1, <2>12 DEF Missed
  <2>6. \A b \in Pooled \ Gone, g \in Gone : IpOf[b] = IpOf[g] => IpOf[b] \in loose
    BY <2>1
  <2>7. \A t \in Tasks, b \in Pooled' : IpOf[b] \in untrack'[t] => IpOf[b] \in loose'
    BY <2>1, <2>2, <2>3
  <2>8. \A b \in Pooled' : IpOf[b] \in lost' => IpOf[b] \in loose'
    BY <2>1, <2>5, <2>6
  <2>9. \A t \in Tasks, ip \in lost' : ip \in untrack'[t] => ip \in loose'
    BY <2>1, <2>2, <2>5
  <2>10. ASSUME NEW ip \in Ips, ip \notin loose'
         PROVE  ip \in ipSet' <=> \/ \E b \in Pooled' : IpOf[b] = ip
                                  \/ \E t \in Tasks : ip \in untrack'[t]
                                  \/ ip \in lost'
    <3>1. ip \in ipSet <=> \/ \E b \in Pooled : IpOf[b] = ip
                           \/ \E t \in Tasks : ip \in untrack[t]
                           \/ ip \in lost
      BY <2>1, <2>10
    <3>2. (\E b \in Pooled : IpOf[b] = ip) =>
             \/ \E b \in Pooled' : IpOf[b] = ip
             \/ \E t \in Tasks : ip \in untrack'[t]
             \/ ip \in lost'
      BY <2>1, <2>4
    <3>3. ip \in lost' => ip \in lost \/ \E b \in Pooled : IpOf[b] = ip
      BY <2>1, <2>5
    <3> QED
      BY <2>1, <3>1, <3>2, <3>3
  <2> QED
    BY <2>1, <2>7, <2>8, <2>9, <2>10 DEF Carrying
<1>35. CASE ProbeNotice
  BY <1>35, <1>0 DEF ProbeNotice
<1>32. ASSUME NEW r \in Rounds, FinishRound(r) PROVE TrackInv'
  <2>1. Pooled' = Pooled /\ primary' \cap backup' = {}
    BY <1>32 DEF FinishRound, RefillFromBackup, Movable
  <2>2. UNCHANGED <<ipSet, untrack, lost, loose, ppc, cand>>
    BY <1>32 DEF FinishRound
  <2>3. \A t \in Tasks : phase[t] = "retain" => phase'[t] = "retain"
    BY <1>32 DEF FinishRound, TypeOK
  <2> QED
    BY <1>00, <2>1, <2>2, <2>3
<1>33. CASE UNCHANGED vars
  BY <1>33, <1>0 DEF vars
<1> QED
  BY <1>1, <1>2, <1>3, <1>4, <1>5, <1>6, <1>7, <1>8, <1>9, <1>10, <1>11,
     <1>12, <1>13, <1>14, <1>15, <1>16, <1>17, <1>18, <1>19, <1>20,
     <1>21, <1>22, <1>23, <1>24, <1>25, <1>26, <1>27, <1>28, <1>29,
     <1>30, <1>31, <1>32, <1>33, <1>34, <1>35 DEF Next, Prober, Deactivation, Conn,
     Round

\* The accounting holds from the start and for ever.
LEMMA TrackInvariant == Spec => []TrackInv
<1>1. Init => TrackInv
  BY DEF Init, TrackInv, Pooled, Carrying
<1> QED
  BY <1>1, TrackStep, TypeCorrect, HoldInvariant, PTL DEF Spec

\* For any number of tasks: no address is queued twice, although
\* try_add_backend tests ip_set long before it pushes (loadbalancer.rs:160), but
\* for those whose backend was marked anew between the two reads of
\* cleanup_removed and so kept after its address was listed.
THEOREM AddressesUnique == Spec => []NoAddressTwice
<1>1. TrackInv => NoAddressTwice
  BY DEF TrackInv, NoAddressTwice
<1> QED
  BY <1>1, TrackInvariant, PTL

\* But for those same addresses, ip_set is exactly the queued addresses, those
\* about to be taken out and those whose backend was removed between the two reads;
\* and a late removal never hits an address that has been queued anew.
THEOREM AddressesAccounted == Spec => []AddressesTracked
<1>1. TypeOK /\ HoldInv /\ TrackInv => AddressesTracked
  <2> SUFFICES ASSUME TypeOK, HoldInv, TrackInv, NEW ip \in Ips \ loose
               PROVE  /\ ip \in ipSet <=> Queued(ip) \/ Leaving(ip) \/ ip \in lost
                      /\ ~(Queued(ip) /\ Leaving(ip))
                      /\ ip \in lost => ~Queued(ip) /\ ~Leaving(ip)
    BY DEF AddressesTracked
  <2>1. \A t \in Tasks : ip \in untrack[t] /\ phase[t] = "retain" => Queued(ip)
    BY DEF HoldInv, Queued
  <2>2. ip \in ipSet <=> \/ Queued(ip) \/ ip \in lost
                         \/ \E t \in Tasks : ip \in untrack[t]
    <3>1. ip \in Ips /\ ip \notin loose
      OBVIOUS
    <3>2. \A i \in Ips : i \notin loose =>
            (i \in ipSet <=> \/ \E b \in Pooled : IpOf[b] = i
                             \/ \E t \in Tasks : i \in untrack[t]
                             \/ i \in lost)
      BY DEF TrackInv
    <3> QED
      BY <3>1, <3>2 DEF Queued
  <2>3. ~(Queued(ip) /\ Leaving(ip))
    BY DEF TrackInv, Queued, Leaving
  <2>4. ip \in lost => ~Queued(ip) /\ ~Leaving(ip)
    BY DEF TrackInv, Queued, Leaving
  <2> QED
    BY <2>1, <2>2, <2>3, <2>4 DEF Leaving
<1> QED
  BY <1>1, TrackInvariant, HoldInvariant, TypeCorrect, PTL

----------------------------------------------------------------------------
(* Backup capacity *)

\* The limits LoadBalancer::new derives; the backup capacity is never zero.
LEMMA LimitsAreNat == MinActive \in Nat /\ BackupTarget \in Nat \ {0}
<1>1. Half \in Nat
  BY PoolsAssumption DEF Half
<1> QED
  BY <1>1, PoolsAssumption DEF MinActive, Capped, BackupTarget

\* Only the prober adds to the backup queue, so the room it has read is there
\* when it takes the lock.
BackupInv ==
  /\ IsFiniteSet(backup)
  /\ Cardinality(backup) <= BackupTarget
  /\ ppc = "addBackup" => Cardinality(backup) < BackupTarget

\* Every step of every task respects the capacity of the backup queue.
LEMMA BackupStep == TypeOK /\ BackupInv /\ [Next]_vars => BackupInv'
<1> SUFFICES ASSUME TypeOK, BackupInv, [Next]_vars PROVE BackupInv'
  OBVIOUS
<1> USE DEF Tasks, poolVars, proberVars, roundVars, deactVars, debtVars, histVars
<1>1. ASSUME backup' \subseteq backup,
             ppc' = "addBackup" => ppc = "addBackup"
      PROVE  BackupInv'
  <2>1. /\ IsFiniteSet(backup')
        /\ Cardinality(backup') <= Cardinality(backup)
    BY <1>1, FS_Subset DEF BackupInv
  <2> QED
    BY <1>1, <2>1, FS_CardinalityType, LimitsAreNat DEF BackupInv
<1>2. ASSUME NEW ip \in Ips, ProbeContains(ip) PROVE BackupInv'
  BY <1>2, <1>1 DEF ProbeContains
<1>3. CASE ProbeCountPrimary
  BY <1>3, <1>1 DEF ProbeCountPrimary
<1>4. CASE ProbeCountBackup
  BY <1>4 DEF ProbeCountBackup, BackupRoom, BackupInv
<1>5. ASSUME NEW b \in Backends, ProbeAdd(b) PROVE BackupInv'
  <2>1. CASE ppc = "addBackup"
    <3>1. backup' = backup \cup {b} /\ ppc' = "run"
      BY <1>5, <2>1 DEF ProbeAdd
    <3> QED
      <4>1. /\ IsFiniteSet(backup')
            /\ Cardinality(backup') \in {Cardinality(backup), Cardinality(backup) + 1}
        BY <3>1, FS_AddElement DEF BackupInv
      <4>2. Cardinality(backup) \in Nat
        BY FS_CardinalityType DEF BackupInv
      <4> QED
        BY <2>1, <3>1, <4>1, <4>2, LimitsAreNat DEF BackupInv
  <2>2. CASE ppc # "addBackup"
    BY <1>5, <1>1, <2>2 DEF ProbeAdd
  <2> QED
    BY <2>1, <2>2
<1>6. CASE PauseReadPrimary
  BY <1>6, <1>1 DEF PauseReadPrimary
<1>7. CASE PauseReadBackup
  BY <1>7, <1>1 DEF PauseReadBackup
<1>8. CASE ProbeResume
  BY <1>8, <1>1 DEF ProbeResume
<1>9. ASSUME NEW t \in Tasks, CheckFloor(t) PROVE BackupInv'
  BY <1>9, <1>1 DEF CheckFloor
<1>10. ASSUME NEW t \in Tasks, Promote(t) PROVE BackupInv'
  BY <1>10, <1>1 DEF Promote
<1>11. ASSUME NEW t \in Tasks, Refuse(t) PROVE BackupInv'
  BY <1>11, <1>1 DEF Refuse
<1>12. ASSUME NEW t \in Tasks, Untrack(t) PROVE BackupInv'
  BY <1>12, <1>1 DEF Untrack
<1>13. ASSUME NEW t \in Tasks, NotifyResume(t) PROVE BackupInv'
  BY <1>13, <1>1 DEF NotifyResume
<1>14. ASSUME NEW t \in Tasks, Mark(t) PROVE BackupInv'
  BY <1>14, <1>1 DEF Mark
<1>15. ASSUME NEW t \in Tasks, RefillAfterRemoval(t) PROVE BackupInv'
  BY <1>15, <1>1 DEF RefillAfterRemoval, RefillFromBackup
<1>16. ASSUME NEW c \in Conns, ConnSelect(c) PROVE BackupInv'
  BY <1>16, <1>1 DEF ConnSelect
<1>17. ASSUME NEW c \in Conns, ConnRecord(c) PROVE BackupInv'
  BY <1>17, <1>1 DEF ConnRecord
<1>18. ASSUME NEW c \in Conns, ConnEvict(c) PROVE BackupInv'
  BY <1>18, <1>1 DEF ConnEvict
<1>19. ASSUME NEW c \in Conns, ConnKeep(c) PROVE BackupInv'
  BY <1>19, <1>1 DEF ConnKeep
<1>20. ASSUME NEW c \in Conns, ConnFastFail(c) PROVE BackupInv'
  BY <1>20, <1>1 DEF ConnFastFail
<1>21. ASSUME NEW c \in Conns, ConnEnd(c) PROVE BackupInv'
  BY <1>21, <1>1 DEF ConnEnd
<1>22. ASSUME NEW q \in {"primary", "backup"}, NEW jump \in Jumps, HealthTick(q, jump) PROVE BackupInv'
  BY <1>22, <1>1 DEF HealthTick
<1>23. ASSUME NEW r \in Rounds, StartRound(r) PROVE BackupInv'
  BY <1>23, <1>1 DEF StartRound
<1>24. ASSUME NEW r \in Rounds, SpawnPing(r) PROVE BackupInv'
  BY <1>24, <1>1 DEF SpawnPing
<1>25. ASSUME NEW r \in Rounds, StartDrain(r) PROVE BackupInv'
  BY <1>25, <1>1 DEF StartDrain
<1>26. ASSUME NEW r \in Rounds, ResultNone(r) PROVE BackupInv'
  BY <1>26, <1>1 DEF ResultNone
<1>27. ASSUME NEW r \in Rounds, ResultRecover(r) PROVE BackupInv'
  BY <1>27, <1>1 DEF ResultRecover
<1>28. ASSUME NEW r \in Rounds, Recover(r) PROVE BackupInv'
  BY <1>28, <1>1 DEF Recover
<1>29. ASSUME NEW r \in Rounds, ResultBad(r) PROVE BackupInv'
  BY <1>29, <1>1 DEF ResultBad
<1>30. ASSUME NEW r \in Rounds, ResultColoMismatch(r) PROVE BackupInv'
  BY <1>30, <1>1 DEF ResultColoMismatch
<1>31. ASSUME NEW r \in Rounds, DrainEmpty(r) PROVE BackupInv'
  BY <1>31, <1>1 DEF DrainEmpty
<1>32. ASSUME NEW r \in Rounds, ReadRemoved(r) \/ Retain(r) PROVE BackupInv'
  BY <1>32, <1>1 DEF ReadRemoved, Retain
<1>35. CASE ProbeNotice
  BY <1>35, <1>1 DEF ProbeNotice
<1>33. ASSUME NEW r \in Rounds, FinishRound(r) PROVE BackupInv'
  BY <1>33, <1>1 DEF FinishRound, RefillFromBackup
<1>34. CASE UNCHANGED vars
  BY <1>34, <1>1 DEF vars
<1> QED
  BY <1>2, <1>3, <1>4, <1>5, <1>6, <1>7, <1>8, <1>9, <1>10, <1>11, <1>12,
     <1>13, <1>14, <1>15, <1>16, <1>17, <1>18, <1>19, <1>20, <1>21,
     <1>22, <1>23, <1>24, <1>25, <1>26, <1>27, <1>28, <1>29, <1>30,
     <1>31, <1>32, <1>33, <1>34, <1>35 DEF Next, Prober, Deactivation, Conn,
     Round

\* The backup queue stays within its capacity: sort_backup, which sorts by a
\* comparison that is not transitive, never sees more than BackupTarget.
THEOREM BackupNeverOverflows == Spec => []BackupBounded
<1>1. Init => BackupInv
  BY FS_EmptySet, LimitsAreNat DEF Init, BackupInv
<1>2. BackupInv => BackupBounded
  BY DEF BackupInv, BackupBounded
<1> QED
  BY <1>1, <1>2, BackupStep, TypeCorrect, PTL DEF Spec

----------------------------------------------------------------------------
(* Waking the prober *)

Owed == unseen \/ \E t \in Tasks : owes[t]

\* A queue shrinks only in a step that leaves its task owing a notification,
\* and the debt is paid by making a version unseen; the read of the primary
\* length that starts a pause needs the same guarantee as the pause itself.
WakeInv ==
  /\ ppc = "pausing" => PrimaryFull \/ Owed
  /\ ppc = "paused" => (PrimaryFull /\ BackupFull) \/ Owed

\* Every step of every task keeps the promise made to a pausing prober.
LEMMA WakeStep == TypeOK /\ HoldInv /\ WakeInv /\ [Next]_vars => WakeInv'
<1> SUFFICES ASSUME TypeOK, HoldInv, WakeInv, [Next]_vars PROVE WakeInv'
  OBVIOUS
<1> USE DEF Owed, Tasks, poolVars, proberVars, roundVars, deactVars, debtVars, histVars
<1>1. ASSUME UNCHANGED <<primary, backup, ppc, unseen, owes>>
      PROVE  WakeInv'
  BY <1>1 DEF WakeInv, PrimaryFull, BackupFull
<1>2. ASSUME NEW ip \in Ips, ProbeContains(ip) PROVE WakeInv'
  BY <1>2 DEF ProbeContains, WakeInv
<1>3. CASE ProbeCountPrimary
  BY <1>3 DEF ProbeCountPrimary, WakeInv
<1>4. CASE ProbeCountBackup
  BY <1>4 DEF ProbeCountBackup, WakeInv
<1>5. ASSUME NEW b \in Backends, ProbeAdd(b) PROVE WakeInv'
  BY <1>5 DEF ProbeAdd, WakeInv
<1>6. CASE PauseReadPrimary
  BY <1>6 DEF PauseReadPrimary, WakeInv, PrimaryFull, BackupFull
<1>7. CASE PauseReadBackup
  BY <1>7 DEF PauseReadBackup, WakeInv, PrimaryFull, BackupFull
<1>8. CASE ProbeResume
  BY <1>8 DEF ProbeResume, WakeInv
<1>9. ASSUME NEW t \in Tasks, CheckFloor(t) PROVE WakeInv'
  BY <1>9, <1>1 DEF CheckFloor
<1>10. ASSUME NEW t \in Tasks, Promote(t) PROVE WakeInv'
  <2>1. owes'[t] /\ ppc' = ppc
    BY <1>10 DEF Promote, TypeOK
  <2> QED
    BY <2>1 DEF WakeInv
<1>11. ASSUME NEW t \in Tasks, Refuse(t) PROVE WakeInv'
  BY <1>11, <1>1 DEF Refuse
<1>12. ASSUME NEW t \in Tasks, Untrack(t) PROVE WakeInv'
  BY <1>12, <1>1 DEF Untrack
<1>13. ASSUME NEW t \in Tasks, NotifyResume(t) PROVE WakeInv'
  BY <1>13 DEF NotifyResume, NotifyVersion, WakeInv
<1>14. ASSUME NEW t \in Tasks, Mark(t) PROVE WakeInv'
  BY <1>14, <1>1 DEF Mark
<1>15. ASSUME NEW t \in Tasks, RefillAfterRemoval(t) PROVE WakeInv'
  <2>1. owes'[t] /\ ppc' = ppc
    BY <1>15 DEF RefillAfterRemoval, RefillFromBackup, TypeOK
  <2> QED
    BY <2>1 DEF WakeInv
<1>16. ASSUME NEW c \in Conns, ConnSelect(c) PROVE WakeInv'
  BY <1>16, <1>1 DEF ConnSelect
<1>17. ASSUME NEW c \in Conns, ConnRecord(c) PROVE WakeInv'
  BY <1>17, <1>1 DEF ConnRecord
<1>18. ASSUME NEW c \in Conns, ConnEvict(c) PROVE WakeInv'
  BY <1>18, <1>1 DEF ConnEvict
<1>19. ASSUME NEW c \in Conns, ConnKeep(c) PROVE WakeInv'
  BY <1>19, <1>1 DEF ConnKeep
<1>20. ASSUME NEW c \in Conns, ConnFastFail(c) PROVE WakeInv'
  BY <1>20, <1>1 DEF ConnFastFail
<1>21. ASSUME NEW c \in Conns, ConnEnd(c) PROVE WakeInv'
  BY <1>21, <1>1 DEF ConnEnd
<1>22. ASSUME NEW q \in {"primary", "backup"}, NEW jump \in Jumps, HealthTick(q, jump) PROVE WakeInv'
  BY <1>22, <1>1 DEF HealthTick
<1>23. ASSUME NEW r \in Rounds, StartRound(r) PROVE WakeInv'
  BY <1>23, <1>1 DEF StartRound
<1>24. ASSUME NEW r \in Rounds, SpawnPing(r) PROVE WakeInv'
  BY <1>24, <1>1 DEF SpawnPing
<1>25. ASSUME NEW r \in Rounds, StartDrain(r) PROVE WakeInv'
  BY <1>25, <1>1 DEF StartDrain
<1>26. ASSUME NEW r \in Rounds, ResultNone(r) PROVE WakeInv'
  BY <1>26, <1>1 DEF ResultNone
<1>27. ASSUME NEW r \in Rounds, ResultRecover(r) PROVE WakeInv'
  BY <1>27, <1>1 DEF ResultRecover
<1>28. ASSUME NEW r \in Rounds, Recover(r) PROVE WakeInv'
  BY <1>28, <1>1 DEF Recover
<1>29. ASSUME NEW r \in Rounds, ResultBad(r) PROVE WakeInv'
  BY <1>29, <1>1 DEF ResultBad
<1>30. ASSUME NEW r \in Rounds, ResultColoMismatch(r) PROVE WakeInv'
  BY <1>30, <1>1 DEF ResultColoMismatch
<1>31. ASSUME NEW r \in Rounds, DrainEmpty(r) PROVE WakeInv'
  BY <1>31, <1>1 DEF DrainEmpty
<1>32. ASSUME NEW r \in Rounds, Retain(r) PROVE WakeInv'
  <2>1. ppc' = ppc /\ unseen' = unseen
    BY <1>32 DEF Retain
  <2>2. CASE Gone = {}
    <3>1. primary' = primary /\ backup' = backup
      BY <1>32, <2>2 DEF Retain
    <3>2. ~owes[r] /\ owes' = [owes EXCEPT ![r] = FALSE]
      BY <1>32, <2>2 DEF Retain, QueueFreed, HoldInv
    <3>3. \A t \in Tasks : owes[t] => owes'[t]
      BY <3>2 DEF TypeOK
    <3> QED
      BY <2>1, <3>1, <3>3 DEF WakeInv, PrimaryFull, BackupFull
  <2>3. CASE Gone # {}
    <3>1. owes'[r]
      BY <1>32, <2>3 DEF Retain, QueueFreed, TypeOK
    <3> QED
      BY <2>1, <3>1 DEF WakeInv
  <2> QED
    BY <2>2, <2>3
<1>35. ASSUME NEW r \in Rounds, ReadRemoved(r) PROVE WakeInv'
  BY <1>35, <1>1 DEF ReadRemoved
<1>36. CASE ProbeNotice
  BY <1>36 DEF ProbeNotice, WakeInv
<1>33. ASSUME NEW r \in Rounds, FinishRound(r) PROVE WakeInv'
  <2>1. CASE queue[r] = "primary"
    <3>1. owes'[r] /\ ppc' = ppc
      BY <1>33, <2>1 DEF FinishRound, RefillFromBackup, TypeOK
    <3> QED
      BY <3>1 DEF WakeInv
  <2>2. CASE queue[r] # "primary"
    BY <1>33, <1>1, <2>2 DEF FinishRound
  <2> QED
    BY <2>1, <2>2
<1>34. CASE UNCHANGED vars
  BY <1>34, <1>1 DEF vars
<1> QED
  BY <1>2, <1>3, <1>4, <1>5, <1>6, <1>7, <1>8, <1>9, <1>10, <1>11, <1>12,
     <1>13, <1>14, <1>15, <1>16, <1>17, <1>18, <1>19, <1>20, <1>21,
     <1>22, <1>23, <1>24, <1>25, <1>26, <1>27, <1>28, <1>29, <1>30,
     <1>31, <1>32, <1>33, <1>34, <1>35, <1>36 DEF Next, Prober, Deactivation, Conn,
     Round

\* No wakeup of the prober is lost, however the reads of should_pause
\* interleave with the tasks that shrink the queues.
THEOREM ProberIsWoken == Spec => []NoLostWakeup
<1>1. Init => WakeInv
  BY DEF Init, WakeInv
<1>2. WakeInv => NoLostWakeup
  BY DEF WakeInv, NoLostWakeup, Owed
<1> QED
  BY <1>1, <1>2, WakeStep, TypeCorrect, HoldInvariant, PTL DEF Spec
----------------------------------------------------------------------------
(* Pings in flight *)

\* A drain has at most one ping left, and none while its result is acted upon:
\* whichever way the loop of the drain ends, nothing is left in flight.
JudgeInv ==
  /\ \A r \in Rounds : IsFiniteSet(inflight[r])
  /\ \A r \in Rounds : phase[r] = "drain" =>
       /\ \A a, b \in inflight[r] : a = b
       /\ dpc[r] # None => inflight[r] = {}
  /\ EveryPingJudged

\* With fewer pings in flight than two there is at most one.
LEMMA AtMostOne ==
  ASSUME NEW S, IsFiniteSet(S), Cardinality(S) < 2
  PROVE  \A a, b \in S : a = b
<1> SUFFICES ASSUME NEW a \in S, NEW b \in S, a # b PROVE FALSE
  OBVIOUS
<1>1. Cardinality({a}) = 1 /\ IsFiniteSet({a})
  BY FS_Singleton
<1>2. Cardinality({a} \cup {b}) = 2
  BY <1>1, FS_AddElement
<1>3. Cardinality({a} \cup {b}) <= Cardinality(S) /\ Cardinality(S) \in Nat
  BY FS_Subset, FS_CardinalityType
<1> QED
  BY <1>2, <1>3

\* Every step keeps the pings of a drain accounted for, with two permits.
LEMMA JudgeStep ==
  ASSUME Concurrency <= 2
  PROVE  TypeOK /\ JudgeInv /\ [Next]_vars => JudgeInv'
<1> SUFFICES ASSUME TypeOK, JudgeInv, [Next]_vars PROVE JudgeInv'
  OBVIOUS
<1> USE PoolsAssumption DEF TypeOK, JudgeInv, EveryPingJudged, Tasks, None,
      poolVars, proberVars, roundVars, deactVars, debtVars, histVars,
      AfterDeactivation, BeginDeactivation
<1>0. ASSUME UNCHANGED <<phase, dpc, inflight>> PROVE JudgeInv'
  BY <1>0
<1>1. CASE Prober
  BY <1>1, <1>0 DEF Prober, ProbeContains, ProbeCountPrimary, ProbeCountBackup,
       ProbeAdd, PauseReadPrimary, PauseReadBackup, ProbeResume, ProbeNotice
<1>2. ASSUME NEW t \in Tasks, CheckFloor(t) PROVE JudgeInv'
  BY <1>2 DEF CheckFloor
<1>3. ASSUME NEW t \in Tasks, Promote(t) PROVE JudgeInv'
  BY <1>3 DEF Promote
<1>4. ASSUME NEW t \in Tasks, Refuse(t) PROVE JudgeInv'
  BY <1>4 DEF Refuse, AfterFalse
<1>5. ASSUME NEW t \in Tasks, Untrack(t) \/ NotifyResume(t) PROVE JudgeInv'
  BY <1>5, <1>0 DEF Untrack, NotifyResume
<1>6. ASSUME NEW t \in Tasks, Mark(t) PROVE JudgeInv'
  BY <1>6 DEF Mark
<1>7. ASSUME NEW t \in Tasks, RefillAfterRemoval(t) PROVE JudgeInv'
  BY <1>7 DEF RefillAfterRemoval
<1>8. ASSUME NEW c \in Conns, Conn(c) PROVE JudgeInv'
  <2>1. /\ inflight' = inflight
        /\ \A r \in Rounds : phase'[r] = phase[r] /\ dpc'[r] = dpc[r]
    BY <1>8 DEF Conn, ConnSelect, ConnRecord, ConnEvict, ConnKeep,
         ConnFastFail, ConnEnd
  <2> QED
    BY <2>1
<1>9. ASSUME NEW q \in {"primary", "backup"}, NEW jump \in Jumps,
             HealthTick(q, jump)
      PROVE  JudgeInv'
  BY <1>9, <1>0 DEF HealthTick
<1>10. ASSUME NEW r \in Rounds, StartRound(r) PROVE JudgeInv'
  BY <1>10 DEF StartRound
<1>11. ASSUME NEW r \in Rounds, SpawnPing(r) PROVE JudgeInv'
  <2> PICK b \in todo[r] :
        inflight' = [inflight EXCEPT ![r] =
                       IF st[b] = "removed" THEN @ ELSE @ \cup {b}]
    BY <1>11 DEF SpawnPing
  <2>1. IsFiniteSet(inflight[r] \cup {b})
    BY FS_AddElement
  <2>2. phase' = phase /\ dpc' = dpc /\ phase[r] = "spawn"
    BY <1>11 DEF SpawnPing
  <2> QED
    BY <2>1, <2>2
<1>12. ASSUME NEW r \in Rounds, StartDrain(r) PROVE JudgeInv'
  <2>1. Cardinality(inflight[r]) \in Nat
    BY FS_CardinalityType
  <2>2. Cardinality(inflight[r]) < 2
    BY <1>12, <2>1 DEF StartDrain, Throttled
  <2>3. \A a, b \in inflight[r] : a = b
    BY <2>2, AtMostOne
  <2> QED
    BY <1>12, <2>3 DEF StartDrain, Idle
\* A result leaves the flight: the one of a drain was the last.
<1>13. ASSUME NEW r \in Rounds, NEW b \in inflight[r], Awaiting(r),
              inflight' = [inflight EXCEPT ![r] = @ \ {b}]
       PROVE  /\ IsFiniteSet(inflight'[r])
              /\ phase[r] = "drain" => inflight'[r] = {}
              /\ phase[r] \in {"spawn", "drain"}
  <2>1. inflight'[r] = inflight[r] \ {b}
    BY <1>13
  <2>2. IsFiniteSet(inflight'[r])
    BY <2>1, FS_Subset
  <2> QED
    BY <1>13, <2>1, <2>2 DEF Awaiting
<1>14. ASSUME NEW r \in Rounds, ResultNone(r) PROVE JudgeInv'
  <2> PICK b \in inflight[r] : inflight' = [inflight EXCEPT ![r] = @ \ {b}]
    BY <1>14 DEF ResultNone
  <2>1. Awaiting(r)
    BY <1>14 DEF ResultNone
  <2>2. /\ IsFiniteSet(inflight'[r])
        /\ phase[r] = "drain" => inflight'[r] = {}
        /\ phase[r] \in {"spawn", "drain"}
    BY <1>13, <2>1
  <2>3. \A u \in Rounds \ {r} : /\ inflight'[u] = inflight[u]
                              /\ phase'[u] = phase[u] /\ dpc'[u] = dpc[u]
    BY <1>14 DEF ResultNone
  <2>4. phase'[r] \in {phase[r], AfterFalse(r)}
    BY <1>14 DEF ResultNone
  <2> QED
    BY <2>2, <2>3, <2>4 DEF AfterFalse
<1>15. ASSUME NEW r \in Rounds, ResultRecover(r) PROVE JudgeInv'
  <2> PICK b \in inflight[r] : inflight' = [inflight EXCEPT ![r] = @ \ {b}]
    BY <1>15 DEF ResultRecover
  <2>1. Awaiting(r)
    BY <1>15 DEF ResultRecover
  <2>2. /\ IsFiniteSet(inflight'[r])
        /\ phase[r] = "drain" => inflight'[r] = {}
        /\ phase[r] \in {"spawn", "drain"}
    BY <1>13, <2>1
  <2>3. \A u \in Rounds \ {r} : /\ inflight'[u] = inflight[u]
                              /\ phase'[u] = phase[u] /\ dpc'[u] = dpc[u]
    BY <1>15 DEF ResultRecover
  <2>4. phase'[r] \in {phase[r], AfterFalse(r)}
    BY <1>15 DEF ResultRecover
  <2> QED
    BY <2>2, <2>3, <2>4 DEF AfterFalse
<1>16. ASSUME NEW r \in Rounds, Recover(r) PROVE JudgeInv'
  BY <1>16 DEF Recover
<1>17. ASSUME NEW r \in Rounds, ResultBad(r) PROVE JudgeInv'
  <2> PICK b \in inflight[r] : inflight' = [inflight EXCEPT ![r] = @ \ {b}]
    BY <1>17 DEF ResultBad
  <2>1. Awaiting(r)
    BY <1>17 DEF ResultBad
  <2>2. /\ IsFiniteSet(inflight'[r])
        /\ phase[r] = "drain" => inflight'[r] = {}
        /\ phase[r] \in {"spawn", "drain"}
    BY <1>13, <2>1
  <2>3. \A u \in Rounds \ {r} : /\ inflight'[u] = inflight[u]
                              /\ phase'[u] = phase[u] /\ dpc'[u] = dpc[u]
    BY <1>17 DEF ResultBad
  <2>4. phase'[r] \in {phase[r], AfterFalse(r)}
    BY <1>17 DEF ResultBad
  <2> QED
    BY <2>2, <2>3, <2>4 DEF AfterFalse
<1>18. ASSUME NEW r \in Rounds, ResultColoMismatch(r) PROVE JudgeInv'
  <2> PICK b \in inflight[r] : inflight' = [inflight EXCEPT ![r] = @ \ {b}]
    BY <1>18 DEF ResultColoMismatch
  <2>1. Awaiting(r)
    BY <1>18 DEF ResultColoMismatch
  <2>2. /\ IsFiniteSet(inflight'[r])
        /\ phase[r] = "drain" => inflight'[r] = {}
        /\ phase[r] \in {"spawn", "drain"}
    BY <1>13, <2>1
  <2>3. \A u \in Rounds \ {r} : /\ inflight'[u] = inflight[u]
                              /\ phase'[u] = phase[u] /\ dpc'[u] = dpc[u]
    BY <1>18 DEF ResultColoMismatch
  <2>4. phase'[r] \in {phase[r], AfterFalse(r)}
    BY <1>18 DEF ResultColoMismatch
  <2> QED
    BY <2>2, <2>3, <2>4 DEF AfterFalse
<1>19. ASSUME NEW r \in Rounds, DrainEmpty(r) PROVE JudgeInv'
  BY <1>19 DEF DrainEmpty
<1>20. ASSUME NEW r \in Rounds, ReadRemoved(r) PROVE JudgeInv'
  BY <1>20 DEF ReadRemoved
<1>23. ASSUME NEW r \in Rounds, Retain(r) PROVE JudgeInv'
  BY <1>23, FS_EmptySet DEF Retain
<1>21. ASSUME NEW r \in Rounds, FinishRound(r) PROVE JudgeInv'
  BY <1>21 DEF FinishRound
<1>22. CASE UNCHANGED vars
  BY <1>22, <1>0 DEF vars
<1> QED
  BY <1>1, <1>2, <1>3, <1>4, <1>5, <1>6, <1>7, <1>8, <1>9, <1>10, <1>11,
     <1>12, <1>14, <1>15, <1>16, <1>17, <1>18, <1>19, <1>20, <1>21, <1>22, <1>23
     DEF Next, Deactivation, Round

\* No ping of a health round is dropped unjudged, as long as no more than two
\* are in flight: that is the value of health_check_concurrency
\* (config.rs:38).  With three the loop of the drain (loadbalancer.rs:792)
\* could stop with two left.
THEOREM EveryResultCounts ==
  ASSUME Concurrency <= 2
  PROVE  Spec => []EveryPingJudged
<1>1. Init => JudgeInv
  BY FS_EmptySet DEF Init, JudgeInv, EveryPingJudged, Tasks
<1>2. JudgeInv => EveryPingJudged
  BY DEF JudgeInv
<1> QED
  BY <1>1, <1>2, JudgeStep, TypeCorrect, PTL DEF Spec
----------------------------------------------------------------------------
(* The floor *)

\* At most one task stands between the count of try_deactivate and the mark that
\* follows it: deactivations do not overlap.
OneDecides ==
  \A t, u \in Tasks :
    dpc[t] \in {"promote", "mark"} /\ dpc[u] \in {"promote", "mark"} => t = u

BelowFloor == Cardinality(SelectablePrimary) < MinActive

\* The primary queue has not been full yet: all that it holds can be selected, and
\* nothing is on its way to the backup queue.
Filling ==
  /\ primary = SelectablePrimary /\ backup = {}
  /\ ppc # "addBackup" /\ (ppc = "counted" => room)

\* Who is about to mark has left one to spare, and only a queue that fills for the
\* first time is below its floor.
FloorInv ==
  /\ IsFiniteSet(primary)
  /\ \A t \in Tasks : dpc[t] = "mark" => AboveFloor
  /\ BelowFloor => Filling

\* The floor is positive and within the target.
LEMMA FloorWithinTarget == MinActive \in Nat \ {0} /\ MinActive <= PrimaryTarget
  BY PoolsAssumption DEF MinActive, Half

\* A larger set is above what a smaller one is above.
LEMMA MoreIsAbove ==
  ASSUME NEW S, NEW T, IsFiniteSet(T), S \subseteq T, NEW k \in Nat
  PROVE  /\ Cardinality(S) > k => Cardinality(T) > k
         /\ Cardinality(T) < k => Cardinality(S) < k
<1>1. IsFiniteSet(S) /\ Cardinality(S) <= Cardinality(T)
  BY FS_Subset
<1>2. Cardinality(S) \in Nat /\ Cardinality(T) \in Nat
  BY <1>1, FS_CardinalityType
<1> QED
  BY <1>1, <1>2

\* A set that is one larger, and one that has lost a member at most.
LEMMA OneMoreOrLess ==
  ASSUME NEW S, NEW T, NEW b, IsFiniteSet(S), IsFiniteSet(T), NEW k \in Nat
  PROVE  /\ S \cup {b} \subseteq T /\ b \notin S /\ Cardinality(S) >= k
              => Cardinality(T) > k
         /\ S \ {b} \subseteq T /\ Cardinality(S) > k => Cardinality(T) >= k
<1>1. /\ IsFiniteSet(S \cup {b}) /\ IsFiniteSet(S \ {b})
      /\ Cardinality(S \cup {b}) = IF b \in S THEN Cardinality(S) ELSE Cardinality(S) + 1
      /\ Cardinality(S \ {b}) = IF b \in S THEN Cardinality(S) - 1 ELSE Cardinality(S)
  BY FS_AddElement, FS_RemoveElement
<1>2. /\ Cardinality(S) \in Nat /\ Cardinality(T) \in Nat
      /\ Cardinality(S \cup {b}) \in Nat /\ Cardinality(S \ {b}) \in Nat
  BY <1>1, FS_CardinalityType
<1>3. /\ S \cup {b} \subseteq T => Cardinality(S \cup {b}) <= Cardinality(T)
      /\ S \ {b} \subseteq T => Cardinality(S \ {b}) <= Cardinality(T)
  BY FS_Subset
<1> QED
  BY <1>1, <1>2, <1>3

\* A step of a task that is not about to mark takes nothing from the floor.
LEMMA FloorStep ==
  ASSUME TypeOK, NoAddressTwice, IsFiniteSet(backup), FloorInv, OneDecides,
         TRUE \notin Jumps, [Next]_vars
  PROVE  FloorInv' /\ (~BelowFloor => ~BelowFloor')
<1> USE FloorWithinTarget
        DEF Tasks, poolVars, proberVars, roundVars, deactVars, debtVars, histVars
<1> DEFINE P == FloorInv' /\ (~BelowFloor => ~BelowFloor')
<1>1. ASSUME IsFiniteSet(primary'), SelectablePrimary \subseteq SelectablePrimary',
             \A t \in Tasks : dpc'[t] = "mark" => dpc[t] = "mark" \/ AboveFloor,
             BelowFloor => Filling'
      PROVE  P
  <2>1. IsFiniteSet(SelectablePrimary')
    <3>1. SelectablePrimary' \subseteq primary'
      BY DEF SelectablePrimary
    <3> QED
      BY <1>1, <3>1, FS_Subset
  <2>2. (AboveFloor => AboveFloor') /\ (BelowFloor' => BelowFloor)
    BY <1>1, <2>1, MoreIsAbove DEF AboveFloor, BelowFloor, MinActive, Half
  <2> QED
    BY <1>1, <2>2 DEF FloorInv
\* What leaves the queues alone and makes no backend less selectable.
<1>2. ASSUME UNCHANGED <<poolVars, ppc, room>>,
             \A b \in primary : Selectable(b) => Selectable(b)',
             \A t \in Tasks : dpc'[t] = "mark" => dpc[t] = "mark"
      PROVE  P
  <2>1. SelectablePrimary \subseteq SelectablePrimary'
    BY <1>2 DEF SelectablePrimary
  <2>2. SelectablePrimary' \subseteq primary'
    BY DEF SelectablePrimary
  <2>3. Filling => Filling'
    BY <1>2, <2>1, <2>2 DEF Filling
  <2> QED
    BY <1>1, <1>2, <2>1, <2>3 DEF FloorInv
<1>3. ASSUME UNCHANGED <<st, samples>> PROVE \A b : Selectable(b)' = Selectable(b)
  BY <1>3 DEF Selectable
\* The prober.
<1>4. ASSUME UNCHANGED <<primary, backup, st, samples, dpc>>,
             BelowFloor => ppc' # "addBackup" /\ (ppc' = "counted" => room')
      PROVE  P
  <2>1. SelectablePrimary' = SelectablePrimary
    BY <1>3, <1>4 DEF SelectablePrimary
  <2>2. Filling /\ BelowFloor => Filling'
    BY <1>4, <2>1 DEF Filling
  <2> QED
    BY <1>1, <1>4, <2>1, <2>2 DEF FloorInv
<1>5. ASSUME NEW ip \in Ips, ProbeContains(ip) PROVE P
  BY <1>4, <1>5 DEF ProbeContains
<1>6. CASE ProbeCountPrimary
  <2>1. BelowFloor => Cardinality(primary) < PrimaryTarget
    <3> SUFFICES ASSUME BelowFloor PROVE Cardinality(primary) < PrimaryTarget
      OBVIOUS
    <3>1. Cardinality(primary) < MinActive /\ Cardinality(primary) \in Nat
      BY FS_CardinalityType DEF FloorInv, Filling, BelowFloor
    <3> QED
      BY <3>1, PoolsAssumption
  <2> QED
    BY <1>4, <1>6, <2>1 DEF ProbeCountPrimary
<1>7. CASE ProbeCountBackup
  BY <1>4, <1>7 DEF ProbeCountBackup, FloorInv, Filling
<1>8. ASSUME NEW b \in Backends, ProbeAdd(b) PROVE P
  <2>1. /\ b \notin primary /\ IpOf[b] = cand
        /\ \A a \in Backends \ {b} : st'[a] = st[a] /\ samples'[a] = samples[a]
        /\ st'[b] = "warming" /\ samples'[b] = 1
        /\ ppc' = "run" /\ dpc' = dpc
        /\ primary' \in {primary, primary \cup {b}}
    BY <1>8 DEF ProbeAdd, Fresh, Pooled, TypeOK
  <2>2. IsFiniteSet(primary')
    BY <2>1, FS_AddElement DEF FloorInv
  <2>3. \A a \in primary : Selectable(a) => Selectable(a)'
    BY <2>1 DEF Selectable, TypeOK
  <2>4. SelectablePrimary \subseteq SelectablePrimary'
    BY <2>1, <2>3 DEF SelectablePrimary
  <2>5. ASSUME BelowFloor PROVE Filling'
    <3>1. /\ ppc = "addPrimary" /\ primary = SelectablePrimary
          /\ backup' = {} /\ primary' = primary \cup {b}
      BY <1>8, <2>5 DEF FloorInv, Filling, ProbeAdd
    <3>2. Selectable(b)'
      BY <2>1 DEF Selectable
    <3>3. SelectablePrimary' = primary'
      BY <2>4, <3>1, <3>2 DEF SelectablePrimary
    <3> QED
      BY <2>1, <3>1, <3>3 DEF Filling
  <2> QED
    BY <1>1, <2>1, <2>2, <2>4, <2>5
<1>9. CASE PauseReadPrimary \/ PauseReadBackup \/ ProbeResume \/ ProbeNotice
  BY <1>4, <1>9 DEF PauseReadPrimary, PauseReadBackup, ProbeResume, ProbeNotice
\* A deactivation.
<1>10. ASSUME NEW t \in Tasks, CheckFloor(t) PROVE P
  <2>1. UNCHANGED <<primary, backup, st, samples, ppc, room>>
    BY <1>10 DEF CheckFloor
  <2>2. \A u \in Tasks : dpc'[u] = "mark" => dpc[u] = "mark" \/ AboveFloor
    BY <1>10 DEF CheckFloor, TypeOK
  <2>3. SelectablePrimary' = SelectablePrimary
    BY <1>3, <2>1 DEF SelectablePrimary
  <2>4. Filling => Filling'
    BY <2>1, <2>3 DEF Filling
  <2> QED
    BY <1>1, <2>1, <2>2, <2>3, <2>4 DEF FloorInv
<1>11. ASSUME NEW t \in Tasks, Promote(t) PROVE P
  <2> PICK b \in SelectableBackup :
        /\ st' = [st EXCEPT ![b] = "active"]
        /\ \/ primary' = primary \cup {b}
           \/ \E e \in Evictable : primary' = (primary \ {e}) \cup {b}
    BY <1>11 DEF Promote
  <2>1. samples' = samples /\ b \in backup /\ b \notin primary /\ b \in Backends
    BY <1>11 DEF Promote, SelectableBackup, NoAddressTwice, TypeOK
  <2>2. ~BelowFloor
    BY <2>1 DEF FloorInv, Filling
  <2>3. SelectablePrimary \cup {b} \subseteq SelectablePrimary'
    <3>1. \A a \in primary : Selectable(a)' = Selectable(a)
      BY <2>1 DEF Selectable, TypeOK
    <3>2. Selectable(b)'
      BY <2>1 DEF Selectable, TypeOK
    <3>3. \A e \in Evictable : ~Selectable(e)
      BY DEF Evictable
    <3> QED
      BY <3>1, <3>2, <3>3 DEF SelectablePrimary
  <2>4. IsFiniteSet(primary') /\ IsFiniteSet(SelectablePrimary)
        /\ IsFiniteSet(SelectablePrimary')
    <3>1. primary' \subseteq primary \cup {b}
      OBVIOUS
    <3>2. IsFiniteSet(primary \cup {b})
      BY FS_AddElement DEF FloorInv
    <3>3. SelectablePrimary \subseteq primary /\ SelectablePrimary' \subseteq primary'
      BY DEF SelectablePrimary
    <3> QED
      BY <3>1, <3>2, <3>3, FS_Subset DEF FloorInv
  <2>5. Cardinality(SelectablePrimary) >= MinActive
    BY <2>2, <2>4, FS_CardinalityType DEF BelowFloor
  <2>6. b \notin SelectablePrimary
    BY <2>1 DEF SelectablePrimary
  <2>7. AboveFloor' /\ ~BelowFloor'
    <3>1. Cardinality(SelectablePrimary') > MinActive
      BY <2>3, <2>4, <2>5, <2>6, OneMoreOrLess
    <3>2. Cardinality(SelectablePrimary') \in Nat
      BY <2>4, FS_CardinalityType
    <3> QED
      BY <3>1, <3>2 DEF AboveFloor, BelowFloor, MinActive, Half
  <2> QED
    BY <2>4, <2>7 DEF FloorInv
<1>12. ASSUME NEW t \in Tasks, Refuse(t) PROVE P
  <2>1. \A u \in Tasks : dpc'[u] = "mark" => dpc[u] = "mark"
    BY <1>12 DEF Refuse, AfterDeactivation, TypeOK, None
  <2> QED
    BY <1>2, <1>3, <1>12, <2>1 DEF Refuse
<1>13. ASSUME NEW t \in Tasks, Untrack(t) \/ NotifyResume(t) PROVE P
  BY <1>2, <1>3, <1>13 DEF Untrack, NotifyResume
<1>14. ASSUME NEW t \in Tasks, Mark(t) PROVE P
  <2>1. /\ dpc[t] = "mark" /\ st' = [st EXCEPT ![victim[t]] = mark[t]]
        /\ UNCHANGED <<primary, backup, samples, ppc, room>>
        /\ dpc' \in {[dpc EXCEPT ![t] = "refill"], [dpc EXCEPT ![t] = None]}
    BY <1>14 DEF Mark, AfterDeactivation
  <2>2. \A u \in Tasks : dpc'[u] # "mark"
    BY <2>1 DEF OneDecides, TypeOK, None
  <2>3. SelectablePrimary \ {victim[t]} \subseteq SelectablePrimary'
    <3>1. \A b \in primary \ {victim[t]} : Selectable(b)' = Selectable(b)
      BY <2>1 DEF Selectable, TypeOK
    <3> QED
      BY <2>1, <3>1 DEF SelectablePrimary
  <2>4. IsFiniteSet(SelectablePrimary) /\ IsFiniteSet(SelectablePrimary')
    <3>1. SelectablePrimary \subseteq primary /\ SelectablePrimary' \subseteq primary
      BY <2>1 DEF SelectablePrimary
    <3> QED
      BY <3>1, FS_Subset DEF FloorInv
  <2>5. Cardinality(SelectablePrimary) > MinActive
    BY <2>1 DEF FloorInv, AboveFloor
  <2>6. ~BelowFloor'
    <3>1. Cardinality(SelectablePrimary') >= MinActive
      BY <2>3, <2>4, <2>5, OneMoreOrLess
    <3>2. Cardinality(SelectablePrimary') \in Nat
      BY <2>4, FS_CardinalityType
    <3> QED
      BY <3>1, <3>2 DEF BelowFloor, MinActive, Half
  <2> QED
    BY <2>1, <2>2, <2>6 DEF FloorInv
\* A refill of a queue that fills for the first time moves nothing.
<1>15. ASSUME NEW t \in Tasks, RefillFromBackup(t), UNCHANGED <<st, samples, ppc, room>>,
              \A u \in Tasks : dpc'[u] = "mark" => dpc[u] = "mark"
       PROVE  P
  <2> PICK moved \in SUBSET backup : /\ primary' = primary \cup moved
                                     /\ backup' = backup \ moved
    BY <1>15 DEF RefillFromBackup, Movable
  <2>1. IsFiniteSet(primary')
    BY FS_Subset, FS_Union DEF FloorInv
  <2>2. SelectablePrimary \subseteq SelectablePrimary'
    BY <1>3, <1>15 DEF SelectablePrimary
  <2>3. ASSUME BelowFloor PROVE Filling'
    <3>1. Filling /\ moved = {}
      BY <2>3 DEF FloorInv, Filling
    <3>2. SelectablePrimary' = primary' /\ backup' = {}
      BY <1>3, <1>15, <3>1 DEF Filling, SelectablePrimary
    <3> QED
      BY <1>15, <3>1, <3>2 DEF Filling
  <2> QED
    BY <1>1, <1>15, <2>1, <2>2, <2>3
<1>16. ASSUME NEW t \in Tasks, RefillAfterRemoval(t) PROVE P
  <2>1. \A u \in Tasks : dpc'[u] = "mark" => dpc[u] = "mark"
    BY <1>16 DEF RefillAfterRemoval, AfterDeactivation, TypeOK, None
  <2> QED
    BY <1>15, <1>16, <2>1 DEF RefillAfterRemoval
\* A sample never takes the last one away.
<1>17. ASSUME NEW b, samples' = [samples EXCEPT ![b] = Sampled(@)]
              \/ samples' = [samples EXCEPT ![b] = SampleWindow], st' = st
       PROVE  \A a \in primary : Selectable(a) => Selectable(a)'
  <2>1. \A n \in 0 .. SampleWindow : n > 0 => Sampled(n) > 0
    BY PoolsAssumption DEF Sampled
  <2>2. SampleWindow > 0
    BY PoolsAssumption
  <2>3. \A a \in Backends : samples[a] > 0 => samples'[a] > 0
    BY <1>17, <2>1, <2>2 DEF TypeOK
  <2> QED
    BY <1>17, <2>3 DEF Selectable, TypeOK
<1>18. ASSUME NEW c \in Conns, Conn(c) PROVE P
  <2>1. CASE ConnRecord(c)
    BY <1>2, <1>17, <2>1 DEF ConnRecord
  <2>2. CASE ConnSelect(c) \/ ConnKeep(c) \/ ConnEnd(c)
    BY <1>2, <1>3, <2>2 DEF ConnSelect, ConnKeep, ConnEnd
  <2>3. CASE ConnEvict(c) \/ ConnFastFail(c)
    <3>1. \A u \in Tasks : dpc'[u] = "mark" => dpc[u] = "mark"
      BY <2>3 DEF ConnEvict, ConnFastFail, BeginDeactivation, TypeOK
    <3> QED
      BY <1>2, <1>3, <2>3, <3>1 DEF ConnEvict, ConnFastFail
  <2> QED
    BY <1>18, <2>1, <2>2, <2>3 DEF Conn
<1>19. ASSUME NEW q \in {"primary", "backup"}, NEW jump \in Jumps, HealthTick(q, jump)
       PROVE  P
  <2>1. samples' = samples
    BY <1>19, PoolsAssumption DEF HealthTick
  <2> QED
    BY <1>2, <1>3, <1>19, <2>1 DEF HealthTick
\* A round.
<1>20. ASSUME NEW r \in Rounds, StartRound(r) PROVE P
  <2>1. \A b \in Backends : st'[b] = st[b] \/ st'[b] = "active"
    BY <1>20 DEF StartRound
  <2>2. \A b \in primary : Selectable(b) => Selectable(b)'
    BY <1>20, <2>1 DEF Selectable, StartRound, TypeOK
  <2> QED
    BY <1>2, <1>20, <2>2 DEF StartRound
<1>21. ASSUME NEW r \in Rounds, SpawnPing(r) \/ StartDrain(r) \/ DrainEmpty(r) PROVE P
  BY <1>2, <1>3, <1>21 DEF SpawnPing, StartDrain, DrainEmpty
<1>22. ASSUME NEW r \in Rounds, ResultNone(r) PROVE P
  <2> PICK b \in inflight[r] : samples' = [samples EXCEPT ![b] = Sampled(@)]
    BY <1>22 DEF ResultNone
  <2>1. \A a \in primary : Selectable(a) => Selectable(a)'
    BY <1>17, <1>22 DEF ResultNone
  <2> QED
    BY <1>2, <1>22, <2>1 DEF ResultNone
<1>23. ASSUME NEW r \in Rounds, ResultRecover(r) \/ ResultBad(r) PROVE P
  <2> PICK b \in inflight[r] : samples' = [samples EXCEPT ![b] = SampleWindow]
    BY <1>23 DEF ResultRecover, ResultBad
  <2>1. \A a \in primary : Selectable(a) => Selectable(a)'
    BY <1>17, <1>23 DEF ResultRecover, ResultBad
  <2>2. \A u \in Tasks : dpc'[u] = "mark" => dpc[u] = "mark"
    BY <1>23 DEF ResultRecover, ResultBad, BeginDeactivation, TypeOK
  <2> QED
    BY <1>2, <1>23, <2>1, <2>2 DEF ResultRecover, ResultBad
<1>24. ASSUME NEW r \in Rounds, Recover(r) PROVE P
  <2>1. \A b \in primary : Selectable(b) => Selectable(b)'
    BY <1>24 DEF Recover, Selectable, TypeOK
  <2>2. \A u \in Tasks : dpc'[u] = "mark" => dpc[u] = "mark"
    BY <1>24 DEF Recover, AfterDeactivation, TypeOK, None
  <2> QED
    BY <1>2, <1>24, <2>1, <2>2 DEF Recover
<1>25. ASSUME NEW r \in Rounds, ResultColoMismatch(r) PROVE P
  <2>1. \A u \in Tasks : dpc'[u] = "mark" => dpc[u] = "mark"
    BY <1>25 DEF ResultColoMismatch, BeginDeactivation, TypeOK
  <2> QED
    BY <1>2, <1>3, <1>25, <2>1 DEF ResultColoMismatch
<1>26. ASSUME NEW r \in Rounds, Retain(r) PROVE P
  <2>1. /\ primary' = primary \ Gone /\ backup' = backup \ Gone
        /\ UNCHANGED <<st, samples, ppc, room, dpc>>
    BY <1>26 DEF Retain
  <2>2. \A b \in Gone : ~Selectable(b)
    BY DEF Gone, Selectable
  <2>3. SelectablePrimary' = SelectablePrimary
    BY <1>3, <2>1, <2>2 DEF SelectablePrimary
  <2>4. IsFiniteSet(primary')
    BY <2>1, FS_Subset DEF FloorInv
  <2>5. Filling => Filling'
    BY <2>1, <2>2, <2>3 DEF Filling, SelectablePrimary
  <2> QED
    BY <1>1, <2>1, <2>3, <2>4, <2>5 DEF FloorInv
<1>27. ASSUME NEW r \in Rounds, FinishRound(r) PROVE P
  <2>1. CASE RefillFromBackup(r)
    BY <1>15, <1>27, <2>1 DEF FinishRound
  <2>2. CASE UNCHANGED <<primary, backup>>
    BY <1>2, <1>3, <1>27, <2>2 DEF FinishRound
  <2> QED
    BY <1>27, <2>1, <2>2 DEF FinishRound
<1>29. ASSUME NEW r \in Rounds, ReadRemoved(r) PROVE P
  BY <1>2, <1>3, <1>29 DEF ReadRemoved
<1>28. CASE UNCHANGED vars
  BY <1>2, <1>3, <1>28 DEF vars
<1> QED
  BY <1>5, <1>6, <1>7, <1>8, <1>9, <1>10, <1>11, <1>12, <1>13, <1>14, <1>16,
     <1>18, <1>19, <1>20, <1>21, <1>22, <1>23, <1>24, <1>25, <1>26, <1>27, <1>28, <1>29
     DEF Next, Prober, Deactivation, Round

\* The floor of the primary queue is lost to overlapping deactivations and to the
\* reset after a clock jump, and to nothing else: as long as no two tasks are
\* between the count and the mark at once (loadbalancer.rs:522-546, 508-512,
\* 884-893), no step takes a queue that has reached its floor below it, for any
\* targets and any number of connections and rounds that may have to wait.
THEOREM FloorKeptInTurn ==
  ASSUME TRUE \notin Jumps
  PROVE  Spec /\ []OneDecides => FloorKept
<1>1. Init => FloorInv
  <2> SUFFICES ASSUME Init PROVE FloorInv
    OBVIOUS
  <2>1. primary = {} /\ backup = {} /\ ppc = "run" /\ SelectablePrimary = {}
    BY DEF Init, SelectablePrimary
  <2> QED
    BY <2>1, FS_EmptySet DEF Init, FloorInv, Filling, None
<1>2. BackupInv => IsFiniteSet(backup)
  BY DEF BackupInv
<1>3. Init => BackupInv
  BY FS_EmptySet, LimitsAreNat DEF Init, BackupInv
<1>4. TypeOK /\ NoAddressTwice /\ BackupInv /\ FloorInv /\ OneDecides /\ [Next]_vars
        => FloorInv' /\ (~BelowFloor => ~BelowFloor')
  BY <1>2, FloorStep
<1>5. FloorInv /\ FloorInv' /\ (~BelowFloor => ~BelowFloor')
        => (Cardinality(SelectablePrimary) >= MinActive
              => Cardinality(SelectablePrimary') >= MinActive)
  <2> SUFFICES ASSUME FloorInv, FloorInv', ~BelowFloor => ~BelowFloor',
                      Cardinality(SelectablePrimary) >= MinActive
               PROVE  Cardinality(SelectablePrimary') >= MinActive
    OBVIOUS
  <2>1. /\ IsFiniteSet(SelectablePrimary) /\ IsFiniteSet(SelectablePrimary')
    BY FS_Subset DEF FloorInv, SelectablePrimary
  <2>2. Cardinality(SelectablePrimary) \in Nat /\ Cardinality(SelectablePrimary') \in Nat
    BY <2>1, FS_CardinalityType
  <2> QED
    BY <2>2, FloorWithinTarget DEF BelowFloor, MinActive, Half
<1>6. TypeOK /\ NoAddressTwice /\ BackupInv /\ FloorInv /\ OneDecides /\ [Next]_vars
        => [Cardinality(SelectablePrimary) >= MinActive
              => Cardinality(SelectablePrimary') >= MinActive]_vars
  BY <1>4, <1>5
<1> QED
  BY <1>1, <1>3, <1>4, <1>6, BackupStep, TypeCorrect, AddressesUnique, PTL
     DEF Spec, FloorKept
=============================================================================
