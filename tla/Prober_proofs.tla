---------------------------- MODULE Prober_proofs ----------------------------
(* The prober waits on the token as CancelToken does, so that none of its  *)
(* waits is lost; and no result it adds meets full queues.                 *)
EXTENDS Prober, FiniteSetTheorems, TLAPS

TokenFacts == INSTANCE CancelToken_proofs WITH Waiters <- {Me}

\* Every step of the prober's world is a step of the token or leaves it alone.
LEMMA TokenStep == [Next]_vars => [Token!Next]_tokenVars
<1> SUFFICES ASSUME [Next]_vars PROVE [Token!Next]_tokenVars
  OBVIOUS
<1> USE DEF tokenVars
<1>1. ASSUME NEW c \in Cancellers, Cancel(c) PROVE Token!Next
  BY <1>1 DEF Cancel, Token!Next
<1>2. ASSUME NEW t \in Tasks, Shrink(t) \/ Untrack(t) \/ NotifyResume(t)
      PROVE UNCHANGED tokenVars
  BY <1>2 DEF Shrink, Untrack, NotifyResume
<1>3. CASE PollToken
  BY <1>3 DEF PollToken, Token!Next
<1>4. ASSUME OtherBranch PROVE [Token!Next]_tokenVars
  BY <1>4 DEF OtherBranch, Token!Next
<1>5. ASSUME NEW a \in Ips, Discard(a) \/ Candidate(a)
      PROVE [Token!Next]_tokenVars
  BY <1>4, <1>5 DEF Discard, Candidate, Joined
<1>6. CASE Resumed
  BY <1>4, <1>6 DEF Resumed
<1>7. CASE TopCancelled \/ PauseReadPrimary \/ PauseReadBackup \/ PopCollected
           \/ PopNew \/ SweepEnds \/ Cancelled \/ CountPrimary \/ Add
  BY <1>7 DEF TopCancelled, PauseReadPrimary, PauseReadBackup, PopCollected,
              PopNew, SweepEnds, Cancelled, CountPrimary, Add
<1>8. CASE UNCHANGED vars
  BY <1>8 DEF vars
<1> QED
  BY <1>1, <1>2, <1>3, <1>5, <1>6, <1>7, <1>8 DEF Next, Run

\* The prober's use of the token is a behaviour of CancelToken.
THEOREM UsesToken == Spec => Token!Spec
<1>1. Init => Token!Init
  BY DEF Init
<1> QED
  BY <1>1, TokenStep, PTL DEF Spec, Token!Spec, tokenVars, Token!vars

\* The token as the prober uses it keeps the invariant of CancelToken.
LEMMA TokenKept == Spec => [](Token!TypeOK /\ NoSleeper)
<1>1. Token!Init <=> TokenFacts!Init
  BY DEF Token!Init, TokenFacts!Init
<1>2. [Token!Next]_Token!vars <=> [TokenFacts!Next]_TokenFacts!vars
  BY DEF Token!Next, TokenFacts!Next, Token!vars, TokenFacts!vars,
     Token!SetFlag, TokenFacts!SetFlag, Token!WasSet, TokenFacts!WasSet,
     Token!NotifyWaiters, TokenFacts!NotifyWaiters,
     Token!Registered, TokenFacts!Registered,
     Token!CreateFuture, TokenFacts!CreateFuture,
     Token!CheckFlag, TokenFacts!CheckFlag, Token!Poll, TokenFacts!Poll,
     Token!Drop, TokenFacts!Drop
<1>3. TokenFacts!CancelInv => Token!TypeOK /\ NoSleeper
  BY DEF TokenFacts!CancelInv, TokenFacts!TypeOK, Token!TypeOK,
     TokenFacts!NoSleeper, Token!NoSleeper, NoSleeper
<1> QED
  BY <1>1, <1>2, <1>3, UsesToken, TokenFacts!CancelInvariant, PTL
     DEF Token!Spec, TokenFacts!Spec

\* No wait of the prober on the token is lost (cancel.rs:33-42).
THEOREM ProberWakes == Spec => []NoSleeper
  BY TokenKept, PTL

(***************************************************************************)
(* Room for every result.  The prober alone adds: what it knows of free    *)
(* room stays true until it adds, because a move between the queues takes  *)
(* room of the primary queue only by giving room of the backup queue.      *)
(***************************************************************************)

\* Where the loop has seen room and not used it up.
Promised ==
  pc \in {"sweep", "contains"} \/ (pc = "wait" /\ reason # "paused")

RoomInv ==
  /\ primary \in SUBSET Ips /\ backup \in SUBSET Ips
  /\ cand \in Ips \cup {None} /\ (pc = "counted" => cand \in Ips)
  /\ pc = "contains" => cand \in Ips
  /\ room \in BOOLEAN
  /\ Cardinality(backup) <= BackupTarget
  /\ Promised => ~Full
  /\ ResultsFindRoom

\* The queues hold subsets of a finite set of addresses.
LEMMA QueueFinite ==
  ASSUME NEW S \in SUBSET Ips
  PROVE  IsFiniteSet(S) /\ Cardinality(S) \in Nat
  BY ProberAssumption, FS_Subset, FS_CardinalityType

\* Removals and moves to the primary queue leave room where there was some.
LEMMA ShrinkKeepsRoom ==
  ASSUME NEW t \in Tasks, RoomInv, Shrink(t)
  PROVE  /\ primary' \in SUBSET Ips /\ backup' \in SUBSET Ips
         /\ Cardinality(backup') <= BackupTarget
         /\ ~Full => ~Full'
         /\ ~BackupFull => ~BackupFull'
<1>1. PICK gone \in SUBSET (primary \cup backup), up \in SUBSET backup :
        /\ primary' = (primary \ gone) \cup up
        /\ backup' = backup \ (gone \cup up)
  BY DEF Shrink
<1>2. /\ primary' \in SUBSET Ips /\ backup' \in SUBSET Ips
      /\ backup' \in SUBSET backup
  BY <1>1 DEF RoomInv
<1>3. /\ IsFiniteSet(primary) /\ Cardinality(primary) \in Nat
      /\ IsFiniteSet(backup) /\ Cardinality(backup) \in Nat
      /\ Cardinality(primary') \in Nat /\ Cardinality(backup') \in Nat
  BY <1>2, QueueFinite DEF RoomInv
<1>4. /\ Cardinality(backup') <= Cardinality(backup)
      /\ Cardinality(backup) = Cardinality(backup') => backup = backup'
  BY <1>2, <1>3, FS_Subset
<1>5. Cardinality(backup') <= BackupTarget
  BY <1>3, <1>4, ProberAssumption DEF RoomInv
<1>6. ~BackupFull => ~BackupFull'
  BY <1>3, <1>4, ProberAssumption DEF BackupFull
<1>7. ASSUME Full' PROVE Full
  <2>1. backup' = backup
    BY <1>3, <1>4, <1>7, ProberAssumption DEF Full, BackupFull, RoomInv
  <2>2. primary' \in SUBSET primary
    BY <1>1, <2>1
  <2>3. Cardinality(primary') <= Cardinality(primary)
    BY <1>3, <2>2, FS_Subset
  <2> QED
    BY <1>3, <1>7, <2>1, <2>3, ProberAssumption
       DEF Full, PrimaryFull, BackupFull
<1> QED
  BY <1>2, <1>5, <1>6, <1>7

\* RoomInv is kept by every step.
LEMMA RoomStep == RoomInv /\ [Next]_vars => RoomInv'
<1> SUFFICES ASSUME RoomInv, [Next]_vars PROVE RoomInv'
  OBVIOUS
<1> USE DEF RoomInv, Promised, ResultsFindRoom, Full, PrimaryFull, BackupFull
<1>1. ASSUME NEW t \in Tasks, Shrink(t) PROVE RoomInv'
  BY <1>1, ShrinkKeepsRoom DEF Shrink, pingVars, addVars, tokenVars
<1>2. ASSUME NEW t \in Tasks, Untrack(t) \/ NotifyResume(t) PROVE RoomInv'
  BY <1>2 DEF Untrack, NotifyResume, addVars, poolVars
<1>3. ASSUME NEW c \in Cancellers, Cancel(c) PROVE RoomInv'
  BY <1>3 DEF Cancel, addVars, poolVars
<1>4. CASE TopCancelled \/ Cancelled
  BY <1>4 DEF TopCancelled, Cancelled, End, addVars, poolVars
<1>5. CASE PauseReadPrimary
  BY <1>5 DEF PauseReadPrimary, PauseLikely, addVars, poolVars
<1>6. CASE PauseReadBackup
  BY <1>6 DEF PauseReadBackup, addVars, poolVars
<1>7. CASE PopCollected \/ PopNew
  BY <1>7 DEF PopCollected, PopNew, addVars, poolVars
<1>8. CASE SweepEnds
  BY <1>8 DEF SweepEnds, addVars, poolVars
<1>9. CASE PollToken
  BY <1>9 DEF PollToken, addVars, poolVars
<1>10. CASE Resumed
  BY <1>10 DEF Resumed, OtherBranch, addVars, poolVars
<1>11. ASSUME NEW a \in Ips, Discard(a) PROVE RoomInv'
  BY <1>11 DEF Discard, Joined, OtherBranch, poolVars
<1>12. ASSUME NEW a \in Ips, Candidate(a) PROVE RoomInv'
  BY <1>12 DEF Candidate, Joined, OtherBranch, poolVars
<1>13. CASE CountPrimary
  BY <1>13 DEF CountPrimary, poolVars
<1>14. CASE Add
  <2>1. primary' \in SUBSET Ips /\ backup' \in SUBSET Ips
    BY <1>14 DEF Add
  <2>2. Cardinality(backup) \in Nat /\ IsFiniteSet(backup)
    BY QueueFinite
  <2>3. Cardinality(backup') <= BackupTarget
    <3>1. Cardinality(backup \cup {cand}) <= Cardinality(backup) + 1
      BY <2>2, FS_AddElement
    <3>2. IsFiniteSet(backup \cup {cand})
      BY <2>2, FS_AddElement
    <3>3. Cardinality(backup \cup {cand}) \in Nat
      BY <3>2, FS_CardinalityType
    <3> QED
      BY <1>14, <2>2, <3>1, <3>3, ProberAssumption DEF Add
  <2> QED
    BY <1>14, <2>1, <2>3 DEF Add
<1>15. CASE UNCHANGED vars
  BY <1>15 DEF vars, addVars, poolVars
<1> QED
  BY <1>1, <1>2, <1>3, <1>4, <1>5, <1>6, <1>7, <1>8, <1>9, <1>10, <1>11,
     <1>12, <1>13, <1>14, <1>15 DEF Next, Run

\* RoomInv holds from the start and for ever.
LEMMA RoomInvariant == Spec => []RoomInv
<1>1. Init => RoomInv
  <2> SUFFICES ASSUME Init PROVE RoomInv
    OBVIOUS
  <2>1. pc = "top" /\ cand = None /\ room = FALSE /\ primary = {} /\ backup = {}
    BY DEF Init
  <2>2. Cardinality(backup) <= BackupTarget
    BY <2>1, FS_EmptySet, ProberAssumption
  <2> QED
    BY <2>1, <2>2 DEF RoomInv, Promised, ResultsFindRoom
<1> QED
  BY <1>1, RoomStep, PTL DEF Spec

\* A measured result always finds room, for any targets, any number of pings in
\* flight and of removing tasks (httping.rs:200-212, loadbalancer.rs:164-182).
THEOREM RoomForResults == Spec => []ResultsFindRoom
  BY RoomInvariant, PTL DEF RoomInv

(***************************************************************************)
(* What is collected.  An address leaves ip_set on behalf of one task only, *)
(* which owes a notification from before it does until after.              *)
(***************************************************************************)

AddrInv ==
  /\ primary \subseteq ipSet /\ backup \subseteq ipSet /\ ipSet \subseteq Ips
  /\ leaving \in [Tasks -> SUBSET ipSet] /\ owes \subseteq Tasks
  /\ pc \in {"contains", "counted"} => cand \in Ips \ ipSet
  /\ \A t \in Tasks : /\ leaving[t] \cap (primary \cup backup) = {}
                      /\ leaving[t] # {} => t \in owes
  /\ \A t, u \in Tasks : t # u => leaving[t] \cap leaving[u] = {}

\* AddrInv is kept by every step.
LEMMA AddrStep == AddrInv /\ [Next]_vars => AddrInv'
<1> SUFFICES ASSUME AddrInv, [Next]_vars PROVE AddrInv'
  OBVIOUS
<1> USE DEF AddrInv, poolVars, debtVars, addVars, pingVars
<1>1. ASSUME NEW t \in Tasks, Shrink(t) PROVE AddrInv'
  <2> PICK gone \in SUBSET (primary \cup backup), up \in SUBSET backup,
          out \in SUBSET (primary \cup backup) :
        /\ out \subseteq gone
        /\ gone \cap up = {}
        /\ primary' = (primary \ gone) \cup up
        /\ backup' = backup \ (gone \cup up)
        /\ leaving' = [leaving EXCEPT ![t] = out]
    BY <1>1 DEF Shrink
  <2>1. leaving[t] = {}
    BY <1>1 DEF Shrink
  <2>2. \A u \in Tasks : leaving'[u] = IF u = t THEN out ELSE leaving[u]
    OBVIOUS
  <2>3. /\ pc' = pc /\ cand' = cand /\ ipSet' = ipSet
        /\ owes' = owes \cup {t}
    BY <1>1 DEF Shrink
  <2> QED
    BY <2>1, <2>2, <2>3
<1>2. ASSUME NEW t \in Tasks, Untrack(t) PROVE AddrInv'
  <2> PICK a \in leaving[t] : /\ ipSet' = ipSet \ {a}
                              /\ leaving' = [leaving EXCEPT ![t] = @ \ {a}]
    BY <1>2 DEF Untrack
  <2>1. \A u \in Tasks :
          leaving'[u] = IF u = t THEN leaving[u] \ {a} ELSE leaving[u]
    OBVIOUS
  <2>2. \A u \in Tasks : leaving'[u] \subseteq ipSet'
    BY <2>1
  <2>3. UNCHANGED <<pc, cand, primary, backup, owes>>
    BY <1>2 DEF Untrack
  <2> QED
    BY <2>1, <2>2, <2>3
<1>3. ASSUME NEW t \in Tasks, NotifyResume(t) PROVE AddrInv'
  BY <1>3 DEF NotifyResume
<1>4. ASSUME NEW c \in Cancellers, Cancel(c) PROVE AddrInv'
  BY <1>4 DEF Cancel
<1>5. CASE TopCancelled \/ Cancelled
  BY <1>5 DEF TopCancelled, Cancelled, End
<1>6. CASE PauseReadPrimary \/ PauseReadBackup \/ PopCollected \/ PopNew
           \/ SweepEnds \/ PollToken
  BY <1>6 DEF PauseReadPrimary, PauseReadBackup, PopCollected, PopNew,
       SweepEnds, PollToken
<1>7. CASE Resumed
  BY <1>7 DEF Resumed, OtherBranch
<1>8. ASSUME NEW a \in Ips, Discard(a) \/ Candidate(a) PROVE AddrInv'
  BY <1>8 DEF Discard, Candidate, Joined, OtherBranch
<1>9. CASE CountPrimary
  BY <1>9 DEF CountPrimary
<1>10. CASE Add
  <2>1. /\ ipSet' = ipSet \cup {cand} /\ pc' = "top"
        /\ primary' \subseteq primary \cup {cand}
        /\ backup' \subseteq backup \cup {cand}
        /\ leaving' = leaving /\ owes' = owes
    BY <1>10 DEF Add
  <2>2. cand \in Ips /\ \A t \in Tasks : cand \notin leaving[t]
    BY <1>10 DEF Add
  <2> QED
    BY <2>1, <2>2
<1>11. CASE UNCHANGED vars
  BY <1>11 DEF vars
<1> QED
  BY <1>1, <1>2, <1>3, <1>4, <1>5, <1>6, <1>7, <1>8, <1>9, <1>10, <1>11
     DEF Next, Run

(***************************************************************************)
(* What a sweep has seen.  Consecutive hits are the slots behind the       *)
(* cursor, round the circle: the address that each of them yielded is      *)
(* collected still, or one has left since and its task owes a notification. *)
(***************************************************************************)

\* The slots hit since the last address that was not collected.
Recent == {s \in Slots : \/ cursor - hits < s /\ s <= cursor
                         \/ s > Size + cursor - hits}

SweepInv ==
  /\ cursor \in 0 .. Size /\ hits \in 0 .. Size
  /\ pc # "sweep" => hits = 0
  /\ cursor = 0 => hits = 0
  /\ pc = "sweep" => WakeUpDue \/ \A s \in Recent : Answered(s)
  /\ pc = "wait" /\ reason = "idle" => WakeUpDue \/ \A s \in Slots : Answered(s)

\* The pool is a circle.
LEMMA PoppedIsNext ==
  ASSUME cursor \in 0 .. Size, Size > 0
  PROVE  Popped = IF cursor = Size THEN 1 ELSE cursor + 1
<1>1. Size \in Nat
  BY ProberAssumption
<1>2. CASE cursor = Size
  <2>1. cursor % Size = 0
    BY <1>1, <1>2
  <2> QED
    BY <1>2, <2>1 DEF Popped
<1>3. CASE cursor # Size
  <2>1. cursor % Size = cursor
    BY <1>1, <1>3
  <2> QED
    BY <1>3, <2>1 DEF Popped
<1> QED
  BY <1>2, <1>3

\* After a full turn of hits every slot is among them.
LEMMA FullTurn ==
  ASSUME SweepInv, hits = Size
  PROVE  Recent = Slots
  BY ProberAssumption DEF SweepInv, Recent, Slots

\* SweepInv is kept by every step.
LEMMA SweepStep == AddrInv /\ SweepInv /\ [Next]_vars => SweepInv'
<1> SUFFICES ASSUME AddrInv, SweepInv, [Next]_vars PROVE SweepInv'
  OBVIOUS
<1> USE DEF SweepInv, WakeUpDue, pingVars, poolVars, debtVars, addVars
\* Elsewhere in the loop the sweep has yet to begin.
<1>0. ASSUME UNCHANGED <<cursor, hits>>, pc # "sweep",
             pc' \notin {"sweep", "wait"} \/ (pc' = "wait" /\ reason' # "idle")
      PROVE  SweepInv'
  BY <1>0
<1>1. ASSUME NEW t \in Tasks, Shrink(t) \/ Untrack(t) \/ NotifyResume(t)
      PROVE  SweepInv'
  <2>1. UNCHANGED <<pc, reason, cursor, hits>>
    BY <1>1 DEF Shrink, Untrack, NotifyResume
  <2>2. WakeUpDue'
    BY <1>1 DEF Shrink, Untrack, NotifyResume, NotifyVersion, AddrInv
  <2> QED
    BY <2>1, <2>2
<1>2. ASSUME NEW c \in Cancellers, Cancel(c) PROVE SweepInv'
  BY <1>2 DEF Cancel, Recent, Answered
<1>3. CASE TopCancelled \/ Cancelled
  BY <1>3 DEF TopCancelled, Cancelled, End
<1>4. CASE PauseReadPrimary \/ PauseReadBackup
  <2>1. UNCHANGED <<cursor, hits>> /\ hits = 0
    BY <1>4 DEF PauseReadPrimary, PauseReadBackup
  <2>2. Recent' = {}
    BY <2>1, ProberAssumption DEF Recent, Slots
  <2> QED
    BY <1>4, <2>1, <2>2 DEF PauseReadPrimary, PauseReadBackup
<1>5. CASE PopCollected
  <2>1. /\ pc' = pc /\ pc = "sweep" /\ UNCHANGED <<ipSet, unseen, owes>>
        /\ cursor' = Popped /\ hits' = hits + 1
        /\ Size > 0 /\ hits < Size /\ Answered(Popped)
    BY <1>5 DEF PopCollected, Sweeping, SweepLimit, NextHits, Answered
  <2>2. Popped = IF cursor = Size THEN 1 ELSE cursor + 1
    BY <2>1, PoppedIsNext
  <2>3. Recent' \subseteq Recent \cup {Popped}
    BY <2>1, <2>2, ProberAssumption DEF Recent, Slots
  <2>4. cursor' \in 1 .. Size /\ hits' \in 0 .. Size
    BY <2>1, <2>2, ProberAssumption
  <2>5. \A s \in Slots : Answered(s) => Answered(s)'
    BY <2>1 DEF Answered
  <2> QED
    BY <2>1, <2>3, <2>4, <2>5 DEF Recent
<1>6. CASE PopNew
  <2>1. /\ pc' = pc /\ pc = "sweep" /\ cursor' = Popped /\ hits' = 0 /\ Size > 0
    BY <1>6 DEF PopNew, Sweeping
  <2>2. cursor' \in 0 .. Size
    BY <2>1, PoppedIsNext, ProberAssumption
  <2>3. Recent' = {}
    BY <2>1, <2>2, ProberAssumption DEF Recent, Slots
  <2> QED
    BY <2>1, <2>2, <2>3, ProberAssumption
<1>7. CASE SweepEnds
  <2>1. /\ pc = "sweep" /\ ~Sweeping /\ pc' = "wait" /\ hits' = 0
        /\ reason' = "idle" => InFlight = 0
        /\ UNCHANGED <<cursor, ipSet, unseen, owes>>
    BY <1>7 DEF SweepEnds
  <2>2. ASSUME InFlight = 0 PROVE hits = Size
    BY <2>1, <2>2, ProberAssumption DEF Sweeping, Permits, SweepLimit
  <2>3. InFlight = 0 => WakeUpDue \/ \A s \in Slots : Answered(s)
    BY <2>1, <2>2, FullTurn
  <2> QED
    BY <2>1, <2>3, ProberAssumption DEF Answered
<1>8. CASE PollToken
  BY <1>8 DEF PollToken, Recent, Answered
<1>9. CASE Resumed
  BY <1>9, <1>0 DEF Resumed, OtherBranch
<1>10. ASSUME NEW a \in Ips, Discard(a) \/ Candidate(a) PROVE SweepInv'
  BY <1>10, <1>0 DEF Discard, Candidate, Joined, OtherBranch
<1>11. CASE CountPrimary \/ Add
  BY <1>11, <1>0 DEF CountPrimary, Add
<1>12. CASE UNCHANGED vars
  BY <1>12 DEF vars, Recent, Answered
<1> QED
  BY <1>1, <1>2, <1>3, <1>4, <1>5, <1>6, <1>7, <1>8, <1>9, <1>10, <1>11,
     <1>12 DEF Next, Run

(***************************************************************************)
(* What is in flight.  Every ping holds a permit; a sweep is synchronous   *)
(* and reads the number of pings before it spawns one more.                *)
(***************************************************************************)

PingInv ==
  /\ tasks \in [Ips -> 0 .. Concurrency]
  /\ IsFiniteSet(Pings) /\ InFlight <= Concurrency

\* An address has no more pings in flight than there are.
LEMMA OwnPings ==
  ASSUME PingInv, NEW a \in Ips
  PROVE  tasks[a] <= InFlight /\ InFlight \in Nat
<1>1. tasks[a] \in Nat
  BY ProberAssumption DEF PingInv
<1>2. IsFiniteSet(1 .. tasks[a]) /\ Cardinality(1 .. tasks[a]) = tasks[a]
  BY <1>1, FS_Interval, SMTT(40)
<1>3. IsFiniteSet({a}) /\ Cardinality({a}) = 1
  BY FS_Singleton
<1>4. Cardinality({a} \X (1 .. tasks[a])) = tasks[a]
  <2>1. Cardinality({a} \X (1 .. tasks[a]))
          = Cardinality({a}) * Cardinality(1 .. tasks[a])
    BY <1>2, <1>3, FS_Product, Zenon
  <2>2. Cardinality({a}) * Cardinality(1 .. tasks[a]) = 1 * tasks[a]
    BY <1>2, <1>3, Zenon
  <2> QED
    BY <1>1, <2>1, <2>2
<1>5. {a} \X (1 .. tasks[a]) \subseteq Pings
  BY DEF Pings
<1>6. Cardinality({a} \X (1 .. tasks[a])) <= Cardinality(Pings)
  BY <1>5, FS_Subset DEF PingInv
<1>7. Cardinality(Pings) \in Nat
  BY FS_CardinalityType DEF PingInv
<1> QED
  BY <1>1, <1>4, <1>6, <1>7 DEF InFlight

\* A spawned ping is one more.
LEMMA OneMore ==
  ASSUME PingInv, NEW a \in Ips, tasks' = [tasks EXCEPT ![a] = @ + 1],
         InFlight < Concurrency
  PROVE  PingInv'
<1>1. tasks \in [Ips -> Nat] /\ Concurrency \in Nat
  BY ProberAssumption DEF PingInv
<1>2. Pings' = Pings \cup {<<a, tasks[a] + 1>>}
  <2>1. \A b \in Ips : tasks'[b] = IF b = a THEN tasks[b] + 1 ELSE tasks[b]
    BY <1>1
  <2>2. 1 .. tasks[a] + 1 = (1 .. tasks[a]) \cup {tasks[a] + 1}
    BY <1>1
  <2> QED
    BY <2>1, <2>2 DEF Pings
<1>3. /\ IsFiniteSet(Pings')
      /\ Cardinality(Pings') \in {Cardinality(Pings), Cardinality(Pings) + 1}
  BY <1>2, FS_AddElement DEF PingInv
<1>4. tasks[a] <= InFlight /\ InFlight \in Nat
  BY OwnPings
<1>5. InFlight' <= Concurrency
  BY <1>1, <1>3, <1>4 DEF InFlight
<1>6. tasks' \in [Ips -> 0 .. Concurrency]
  BY <1>1, <1>4 DEF PingInv
<1> QED
  BY <1>3, <1>5, <1>6 DEF PingInv

\* A ping that has been joined is one less.
LEMMA OneLess ==
  ASSUME PingInv, NEW a \in Ips, tasks[a] > 0,
         tasks' = [tasks EXCEPT ![a] = @ - 1]
  PROVE  PingInv'
<1>1. tasks \in [Ips -> Nat] /\ Concurrency \in Nat
  BY ProberAssumption DEF PingInv
<1>2. Pings' \subseteq Pings
  <2>1. \A b \in Ips : 1 .. tasks'[b] \subseteq 1 .. tasks[b]
    BY <1>1
  <2> QED
    BY <2>1 DEF Pings
<1>3. /\ IsFiniteSet(Pings') /\ Cardinality(Pings') <= Cardinality(Pings)
      /\ Cardinality(Pings') \in Nat /\ Cardinality(Pings) \in Nat
  BY <1>2, FS_Subset, FS_CardinalityType DEF PingInv
<1>4. tasks' \in [Ips -> 0 .. Concurrency]
  BY <1>1 DEF PingInv
<1> QED
  BY <1>1, <1>3, <1>4 DEF PingInv, InFlight

\* Nothing is in flight at the start, and after a shutdown.
LEMMA NoneLeft ==
  ASSUME tasks = [a \in Ips |-> 0]
  PROVE  PingInv
<1>1. \A a \in Ips : 1 .. tasks[a] = {}
  OBVIOUS
<1>2. Pings = {}
  BY <1>1 DEF Pings
<1> QED
  BY <1>2, FS_EmptySet, ProberAssumption DEF PingInv, InFlight

\* PingInv is kept by every step.
LEMMA PingStep == SweepInv /\ PingInv /\ [Next]_vars => PingInv'
<1> SUFFICES ASSUME SweepInv, PingInv, [Next]_vars PROVE PingInv'
  OBVIOUS
<1> USE DEF pingVars
<1>0. ASSUME UNCHANGED tasks PROVE PingInv'
  BY <1>0 DEF PingInv, InFlight, Pings
<1>1. CASE TopCancelled \/ Cancelled
  <2>1. tasks' = [a \in Ips |-> 0]
    BY <1>1 DEF TopCancelled, Cancelled, End
  <2>2. \A a \in Ips : 1 .. tasks'[a] = {}
    BY <2>1
  <2>3. Pings' = {}
    BY <2>2 DEF Pings
  <2> QED
    BY <2>1, <2>3, FS_EmptySet, ProberAssumption DEF PingInv, InFlight
<1>2. CASE PopNew
  <2>1. Popped \in 1 .. Size
    BY <1>2, PoppedIsNext, ProberAssumption DEF PopNew, SweepInv, Sweeping
  <2>2. Draws[Popped] \subseteq Ips
    BY <2>1, ProberAssumption
  <2>3. PICK a \in Ips : tasks' = [tasks EXCEPT ![a] = @ + 1]
    BY <1>2, <2>2 DEF PopNew
  <2> QED
    BY <1>2, <2>3, OneMore DEF PopNew, Sweeping, Permits
<1>3. ASSUME NEW a \in Ips, Discard(a) \/ Candidate(a) PROVE PingInv'
  BY <1>3, OneLess DEF Discard, Candidate, Joined
<1>4. ASSUME NEW t \in Tasks, Shrink(t) \/ Untrack(t) \/ NotifyResume(t)
      PROVE  PingInv'
  BY <1>4, <1>0 DEF Shrink, Untrack, NotifyResume
<1>5. ASSUME NEW c \in Cancellers, Cancel(c) PROVE PingInv'
  BY <1>5, <1>0 DEF Cancel
<1>6. CASE PauseReadPrimary \/ PauseReadBackup \/ PopCollected \/ SweepEnds
           \/ PollToken \/ Resumed \/ CountPrimary \/ Add
  BY <1>6, <1>0 DEF PauseReadPrimary, PauseReadBackup, PopCollected,
       SweepEnds, PollToken, Resumed, CountPrimary, Add
<1>7. CASE UNCHANGED vars
  BY <1>7, <1>0 DEF vars
<1> QED
  BY <1>1, <1>2, <1>3, <1>4, <1>5, <1>6, <1>7 DEF Next, Run

\* The three hold together.
LEMMA ProberInvariant == Spec => [](PingInv /\ AddrInv /\ SweepInv)
<1>1. Init => PingInv
  BY NoneLeft DEF Init
<1>2. Init => AddrInv
  BY DEF Init, AddrInv
<1>3. Init => SweepInv
  BY ProberAssumption DEF Init, SweepInv
<1> QED
  BY <1>1, <1>2, <1>3, PingStep, AddrStep, SweepStep, PTL DEF Spec

\* The types, with the limit on the pings in flight (httping.rs:218), for every
\* number of permits; tasks that remove backends keep to their own addresses.
THEOREM ProberTypes == Spec => []TypeOK
<1> DEFINE Control ==
      /\ pc \in {"top", "pausing", "sweep", "wait", "contains", "counted",
                 "ended"}
      /\ reason \in {"none", "paused", "idle", "join"}
      /\ unseen \in BOOLEAN
<1>1. Init => Control
  BY DEF Init
<1>2. Control /\ [Next]_vars => Control'
  BY DEF vars, Next, Run, TopCancelled, PauseReadPrimary, PauseReadBackup,
     PopCollected, PopNew, SweepEnds, PollToken, Cancelled, Resumed, Discard,
     Candidate, Joined, OtherBranch, CountPrimary, Add, End, Shrink, Untrack,
     NotifyResume, NotifyVersion, Cancel
<1>3. PingInv /\ AddrInv /\ SweepInv /\ RoomInv /\ Control /\ Token!TypeOK
        => TypeOK
  BY DEF PingInv, AddrInv, SweepInv, RoomInv, TypeOK
<1> QED
  BY <1>1, <1>2, <1>3, ProberInvariant, RoomInvariant, TokenKept, PTL DEF Spec

\* The prober goes idle only when every slot of the pool has an address that is
\* collected, or with a wake-up under way, for any pool, whatever address a slot
\* yields and whatever is removed in the middle of the sweep (httping.rs:214-247).
THEOREM NothingForgotten == Spec => []NoSlotForgotten
<1>1. SweepInv => NoSlotForgotten
  BY DEF SweepInv, NoSlotForgotten, Asleep
<1> QED
  BY <1>1, ProberInvariant, PTL
=============================================================================
