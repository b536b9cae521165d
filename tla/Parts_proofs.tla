---------------------------- MODULE Parts_proofs ----------------------------
(* Theorems about the components MCParts runs: one direction of a           *)
(* connection, the accept loop's bearing with errors, the locks, the web     *)
(* client, the address pool and the settings.                                *)
EXTENDS MCParts, Recursion, FiniteSetTheorems, SequenceTheorems, TLAPS

(***************************************************************************)
(* Splice.  A chunk is in the pipe exactly while the thread drains it; the *)
(* thread looks at the source only with an empty pipe.                     *)
(***************************************************************************)

Draining == thread \in {"drain", "pollout"}

SpliceInv ==
  /\ SpliceTypeOK
  /\ kicked \in BOOLEAN
  /\ remaining = Piped
  /\ Draining => Piped > 0
  /\ ~Draining /\ thread # "failed" => Piped = 0
  /\ shut => Ended
  /\ thread = "done" /\ ~kicked => source # "open" /\ taken = sent
  /\ sink = "end" /\ ~kicked => Ended /\ Unsent = 0

\* The peers, the registry and the other direction keep SpliceInv.
LEMMA AroundStep ==
  ASSUME SpliceInv,
         Send \/ SourceEnds \/ SinkReads \/ SinkSeesEnd \/ SinkResets \/ Kick
           \/ OtherEnds \/ Close
  PROVE  SpliceInv'
<1> USE SpliceAssumption DEF SpliceInv, SpliceTypeOK, Draining, Ended, Piped,
      Unsent, counters, socketVars
<1>1. CASE Send
  BY <1>1 DEF Send
<1>2. CASE SourceEnds
  BY <1>2 DEF SourceEnds
<1>3. CASE SinkReads
  BY <1>3 DEF SinkReads
<1>4. CASE SinkSeesEnd
  BY <1>4 DEF SinkSeesEnd
<1>5. CASE SinkResets
  BY <1>5 DEF SinkResets
<1>6. CASE Kick
  BY <1>6 DEF Kick
<1>7. CASE OtherEnds
  BY <1>7 DEF OtherEnds
<1>8. CASE Close
  BY <1>8 DEF Close
<1> QED
  BY <1>1, <1>2, <1>3, <1>4, <1>5, <1>6, <1>7, <1>8

\* The thread keeps SpliceInv: short writes leave the rest of the chunk.
LEMMA ThreadStep ==
  ASSUME SpliceInv, Transfers
  PROVE  SpliceInv'
<1> USE SpliceAssumption DEF SpliceInv, SpliceTypeOK, Draining, Ended, Piped,
      Unsent, counters, socketVars
<1>1. CASE Readable \/ ReadableTimeout
  BY <1>1 DEF Readable, ReadableTimeout, Returns
<1>2. CASE PollIn \/ PollOut
  BY <1>2 DEF PollIn, PollOut, Returns
<1>3. CASE SpliceIn
  <2>1. CASE UNCHANGED <<taken, remaining>>
    BY <1>3, <2>1 DEF SpliceIn, Returns, InputReady, Unread
  <2>2. ASSUME NEW n \in 1 .. Smaller(Unread, BufSize),
               taken' = taken + n, remaining' = n, thread' = "drain",
               UNCHANGED <<sent, put, got, socketVars>>
        PROVE  SpliceInv'
    <3>1. n \in Nat /\ n > 0 /\ n <= Unread /\ n <= BufSize
      BY <2>2 DEF Smaller, Unread
    <3> QED
      BY <1>3, <2>2, <3>1 DEF SpliceIn, Unread
  <2> QED
    BY <1>3, <2>1, <2>2 DEF SpliceIn
<1>4. CASE SpliceOut
  <2>1. CASE UNCHANGED <<put, remaining>>
    BY <1>4, <2>1 DEF SpliceOut, Returns
  <2>2. ASSUME NEW w \in 1 .. Smaller(Smaller(Piped, remaining),
                                      SendRoom - Unsent),
               put' = put + w, remaining' = Reduced(w),
               thread' = IF remaining' = 0 THEN "read" ELSE "drain",
               UNCHANGED <<sent, taken, got, socketVars>>
        PROVE  SpliceInv'
    <3>1. w \in Nat /\ w > 0 /\ w <= Piped
      BY <2>2 DEF Smaller
    <3>2. remaining' = Piped - w
      BY <2>2 DEF Reduced
    <3> QED
      BY <1>4, <2>2, <3>1, <3>2 DEF SpliceOut
  <2> QED
    BY <1>4, <2>1, <2>2 DEF SpliceOut
<1> QED
  BY <1>1, <1>2, <1>3, <1>4 DEF Transfers

\* SpliceInv holds from the start and for ever.
LEMMA SpliceInvariant == SpliceSpec => []SpliceInv
<1>1. ASSUME SpliceInit PROVE SpliceInv
  <2>1. SpliceTypeOK
    BY <1>1, SpliceAssumption DEF SpliceInit, SpliceTypeOK
  <2>2. ~shut /\ kicked \in BOOLEAN
    BY <1>1 DEF SpliceInit
  <2>3. /\ remaining = Piped /\ Piped = 0
        /\ ~Draining /\ thread # "done" /\ sink # "end"
    BY <1>1 DEF SpliceInit, Draining, Piped
  <2> QED
    BY <2>1, <2>2, <2>3 DEF SpliceInv
<1>2. SpliceInv /\ UNCHANGED spliceVars => SpliceInv'
  BY DEF spliceVars, counters, socketVars, SpliceInv, SpliceTypeOK, Draining,
     Ended, Piped, Unsent
<1>3. SpliceInv /\ [SpliceNext]_spliceVars => SpliceInv'
  BY <1>2, AroundStep, ThreadStep DEF SpliceNext
<1> QED
  BY <1>1, <1>3, PTL DEF SpliceSpec

\* For a stream, a chunk and a socket of any size: a transfer that reports
\* success has put every byte of an unbroken stream into the socket of the sink,
\* and a sink that sees its orderly end has got them all (splice.rs:88-121,
\* forward.rs:345-347).
THEOREM NothingCutShort == SpliceSpec => []EndIsComplete
<1>1. SpliceInv => EndIsComplete
  BY DEF SpliceInv, SpliceTypeOK, EndIsComplete, Draining, Piped, Unsent
<1> QED
  BY <1>1, SpliceInvariant, PTL

(***************************************************************************)
(* AcceptErrors.  record() keeps three numbers of a streak; its definition *)
(* is over all failures since the last success.                            *)
(***************************************************************************)

\* A failure is recorded in the instant its backoff begins, and the loop accepts
\* again only after it, so that two failures are never of one instant.
Clocked ==
  /\ delay <= granted
  /\ loop = "accepting" => last # 0
  /\ loop = "backoff" => granted > 0 /\ (delay = granted <=> last = 0)
  /\ loop = "escalated" => last = 0 /\ start >= EscalateAfter

\* last is the latest failure and start an earlier one.  A streak that has
\* grown older than Horizon has failed too long ago to go on.
Kept ==
  /\ start = None <=> last = None
  /\ last = None => count = 0
  /\ last <= start
  /\ failures \subseteq 0 .. Horizon - 1
  /\ \A f \in failures : last # None /\ last <= f
  /\ last \in 0 .. Horizon - 1 => last \in failures
  /\ start \in 0 .. Horizon - 1 => start \in failures
  /\ loop # "escalated" =>
       IF start = Horizon THEN last > Window ELSE start - last < EscalateAfter
  /\ loop = "escalated" =>
       start < Horizon /\ \E f \in failures : f \in 1 .. Window

\* From start on, every failure has followed another within the window ...
Linked ==
  start < Horizon =>
    \A g \in failures : last < g /\ g <= start =>
      \E h \in failures : h < g /\ g - h <= Window

\* ... and whatever is older is cut off by a gap.
Apart ==
  \A f \in failures : f > start =>
    \E g \in failures : /\ start < g /\ g <= f
                        /\ \A h \in failures : h < g => g - h > Window

\* A new streak has started from the base.
Rebased == loop = "backoff" /\ delay = granted => BackoffRestarts

StreakInv == AcceptTypeOK /\ Clocked /\ Kept /\ Linked /\ Apart /\ Rebased

\* A power of two is a positive number: that of the subsets of an interval.
LEMMA PowerIsPositive ==
  ASSUME NEW n \in Nat
  PROVE  2 ^ n \in Nat \ {0}
<1>1. IsFiniteSet(1 .. n) /\ Cardinality(1 .. n) = n
  BY FS_Interval
<1>2. /\ Cardinality(SUBSET (1 .. n)) = 2 ^ Cardinality(1 .. n)
      /\ IsFiniteSet(SUBSET (1 .. n))
  BY <1>1, FS_SUBSET
<1>3. Cardinality(SUBSET (1 .. n)) # 0
  BY <1>2, FS_EmptySet
<1> QED
  BY <1>1, <1>2, <1>3, FS_CardinalityType

\* A backoff lasts, and no longer than the ceiling; the first of a streak lasts
\* no longer than its base either.
LEMMA DelayInBounds ==
  ASSUME StreakInv, NEW action \in {"Retry", "Backoff"}
  PROVE  /\ BackoffDelay(action) \in 1 .. BackoffMax
         /\ Prior = 0 => BackoffDelay(action) <=
              Lesser(IF BackoffBase > RetryBase THEN BackoffBase ELSE RetryBase,
                     BackoffMax)
<1> DEFINE base == IF action = "Backoff" THEN BackoffBase ELSE RetryBase
           shift == Lesser(Prior, MaxShift)
<1>1. base \in Nat \ {0} /\ BackoffMax \in Nat \ {0} /\ MaxShift \in Nat
  BY AcceptAssumption
<1>2. Prior \in Nat
  BY <1>1 DEF Prior, StreakInv, AcceptTypeOK
<1>3. shift \in Nat /\ (Prior = 0 => shift = 0)
  BY <1>1, <1>2 DEF Lesser
<1>4. 2 ^ shift \in Nat \ {0} /\ (shift = 0 => 2 ^ shift = 1)
  <2> HIDE DEF shift
  <2>1. 2 ^ 0 = 1
    OBVIOUS
  <2> QED
    BY <1>3, <2>1, PowerIsPositive
<1> DEFINE power == 2 ^ shift
           product == base * power
<1>5. product \in Nat \ {0} /\ (power = 1 => product = base)
  <2> HIDE DEF base, power
  <2> QED
    BY <1>1, <1>4 DEF power
<1>6. BackoffDelay(action) = Lesser(product, BackoffMax)
  BY DEF BackoffDelay, Ceiled
<1> HIDE DEF product, power, shift
<1>7. BackoffDelay(action) \in 1 .. BackoffMax
  BY <1>1, <1>5, <1>6 DEF Lesser
<1>8. ASSUME Prior = 0
      PROVE  BackoffDelay(action) <=
              Lesser(IF BackoffBase > RetryBase THEN BackoffBase ELSE RetryBase,
                     BackoffMax)
  <2>1. product = base
    BY <1>3, <1>4, <1>5, <1>8 DEF power
  <2> QED
    BY <1>1, <1>6, <2>1, AcceptAssumption DEF Lesser
<1> QED
  BY <1>7, <1>8

\* The passing of time shifts all ages alike; what reaches Horizon is dropped.
LEMMA TickStep ==
  ASSUME StreakInv, Tick
  PROVE  StreakInv'
<1> USE AcceptAssumption DEF None, Horizon, Ages, AcceptTypeOK
<1>1. \A f \in 0 .. Horizon : Aged(f) = IF f = Horizon THEN Horizon ELSE f + 1
  BY DEF Aged, Lesser
<1>2. Aged(None) = None
  BY DEF Aged
<1>3. \A f : f \in failures' <=> f \in 1 .. Horizon - 1 /\ f - 1 \in failures
  <2>1. failures' = {Aged(f) : f \in failures} \ {Horizon}
    BY DEF Tick
  <2> QED
    BY <1>1, <2>1 DEF StreakInv, Kept
<1>4. /\ start' = IF start = None THEN None
                  ELSE IF start = Horizon THEN Horizon ELSE start + 1
      /\ last' = IF last = None THEN None
                 ELSE IF last = Horizon THEN Horizon ELSE last + 1
      /\ count' = count /\ loop' = loop /\ granted' = granted
      /\ loop # "escalated" /\ loop \in {"accepting", "backoff"}
      /\ delay' = IF loop = "backoff" THEN delay - 1 ELSE 0
      /\ loop = "backoff" => delay > 0
  BY <1>1, <1>2 DEF Tick, StreakInv
<1>5. AcceptTypeOK'
  BY <1>3, <1>4 DEF StreakInv
<1>6. Clocked'
  BY <1>4 DEF StreakInv, Clocked
<1>7. Kept'
  BY <1>3, <1>4 DEF StreakInv, Kept
<1>8. Linked'
  <2> SUFFICES ASSUME start' < Horizon, NEW g \in failures', last' < g, g <= start'
               PROVE  \E h \in failures' : h < g /\ g - h <= Window
    BY DEF Linked
  <2>1. /\ g - 1 \in failures /\ g \in 1 .. Horizon - 1
        /\ last < g - 1 /\ g - 1 <= start /\ start < Horizon
    BY <1>3, <1>4 DEF StreakInv, Kept
  <2>2. PICK h \in failures : h < g - 1 /\ (g - 1) - h <= Window
    BY <2>1 DEF StreakInv, Linked
  <2>3. h \in 0 .. Horizon - 1
    BY DEF StreakInv, Kept
  <2>4. h + 1 \in failures' /\ h + 1 < g /\ g - (h + 1) <= Window
    BY <1>3, <2>1, <2>2, <2>3
  <2> QED
    BY <2>4
<1>9. Apart'
  <2> SUFFICES ASSUME NEW f \in failures', f > start'
               PROVE  \E g \in failures' :
                        /\ start' < g /\ g <= f
                        /\ \A h \in failures' : h < g => g - h > Window
    BY DEF Apart
  <2>1. f - 1 \in failures /\ f \in 1 .. Horizon - 1 /\ f - 1 > start
    BY <1>3, <1>4 DEF StreakInv, Kept
  <2>2. PICK g \in failures : /\ start < g /\ g <= f - 1
                              /\ \A h \in failures : h < g => g - h > Window
    BY <2>1 DEF StreakInv, Apart
  <2>3. g \in 0 .. Horizon - 1
    BY DEF StreakInv, Kept
  <2>4. g + 1 <= f /\ g + 1 \in failures'
    BY <1>3, <2>1, <2>2, <2>3
  <2>4b. start' < g + 1
    BY <1>4, <2>2, <2>3 DEF StreakInv
  <2>5. ASSUME NEW h \in failures', h < g + 1 PROVE (g + 1) - h > Window
    BY <1>3, <2>2, <2>3, <2>5
  <2> QED
    BY <2>4, <2>4b, <2>5
<1>10. Rebased'
  BY <1>4 DEF StreakInv, Clocked, Rebased
<1> QED
  BY <1>5, <1>6, <1>7, <1>8, <1>9, <1>10 DEF StreakInv

\* A failure goes on with the streak or begins a new one.
LEMMA FailureStep ==
  ASSUME StreakInv, NEW action \in {"Retry", "Backoff"}, FailsFor(action)
  PROVE  StreakInv'
<1> USE AcceptAssumption DEF None, Horizon, Ages, AcceptTypeOK
<1>1. /\ loop = "accepting" /\ last # 0
      /\ last' = 0 /\ failures' = failures \cup {0}
      /\ start' = IF Continued THEN start ELSE 0
  BY DEF FailsFor, StreakInv, Clocked
<1>2. Prior \in 0 .. MaxShift + 1 /\ count' = Lesser(Prior + 1, MaxShift + 1)
  BY DEF FailsFor, Prior, StreakInv
<1>3. \/ /\ Elapsed >= EscalateAfter /\ loop' = "escalated"
         /\ delay' = delay /\ granted' = granted
      \/ /\ ~(Elapsed >= EscalateAfter) /\ loop' = "backoff"
         /\ delay' = granted' /\ granted' = BackoffDelay(action)
  BY DEF FailsFor
<1>4. BackoffDelay(action) \in 1 .. BackoffMax
  BY DelayInBounds
\* A streak that goes on is younger than Horizon.
<1>5. Continued => /\ start \in 0 .. Horizon - 1 /\ Elapsed = start
                   /\ last \in 1 .. Window /\ last \in failures
  BY <1>1 DEF Continued, Elapsed, StreakInv, Kept
<1>6. ~Continued => Elapsed = 0
  BY DEF Elapsed
<1>7. AcceptTypeOK'
  <2>1. count' \in 0 .. MaxShift + 1
    BY <1>2 DEF Lesser
  <2>2. delay' \in 0 .. BackoffMax /\ granted' \in 0 .. BackoffMax
    BY <1>3, <1>4 DEF StreakInv
  <2> QED
    BY <1>1, <1>3, <1>5, <2>1, <2>2 DEF StreakInv
<1>8. Clocked'
  BY <1>1, <1>3, <1>4, <1>5, <1>6 DEF StreakInv, Clocked
<1>9. Kept'
  <2>1. loop' = "escalated" => Continued
    BY <1>3, <1>6
  <2> QED
    BY <1>1, <1>3, <1>5, <1>6, <2>1 DEF StreakInv, Kept
<1>10. Linked'
  <2> SUFFICES ASSUME NEW g \in failures', 0 < g, g <= start'
               PROVE  \E h \in failures' : h < g /\ g - h <= Window
    BY <1>1 DEF Linked
  <2>1. Continued /\ g \in failures /\ g <= start /\ last <= g
    BY <1>1 DEF StreakInv, Kept
  <2>2. CASE g = last
    BY <1>1, <1>5, <2>1, <2>2
  <2>3. CASE g # last
    <3>1. last < g
      BY <2>1, <2>3, <1>5 DEF StreakInv, Kept
    <3> QED
      BY <1>1, <1>5, <2>1, <3>1 DEF StreakInv, Linked
  <2> QED
    BY <2>2, <2>3
<1>11. Apart'
  <2> SUFFICES ASSUME NEW f \in failures', f > start'
               PROVE  \E g \in failures' :
                        /\ start' < g /\ g <= f
                        /\ \A h \in failures' : h < g => g - h > Window
    BY DEF Apart
  <2>0. failures \subseteq 0 .. Horizon - 1
    BY DEF StreakInv, Kept
  <2>1. f \in failures /\ last # None /\ last <= f
    BY <1>1, <1>5, <2>0 DEF StreakInv, Kept
  <2>2. CASE Continued
    <3>1. PICK g \in failures : /\ start < g /\ g <= f
                                /\ \A h \in failures : h < g => g - h > Window
      BY <1>1, <2>1, <2>2 DEF StreakInv, Apart
    <3>2. last < g /\ g - last > Window
      BY <1>5, <2>0, <2>2, <3>1 DEF StreakInv, Kept
    <3>3. \A h \in failures' : h < g => g - h > Window
      BY <1>1, <1>5, <2>0, <2>2, <3>1, <3>2
    <3> QED
      BY <1>1, <2>2, <3>1, <3>3
  <2>3. CASE ~Continued
    <3>1. last \in 0 .. Horizon - 1 /\ last \in failures /\ last > Window
      BY <2>0, <2>1, <2>3 DEF Continued, StreakInv, Kept
    <3>2. \A h \in failures' : h < last => last - h > Window
      BY <1>1, <2>0, <3>1 DEF StreakInv, Kept
    <3> QED
      BY <1>1, <2>1, <2>3, <3>1, <3>2
  <2> QED
    BY <2>2, <2>3
<1>12. Rebased'
  <2> SUFFICES ASSUME loop' = "backoff", \A f \in failures' \ {0} : f > Window
               PROVE  granted' <=
                 Lesser(IF BackoffBase > RetryBase THEN BackoffBase ELSE RetryBase,
                        BackoffMax)
    BY DEF Rebased, BackoffRestarts
  <2>1. ~Continued
    BY <1>1, <1>5
  <2>2. Prior = 0
    BY <2>1 DEF Prior
  <2> QED
    BY <1>3, <2>2, DelayInBounds
<1> QED
  BY <1>7, <1>8, <1>9, <1>10, <1>11, <1>12 DEF StreakInv

\* StreakInv holds at the start, and every step keeps it.
LEMMA StreakSettles ==
  /\ AcceptInit => StreakInv
  /\ StreakInv /\ [AcceptNext]_acceptVars => StreakInv'
<1> USE AcceptAssumption DEF None, Horizon, Ages, AcceptTypeOK, StreakInv, Clocked,
      Kept, Linked, Apart, Rebased
<1>1. AcceptInit => StreakInv
  BY DEF AcceptInit
<1>2. ASSUME StreakInv, BackoffElapsed PROVE StreakInv'
  BY <1>2 DEF BackoffElapsed, streak
<1>3. ASSUME StreakInv, Accepted PROVE StreakInv'
  BY <1>3 DEF Accepted, Cleared
<1>4. ASSUME StreakInv, FatalOrCancelled PROVE StreakInv'
  BY <1>4 DEF FatalOrCancelled, streak
<1>5. ASSUME StreakInv, UNCHANGED acceptVars PROVE StreakInv'
  BY <1>5 DEF acceptVars, streak, BackoffRestarts, JustFailed
<1>6. StreakInv /\ [AcceptNext]_acceptVars => StreakInv'
  BY <1>2, <1>3, <1>4, <1>5, TickStep, FailureStep DEF AcceptNext
<1> QED
  BY <1>1, <1>6

\* StreakInv holds for ever.
LEMMA StreakInvariant == AcceptSpec => []StreakInv
  BY StreakSettles, PTL DEF AcceptSpec

\* For any escalation time, window and backoff: the three numbers record() keeps
\* escalate exactly the persistent failures of the definition, and the backoff
\* starts again with each streak (accept_error.rs:44-66).
THEOREM StreakIsExact == AcceptSpec => []StreakExact
<1>1. ASSUME StreakInv PROVE EscalatesExactly
  <2> SUFFICES ASSUME JustFailed PROVE loop = "escalated" <=> Persistent
    BY DEF EscalatesExactly
  <2> USE AcceptAssumption DEF None, Horizon, Ages, AcceptTypeOK
  <2>1. last = 0 /\ failures \subseteq 0 .. Horizon - 1 /\ start \in 0 .. Horizon
    BY <1>1 DEF JustFailed, StreakInv, Kept
  <2>2. ASSUME loop = "escalated" PROVE Persistent
    <3>1. start < Horizon
      BY <1>1, <2>2 DEF StreakInv, Kept
    <3> QED
      BY <1>1, <2>1, <2>2, <3>1 DEF StreakInv, Clocked, Kept, Linked, Persistent
  <2>3. ASSUME loop # "escalated" PROVE ~Persistent
    <3>1. start < EscalateAfter
      BY <1>1, <2>1, <2>3 DEF StreakInv, Kept
    <3> SUFFICES ASSUME NEW f \in failures, f >= EscalateAfter
                 PROVE  \E g \in failures :
                          /\ g \in 1 .. f
                          /\ \A h \in failures : ~(h < g /\ g - h <= Window)
      BY DEF Persistent
    <3>2. PICK g \in failures : /\ start < g /\ g <= f
                                /\ \A h \in failures : h < g => g - h > Window
      BY <1>1, <2>1, <3>1 DEF StreakInv, Apart
    <3>3. g \in 1 .. f /\ \A h \in failures : ~(h < g /\ g - h <= Window)
      BY <2>1, <3>2
    <3> QED
      BY <3>3
  <2> QED
    BY <2>2, <2>3
<1>2. ASSUME StreakInv PROVE BackoffRestarts
  <2>1. CASE loop = "escalated"
    <3>1. PICK f \in failures : f \in 1 .. Window
      BY <1>2, <2>1 DEF StreakInv, Kept
    <3>2. ~(\A g \in failures \ {0} : g > Window)
      BY <3>1, AcceptAssumption
    <3> QED
      BY <3>2 DEF BackoffRestarts
  <2>2. CASE loop # "escalated"
    BY <1>2, <2>2 DEF StreakInv, Rebased, BackoffRestarts, JustFailed
  <2> QED
    BY <2>1, <2>2
<1>3. StreakInv => StreakExact
  BY <1>1, <1>2 DEF StreakExact
<1> QED
  BY <1>3, StreakInvariant, PTL

(***************************************************************************)
(* LockOrder.  There is one order in which every operation takes its       *)
(* locks: that of Rank.  What a thread holds it drops, and until then it   *)
(* takes only what comes later.                                            *)
(***************************************************************************)

Rank == [phase |-> 0, entries |-> 1, inner |-> 2, slots |-> 3, ipSet |-> 3]

LockSteps == [op : {"read", "write", "drop"}, lock : Locks]

\* After the j-th step of q, l is dropped, and only later locks are taken before.
DroppedAfter(l, q, j) ==
  \E d \in j + 1 .. Len(q) :
    /\ q[d] = Drop(l)
    /\ \A i \in j + 1 .. d - 1 : q[i].op # "drop" => Rank[q[i].lock] > Rank[l]

\* Whoever holds the locks h and still has q to do keeps the order.
InOrder(h, q) ==
  /\ q \in Seq(LockSteps)
  /\ \A l \in h : DroppedAfter(l, q, 0)
  /\ \A j \in 1 .. Len(q) : q[j].op # "drop" => DroppedAfter(q[j].lock, q, j)

HeldBy(t) == {l \in Locks : t \in readers[l] \cup writers[l]}

LockInv ==
  /\ todo \in [Threads -> Seq(LockSteps)]
  /\ readers \in [Locks -> SUBSET Threads]
  /\ writers \in [Locks -> SUBSET Threads]
  /\ parked \subseteq Threads
  /\ \A t \in Threads : InOrder(HeldBy(t), todo[t])
  /\ \A p \in parked : todo[p] # <<>> /\ Wanted(p).op = "write"

\* One operation after another keeps the order ...
LEMMA InOrderThen ==
  ASSUME NEW p, NEW q, InOrder({}, p), InOrder({}, q)
  PROVE  InOrder({}, p \o q)
<1> DEFINE r == p \o q
<1>1. /\ p \in Seq(LockSteps) /\ q \in Seq(LockSteps) /\ r \in Seq(LockSteps)
      /\ Len(r) = Len(p) + Len(q) /\ Len(p) \in Nat /\ Len(q) \in Nat
      /\ \A i \in 1 .. Len(p) : r[i] = p[i]
      /\ \A i \in 1 .. Len(q) : r[Len(p) + i] = q[i]
  BY DEF InOrder
<1> HIDE DEF r
<1>2. ASSUME NEW j \in 1 .. Len(r), r[j].op # "drop"
      PROVE  DroppedAfter(r[j].lock, r, j)
  <2>1. CASE j <= Len(p)
    <3>1. DroppedAfter(p[j].lock, p, j)
      BY <1>1, <1>2, <2>1 DEF InOrder
    <3> QED
      BY <1>1, <1>2, <2>1, <3>1, SMTT(40) DEF DroppedAfter
  <2>2. CASE j > Len(p)
    <3> DEFINE k == j - Len(p)
    <3>1. k \in 1 .. Len(q) /\ r[j] = q[k] /\ j = Len(p) + k
      BY <1>1, <2>2
    <3>2. PICK d \in k + 1 .. Len(q) :
            /\ q[d] = Drop(q[k].lock)
            /\ \A i \in k + 1 .. d - 1 :
                 q[i].op # "drop" => Rank[q[i].lock] > Rank[q[k].lock]
      BY <1>2, <3>1 DEF InOrder, DroppedAfter
    <3> DEFINE e == Len(p) + d
    <3>3. e \in j + 1 .. Len(r) /\ r[e] = Drop(r[j].lock)
      BY <1>1, <3>1, <3>2
    <3>4. ASSUME NEW i \in j + 1 .. e - 1, r[i].op # "drop"
          PROVE  Rank[r[i].lock] > Rank[r[j].lock]
      <4> DEFINE m == i - Len(p)
      <4>1. m \in k + 1 .. d - 1 /\ i = Len(p) + m /\ m \in 1 .. Len(q)
        BY <1>1, <3>1, <3>2
      <4> HIDE DEF m
      <4>2. r[i] = q[m]
        BY <1>1, <4>1
      <4> QED
        BY <3>1, <3>2, <3>4, <4>1, <4>2
    <3> QED
      BY <3>3, <3>4 DEF DroppedAfter
  <2> QED
    BY <1>1, <2>1, <2>2
<1> QED
  BY <1>1, <1>2 DEF InOrder, r

\* ... and so does one that runs under a lock and takes only later ones.
LEMMA InOrderUnder ==
  ASSUME NEW l \in Locks, NEW take \in {Rd(l), Wr(l)}, NEW q, InOrder({}, q),
         \A i \in 1 .. Len(q) : q[i].op # "drop" => Rank[q[i].lock] > Rank[l]
  PROVE  InOrder({}, <<take>> \o q \o <<Drop(l)>>)
<1> DEFINE r == <<take>> \o q \o <<Drop(l)>>
<1>1. /\ take \in LockSteps /\ Drop(l) \in LockSteps /\ take.op # "drop"
      /\ take.lock = l
  BY DEF LockSteps, Rd, Wr, Drop
<1>2. /\ q \in Seq(LockSteps) /\ r \in Seq(LockSteps)
      /\ Len(r) = Len(q) + 2 /\ Len(q) \in Nat
      /\ r[1] = take /\ r[Len(q) + 2] = Drop(l)
      /\ \A i \in 1 .. Len(q) : r[i + 1] = q[i]
  BY <1>1 DEF InOrder
<1> HIDE DEF r
<1>3. ASSUME NEW j \in 1 .. Len(r), r[j].op # "drop"
      PROVE  DroppedAfter(r[j].lock, r, j)
  <2>1. CASE j = 1
    <3>1. \A i \in 2 .. Len(q) + 1 : i - 1 \in 1 .. Len(q) /\ r[i] = q[i - 1]
      BY <1>2
    <3>2. \A i \in 2 .. Len(q) + 1 : r[i].op # "drop" => Rank[r[i].lock] > Rank[l]
      BY <3>1
    <3> QED
      BY <1>1, <1>2, <2>1, <3>2 DEF DroppedAfter
  <2>2. CASE j \in 2 .. Len(q) + 1
    <3> DEFINE k == j - 1
    <3>1. k \in 1 .. Len(q) /\ r[j] = q[k]
      BY <1>2, <2>2
    <3>2. PICK d \in k + 1 .. Len(q) :
            /\ q[d] = Drop(q[k].lock)
            /\ \A i \in k + 1 .. d - 1 :
                 q[i].op # "drop" => Rank[q[i].lock] > Rank[q[k].lock]
      BY <1>3, <3>1 DEF InOrder, DroppedAfter
    <3>3. d + 1 \in j + 1 .. Len(r) /\ r[d + 1] = Drop(r[j].lock)
      BY <1>2, <3>1, <3>2
    <3>4. ASSUME NEW i \in j + 1 .. d, r[i].op # "drop"
          PROVE  Rank[r[i].lock] > Rank[r[j].lock]
      <4>1. i - 1 \in k + 1 .. d - 1 /\ i - 1 \in 1 .. Len(q) /\ r[i] = q[i - 1]
        BY <1>2, <3>1, <3>2
      <4> QED
        BY <3>1, <3>2, <3>4, <4>1
    <3> QED
      BY <3>3, <3>4 DEF DroppedAfter
  <2>3. CASE j = Len(q) + 2
    BY <1>2, <1>3, <2>3 DEF Drop
  <2> QED
    BY <1>2, <2>1, <2>2, <2>3
<1> QED
  BY <1>2, <1>3 DEF InOrder, r

\* A lock taken and dropped at once.
LEMMA InOrderBriefly ==
  ASSUME NEW l \in Locks
  PROVE  InOrder({}, ReadBriefly(l)) /\ InOrder({}, WriteBriefly(l))
<1>1. /\ Rd(l) \in LockSteps /\ Wr(l) \in LockSteps /\ Drop(l) \in LockSteps
  BY DEF LockSteps, Rd, Wr, Drop
<1> QED
  BY <1>1 DEF InOrder, DroppedAfter, ReadBriefly, WriteBriefly, Rd, Wr, Drop

\* Every operation keeps the order.
LEMMA OperationsInOrder ==
  ASSUME NEW op \in Operations
  PROVE  InOrder({}, op)
<1>1. \A l \in {"phase", "entries", "inner", "slots", "ipSet"} :
        InOrder({}, ReadBriefly(l)) /\ InOrder({}, WriteBriefly(l))
  BY InOrderBriefly DEF Locks
<1>2. /\ InOrder({}, SelectSlot) /\ InOrder({}, SelectPool)
      /\ InOrder({}, TryDeactivate) /\ InOrder({}, CleanupRemoved)
      /\ InOrder({}, RewriteQueues) /\ InOrder({}, TouchEntry)
  BY <1>1, InOrderThen
     DEF SelectSlot, SelectPool, TryDeactivate, CleanupRemoved, RewriteQueues, TouchEntry
<1>3. ASSUME NEW l \in Locks, NEW m \in Locks, Rank[l] < Rank[m],
             NEW take \in {Rd(l), Wr(l)}
      PROVE  InOrder({}, <<take, Wr(m), Drop(m), Drop(l)>>)
  <2> DEFINE q == <<take, Wr(m), Drop(m), Drop(l)>>
  <2>1. /\ q \in Seq(LockSteps) /\ Len(q) = 4
        /\ q[1] = take /\ q[2] = Wr(m) /\ q[3] = Drop(m) /\ q[4] = Drop(l)
    BY DEF LockSteps, Rd, Wr, Drop
  <2> HIDE DEF q
  <2>2. \A j \in 1 .. Len(q) : q[j].op # "drop" => j \in {1, 2}
    BY <2>1 DEF Drop
  <2>3. DroppedAfter(l, q, 1)
    BY <1>3, <2>1 DEF DroppedAfter, Wr, Drop, Rank, Locks
  <2>4. DroppedAfter(m, q, 2)
    BY <2>1 DEF DroppedAfter, Drop
  <2>5. q[1].lock = l /\ q[2].lock = m
    BY <2>1 DEF Rd, Wr
  <2>6. InOrder({}, q)
    BY <2>1, <2>2, <2>3, <2>4, <2>5 DEF InOrder
  <2> QED
    BY <2>6 DEF q
<1>4. InOrder({}, MaintainSlots) /\ InOrder({}, StopService)
  BY <1>3 DEF MaintainSlots, StopService, Locks, Rank
<1>5. InOrder({}, TryAdd)
  <2>1. InOrder({}, <<Wr("inner"), Wr("ipSet"), Drop("ipSet"), Drop("inner")>>)
    BY <1>3 DEF Locks, Rank
  <2> QED
    BY <1>1, <2>1, InOrderThen DEF TryAdd
<1>6. InOrder({}, FullStatus)
  <2> DEFINE body == ReadBriefly("inner") \o ReadBriefly("slots") \o ReadBriefly("inner")
  <2>1. InOrder({}, body)
    BY <1>1, InOrderThen
  <2>2. \A i \in 1 .. Len(body) : Rank[body[i].lock] > Rank["phase"]
    BY DEF ReadBriefly, Rd, Drop, Rank
  <2>3. FullStatus = <<Wr("phase")>> \o body \o <<Drop("phase")>>
    BY DEF FullStatus
  <2> QED
    BY <2>1, <2>2, <2>3, InOrderUnder DEF Locks
<1> QED
  BY <1>2, <1>4, <1>5, <1>6 DEF Operations

\* A step done leaves the rest in order, with the lock it took or without the
\* one it dropped.
LEMMA RestInOrder ==
  ASSUME NEW h \in SUBSET Locks, NEW q, InOrder(h, q), q # <<>>
  PROVE  /\ Head(q) \in LockSteps
         /\ Head(q).op # "drop" =>
              /\ InOrder(h \cup {Head(q).lock}, Tail(q))
              /\ \A l \in h : Rank[l] < Rank[Head(q).lock]
         /\ Head(q).op = "drop" => InOrder(h \ {Head(q).lock}, Tail(q))
<1> DEFINE r == Tail(q)
<1>1. /\ q \in Seq(LockSteps) /\ r \in Seq(LockSteps) /\ Len(q) \in Nat \ {0}
      /\ Len(r) = Len(q) - 1 /\ Head(q) = q[1] /\ q[1] \in LockSteps
      /\ \A i \in 1 .. Len(r) : r[i] = q[i + 1]
  BY DEF InOrder
<1> HIDE DEF r
<1>2. ASSUME NEW l, NEW j \in 1 .. Len(q), DroppedAfter(l, q, j)
      PROVE  DroppedAfter(l, r, j - 1)
  <2>1. PICK d \in j + 1 .. Len(q) :
          /\ q[d] = Drop(l)
          /\ \A i \in j + 1 .. d - 1 : q[i].op # "drop" => Rank[q[i].lock] > Rank[l]
    BY <1>2 DEF DroppedAfter
  <2>2. d - 1 \in (j - 1) + 1 .. Len(r) /\ r[d - 1] = Drop(l)
    BY <1>1, <2>1
  <2>3. ASSUME NEW i \in (j - 1) + 1 .. (d - 1) - 1, r[i].op # "drop"
        PROVE  Rank[r[i].lock] > Rank[l]
    <3>1. r[i] = q[i + 1] /\ i + 1 \in j + 1 .. d - 1
      BY <1>1, <2>1
    <3> QED
      BY <2>1, <2>3, <3>1
  <2> QED
    BY <2>2, <2>3 DEF DroppedAfter
<1>3. \A j \in 1 .. Len(r) : r[j].op # "drop" => DroppedAfter(r[j].lock, r, j)
  <2> SUFFICES ASSUME NEW j \in 1 .. Len(r), r[j].op # "drop"
               PROVE  DroppedAfter(r[j].lock, r, j)
    OBVIOUS
  <2>1. j + 1 \in 1 .. Len(q) /\ r[j] = q[j + 1] /\ (j + 1) - 1 = j
    BY <1>1
  <2>2. DroppedAfter(q[j + 1].lock, q, j + 1)
    BY <2>1 DEF InOrder
  <2> QED
    BY <1>2, <2>1, <2>2
\* A lock held that is not dropped now is dropped later.
<1>4. ASSUME NEW l \in h, q[1] # Drop(l)
      PROVE  /\ DroppedAfter(l, r, 0)
             /\ q[1].op # "drop" => Rank[l] < Rank[q[1].lock]
  <2>1. PICK d \in 1 .. Len(q) :
          /\ q[d] = Drop(l)
          /\ \A i \in 1 .. d - 1 : q[i].op # "drop" => Rank[q[i].lock] > Rank[l]
    BY DEF InOrder, DroppedAfter
  <2>2. d # 1
    BY <1>4, <2>1
  <2>3. DroppedAfter(l, q, 1)
    BY <2>1, <2>2 DEF DroppedAfter
  <2>4. 1 \in 1 .. d - 1 /\ Rank[l] \in Nat /\ Rank[q[1].lock] \in Nat
    BY <1>1, <2>1, <2>2 DEF Rank, Locks, LockSteps
  <2> QED
    BY <1>1, <1>2, <2>1, <2>3, <2>4
<1>5. ASSUME q[1].op # "drop"
      PROVE  /\ InOrder(h \cup {q[1].lock}, r)
             /\ \A l \in h : Rank[l] < Rank[q[1].lock]
  <2>1. \A l \in h : q[1] # Drop(l)
    BY <1>5 DEF Drop
  <2>2. DroppedAfter(q[1].lock, r, 0)
    BY <1>1, <1>2, <1>5 DEF InOrder
  <2> QED
    BY <1>1, <1>3, <1>4, <1>5, <2>1, <2>2 DEF InOrder
<1>6. ASSUME q[1].op = "drop"
      PROVE  InOrder(h \ {q[1].lock}, r)
  <2>1. \A l \in h \ {q[1].lock} : q[1] # Drop(l)
    BY DEF Drop
  <2> QED
    BY <1>1, <1>3, <1>4, <2>1 DEF InOrder
<1> QED
  BY <1>1, <1>5, <1>6 DEF r

\* LockInv holds for ever.
LEMMA LockInvariant == LockSpec => []LockInv
<1>1. LockInit => LockInv
  <2> SUFFICES ASSUME LockInit PROVE LockInv
    OBVIOUS
  <2>1. \A t \in Threads : HeldBy(t) = {} /\ todo[t] = <<>>
    BY DEF LockInit, HeldBy, Locks
  <2>2. InOrder({}, <<>>)
    BY DEF InOrder
  <2> QED
    BY <2>1, <2>2 DEF LockInit, LockInv, InOrder
<1>2. ASSUME LockInv, NEW t \in Threads, Begin(t) PROVE LockInv'
  <2>1. PICK op \in Operations : todo' = [todo EXCEPT ![t] = op]
    BY <1>2 DEF Begin
  <2>2. InOrder({}, op) /\ op \in Seq(LockSteps)
    BY OperationsInOrder DEF InOrder
  <2>3. t \notin parked /\ HeldBy(t) = {}
    <3>1. InOrder(HeldBy(t), <<>>) /\ todo[t] = <<>>
      BY <1>2 DEF Begin, LockInv
    <3> QED
      BY <1>2, <3>1 DEF InOrder, DroppedAfter, LockInv
  <2>4. \A u \in Threads : HeldBy(u)' = HeldBy(u)
    BY <1>2 DEF Begin, HeldBy
  <2> QED
    BY <1>2, <2>1, <2>2, <2>3, <2>4 DEF Begin, LockInv, Wanted
<1>3. ASSUME LockInv, NEW t \in Threads, Acquire(t) PROVE LockInv'
  <2> DEFINE l == Wanted(t).lock
  <2>1. todo[t] # <<>> /\ InOrder(HeldBy(t), todo[t]) /\ HeldBy(t) \in SUBSET Locks
    BY <1>3 DEF Acquire, LockInv, HeldBy
  <2>2. l \in Locks /\ InOrder(HeldBy(t) \cup {l}, Tail(todo[t]))
    BY <1>3, <2>1, RestInOrder DEF Acquire, Wanted, LockSteps
  <2>3. /\ todo' = [todo EXCEPT ![t] = Tail(@)] /\ parked' = parked \ {t}
        /\ \/ readers' = [readers EXCEPT ![l] = @ \cup {t}] /\ writers' = writers
           \/ writers' = [writers EXCEPT ![l] = @ \cup {t}] /\ readers' = readers
    BY <1>3 DEF Acquire
  <2> HIDE DEF l
  <2>4. /\ HeldBy(t)' = HeldBy(t) \cup {l}
        /\ \A u \in Threads \ {t} : HeldBy(u)' = HeldBy(u)
        /\ readers' \in [Locks -> SUBSET Threads]
        /\ writers' \in [Locks -> SUBSET Threads]
    <3>1. /\ readers \in [Locks -> SUBSET Threads]
          /\ writers \in [Locks -> SUBSET Threads]
      BY <1>3 DEF LockInv
    <3>2. /\ readers' \in [Locks -> SUBSET Threads]
          /\ writers' \in [Locks -> SUBSET Threads]
      BY <2>2, <2>3, <3>1
    <3>3. HeldBy(t)' = HeldBy(t) \cup {l}
      BY <2>2, <2>3, <3>1 DEF HeldBy
    <3>4. \A u \in Threads \ {t} : HeldBy(u)' = HeldBy(u)
      BY <2>2, <2>3, <3>1 DEF HeldBy
    <3> QED
      BY <3>2, <3>3, <3>4
  <2>5. Tail(todo[t]) \in Seq(LockSteps)
    BY <2>2 DEF InOrder
  <2>6. \A u \in Threads : InOrder(HeldBy(u)', todo'[u])
    BY <1>3, <2>2, <2>3, <2>4, <2>5 DEF LockInv
  <2>7. \A p \in parked' : todo'[p] # <<>> /\ Wanted(p)'.op = "write"
    BY <1>3, <2>3, <2>5 DEF LockInv, Wanted
  <2> QED
    BY <1>3, <2>3, <2>4, <2>5, <2>6, <2>7 DEF LockInv
<1>4. ASSUME LockInv, NEW t \in Threads, Park(t) PROVE LockInv'
  BY <1>4 DEF Park, LockInv, HeldBy, Wanted
<1>5. ASSUME LockInv, NEW t \in Threads, Unlock(t) PROVE LockInv'
  <2> DEFINE l == Wanted(t).lock
  <2>1. todo[t] # <<>> /\ InOrder(HeldBy(t), todo[t]) /\ HeldBy(t) \in SUBSET Locks
    BY <1>5 DEF Unlock, LockInv, HeldBy
  <2>2. l \in Locks /\ InOrder(HeldBy(t) \ {l}, Tail(todo[t]))
    BY <1>5, <2>1, RestInOrder DEF Unlock, Wanted, LockSteps
  <2>3. /\ todo' = [todo EXCEPT ![t] = Tail(@)] /\ parked' = parked
        /\ readers' = [readers EXCEPT ![l] = @ \ {t}]
        /\ writers' = [writers EXCEPT ![l] = @ \ {t}]
        /\ t \notin parked
    BY <1>5 DEF Unlock, LockInv
  <2> HIDE DEF l
  <2>4. /\ HeldBy(t)' = HeldBy(t) \ {l}
        /\ \A u \in Threads \ {t} : HeldBy(u)' = HeldBy(u)
        /\ readers' \in [Locks -> SUBSET Threads]
        /\ writers' \in [Locks -> SUBSET Threads]
    BY <1>5, <2>2, <2>3 DEF HeldBy, LockInv
  <2>5. Tail(todo[t]) \in Seq(LockSteps)
    BY <2>2 DEF InOrder
  <2>6. \A u \in Threads : InOrder(HeldBy(u)', todo'[u])
    BY <1>5, <2>2, <2>3, <2>4, <2>5 DEF LockInv
  <2>7. \A p \in parked' : todo'[p] # <<>> /\ Wanted(p)'.op = "write"
    BY <1>5, <2>3, <2>5 DEF LockInv, Wanted
  <2> QED
    BY <1>5, <2>3, <2>4, <2>5, <2>6, <2>7 DEF LockInv
<1>6. ASSUME LockInv, UNCHANGED lockVars PROVE LockInv'
  BY <1>6 DEF LockInv, lockVars, HeldBy, Wanted
<1>7. LockInv /\ [LockNext]_lockVars => LockInv'
  BY <1>2, <1>3, <1>4, <1>5, <1>6 DEF LockNext
<1> QED
  BY <1>1, <1>7, PTL DEF LockSpec

\* For any number of threads: a thread of the circle that wants the highest lock
\* waits for no holder in it, who would want a higher one, and for no parked
\* writer, who would wait for such a holder (loadbalancer.rs:276).
THEOREM NoDeadlock == LockSpec => []NoCircularWait
<1>1. LockInv => NoCircularWait
  <2> SUFFICES ASSUME LockInv, NEW s \in (SUBSET Threads) \ {{}},
                      \A t \in s : Holders(t) \cap s # {}
               PROVE  FALSE
    BY DEF NoCircularWait
  <2> DEFINE R(t) == Rank[Wanted(t).lock]
  <2>1. ASSUME NEW t \in s
        PROVE  /\ t \in Threads /\ todo[t] # <<>> /\ Wanted(t).op # "drop"
               /\ Wanted(t) \in LockSteps /\ R(t) \in 0 .. 3
               /\ \A l \in HeldBy(t) : Rank[l] < R(t)
    <3>1. t \in Threads /\ todo[t] # <<>> /\ Wanted(t).op # "drop"
      BY <2>1 DEF Holders
    <3>2. InOrder(HeldBy(t), todo[t]) /\ HeldBy(t) \in SUBSET Locks
      BY <3>1 DEF LockInv, HeldBy
    <3>3. Wanted(t) \in LockSteps /\ \A l \in HeldBy(t) : Rank[l] < R(t)
      BY <3>1, <3>2, RestInOrder DEF Wanted
    <3> QED
      BY <3>1, <3>3 DEF LockSteps, Locks, Rank
  <2>2. PICK t \in s : \A u \in s : R(u) <= R(t)
    <3> HIDE DEF R
    <3>1. \A t \in s : R(t) \in 0 .. 3
      BY <2>1
    <3>2. CASE \E t \in s : R(t) = 3
      BY <3>1, <3>2
    <3>3. CASE (\A t \in s : R(t) < 3) /\ \E t \in s : R(t) = 2
      BY <3>1, <3>3
    <3>4. CASE (\A t \in s : R(t) < 2) /\ \E t \in s : R(t) = 1
      BY <3>1, <3>4
    <3>5. CASE \A t \in s : R(t) < 1
      <4>1. PICK t \in s : TRUE
        OBVIOUS
      <4>2. \A u \in s : R(u) = 0
        BY <3>1, <3>5
      <4> QED
        BY <4>1, <4>2
    <3> QED
      BY <3>1, <3>2, <3>3, <3>4, <3>5
  <2>3. ASSUME NEW u \in s, NEW v \in s, R(u) = R(t),
               v \in readers[Wanted(u).lock] \cup writers[Wanted(u).lock]
        PROVE  FALSE
    <3>1. Wanted(u).lock \in HeldBy(v)
      BY <2>1, <2>3 DEF HeldBy, LockSteps
    <3> QED
      BY <2>1, <2>2, <2>3, <3>1
  <2>4. PICK u \in s : u \in parked /\ Wanted(u).lock = Wanted(t).lock
    BY <2>1, <2>3 DEF Holders
  <2>5. todo[u] # <<>> /\ Wanted(u).op = "write"
    BY <2>4 DEF LockInv
  <2>6. PICK v \in s : v \in readers[Wanted(u).lock] \cup writers[Wanted(u).lock]
    BY <2>5 DEF Holders
  <2> QED
    BY <2>3, <2>4, <2>6
<1> QED
  BY <1>1, LockInvariant, PTL

(***************************************************************************)
(* ApiStream.  Attempts are numbered as they begin, and what arrives is of *)
(* an attempt that has begun.                                              *)
(***************************************************************************)

\* After Dispose nothing begins any more, and nothing is of the last number.
ConnectionInv ==
  /\ OneConnection
  /\ disposed => ~timer
  /\ timer \in BOOLEAN /\ disposed \in BOOLEAN

\* No attempt is older than its number, and none that ended is under way.
Numbered ==
  /\ gen \in Nat
  /\ sending \subseteq 1 .. gen /\ listening \subseteq 1 .. gen
  /\ \A l \in transit : l.of \in 1 .. gen
  /\ disposed => \A l \in transit : l.of # gen

Request == [act : {"none", "start", "stop"}, reply : {"none", "ok", "error"},
            alone : BOOLEAN]

\* An action that no other overlaps has the service for itself: when its stop has
\* been answered, the service stays stopped until something is asked again.
Undisturbed ==
  /\ running \in BOOLEAN /\ stopShown \in BOOLEAN
  /\ requests \in [Panels -> Request]
  /\ \A p \in Panels :
       requests[p].alone =>
         /\ \A o \in Panels \ {p} : requests[o] = Idle
         /\ requests[p].act = "stop" /\ requests[p].reply = "ok" => ~running
  /\ stopShown => ~running /\ \A p \in Panels : requests[p] = Idle

\* Every line of the attempt that counts was sent after the stop.
StoppedLines ==
  stopShown => /\ status # "running"
               /\ \A l \in transit : l.of = gen => l.says # "running"

StreamInv == ConnectionInv /\ Numbered /\ Undisturbed /\ StoppedLines

\* A new attempt, from the timer or after a restart.
LEMMA StartStep ==
  ASSUME StreamInv, ~disposed, NEW old, StartStreaming(client, old),
         timer' \in BOOLEAN, UNCHANGED <<running, status, disposed, actionVars>>
  PROVE  StreamInv'
<1>1. ConnectionInv'
  BY DEF StreamInv, ConnectionInv, OneConnection, StartStreaming, ClosedClient
<1>2. Numbered'
  <2>1. /\ gen' = gen + 1 /\ sending' = sending \cup {gen + 1}
        /\ listening' \subseteq listening /\ transit' \subseteq transit
        /\ disposed' = disposed
    BY DEF StartStreaming
  <2>2. /\ gen' \in Nat /\ sending' \subseteq 1 .. gen' /\ listening' \subseteq 1 .. gen'
        /\ \A l \in transit' : l.of \in 1 .. gen'
    BY <2>1 DEF StreamInv, Numbered
  <2>3. ~disposed'
    BY <2>1
  <2> QED
    BY <2>2, <2>3 DEF Numbered
<1>3. Undisturbed'
  BY DEF StreamInv, Undisturbed, actionVars, Idle, Request
<1>4. StoppedLines'
  BY DEF StreamInv, Numbered, StoppedLines, StartStreaming, actionVars
<1> QED
  BY <1>1, <1>2, <1>3, <1>4 DEF StreamInv

\* What an attempt does, or does not do any more, before it is replaced.
LEMMA AttemptStep ==
  ASSUME StreamInv, NEW g \in Generations,
         SendAnswered(g) \/ SendFails(g) \/ SendRefused(g) \/ Push(g) \/ StreamEnds(g)
  PROVE  StreamInv'
<1>1. UNCHANGED <<gen, client, disposed, running, actionVars>>
  BY DEF SendAnswered, SendFails, SendRefused, Push, StreamEnds
<1>2. opened' \subseteq opened
  BY DEF SendAnswered, SendFails, SendRefused, Push, StreamEnds
<1>3. /\ timer' = timer \/ (timer' = TRUE /\ ~disposed)
      /\ status' \in {status, "null"}
  BY DEF SendAnswered, SendFails, SendRefused, Push, StreamEnds, Reconnect
<1>4. /\ sending' \subseteq sending /\ listening' \subseteq listening \cup sending
  BY DEF SendAnswered, SendFails, SendRefused, Push, StreamEnds
<1>5. \A l \in transit' :
        l \in transit \/ (g \in listening \cap opened /\ l = [of |-> g, says |-> Shown])
  BY DEF SendAnswered, SendFails, SendRefused, Push, StreamEnds
<1>6. ConnectionInv'
  <2>1. opened' \subseteq {client'} /\ (disposed' => opened' = {})
    BY <1>1, <1>2 DEF StreamInv, ConnectionInv, OneConnection
  <2>2. timer' \in BOOLEAN /\ disposed' \in BOOLEAN /\ (disposed' => ~timer')
    <3>1. CASE timer' = timer
      BY <1>1, <3>1, Zenon DEF StreamInv, ConnectionInv
    <3>2. CASE timer' = TRUE /\ ~disposed
      BY <1>1, <3>2, Zenon DEF StreamInv, ConnectionInv
    <3> QED
      BY <1>3, <3>1, <3>2
  <2> QED
    BY <2>1, <2>2 DEF ConnectionInv, OneConnection
<1>7. Numbered'
  <2>1. /\ sending' \subseteq 1 .. gen /\ listening' \subseteq 1 .. gen /\ gen \in Nat
        /\ \A l \in transit' : l.of \in 1 .. gen
    <3>1. /\ sending \subseteq 1 .. gen /\ listening \subseteq 1 .. gen /\ gen \in Nat
          /\ \A l \in transit : l.of \in 1 .. gen
      BY DEF StreamInv, Numbered
    <3>2. ASSUME NEW l \in transit' PROVE l.of \in 1 .. gen
      <4>1. CASE l \in transit
        BY <3>1, <4>1
      <4>2. CASE g \in listening /\ l = [of |-> g, says |-> Shown]
        BY <3>1, <4>2
      <4> QED
        BY <1>5, <3>2, <4>1, <4>2
    <3> QED
      BY <1>4, <3>1, <3>2
  <2>2. ASSUME disposed PROVE \A l \in transit' : l.of # gen
    BY <1>5, <2>2 DEF StreamInv, ConnectionInv, OneConnection, Numbered
  <2> QED
    BY <1>1, <2>1, <2>2 DEF Numbered
<1>8. Undisturbed'
  BY <1>1 DEF StreamInv, Undisturbed, actionVars, Idle, Request
<1>9. StoppedLines'
  BY <1>1, <1>3, <1>5 DEF StreamInv, StoppedLines, Undisturbed, actionVars, Shown
<1> QED
  BY <1>6, <1>7, <1>8, <1>9 DEF StreamInv

\* Starts and stops, and what the panels make of the answers.
LEMMA PanelStep ==
  ASSUME StreamInv, NEW p \in Panels,
         \/ Handle(p) \/ HandleFails(p) \/ Answered(p)
         \/ \E act \in {"start", "stop"} : Ask(p, act)
  PROVE  StreamInv'
<1>1. CASE \E act \in {"start", "stop"} : Ask(p, act)
  <2>1. PICK act \in {"start", "stop"} : Ask(p, act)
    BY <1>1
  <2>2. UNCHANGED <<running, attemptVars, disposed, status>> /\ stopShown' = FALSE
    BY <2>1 DEF Ask
  <2>3. /\ requests \in [Panels -> Request] /\ requests[p] = Idle
        /\ running \in BOOLEAN /\ running' = running
        /\ requests' = [q \in Panels |->
              IF q = p THEN [act |-> act, reply |-> "none",
                             alone |-> \A o \in Panels \ {p} : requests[o] = Idle]
              ELSE [requests[q] EXCEPT !.alone = FALSE]]
    BY <2>1, <2>2 DEF StreamInv, Undisturbed, Ask
  <2>4. \A q \in Panels \ {p} :
          requests'[q] \in Request /\ ~requests'[q].alone
          /\ (requests[q] = Idle => requests'[q] = Idle)
    <3> TAKE q \in Panels \ {p}
    <3>1. requests[q] \in Request /\ requests'[q] = [requests[q] EXCEPT !.alone = FALSE]
      BY <2>3
    <3>2. requests'[q] \in Request /\ requests'[q].alone = FALSE
      BY <3>1 DEF Request
    <3>3. ASSUME requests[q] = Idle PROVE requests'[q] = Idle
      <4>1. requests'[q].act = "none" /\ requests'[q].reply = "none"
        BY <3>1, <3>3 DEF Idle, Request
      <4> QED
        BY <3>2, <4>1 DEF Idle, Request
    <3> QED
      BY <3>2, <3>3
  <2>5. /\ requests'[p] \in Request /\ requests'[p].act = act
        /\ requests'[p].reply = "none"
        /\ requests'[p].alone <=> \A o \in Panels \ {p} : requests[o] = Idle
    <3> DEFINE alone == \A o \in Panels \ {p} : requests[o] = Idle
    <3>1. requests'[p] = [act |-> act, reply |-> "none", alone |-> alone]
      BY <2>3
    <3>2. alone \in BOOLEAN
      OBVIOUS
    <3> HIDE DEF alone
    <3>3. requests'[p] \in Request /\ requests'[p].alone = alone
      BY <3>1, <3>2 DEF Request
    <3>4. requests'[p].act = act /\ requests'[p].reply = "none"
      BY <3>1
    <3> QED
      BY <3>2, <3>3, <3>4 DEF alone
  <2>6. requests' \in [Panels -> Request]
    BY <2>3, <2>4, <2>5
  <2>7. Undisturbed'
    BY <2>2, <2>3, <2>4, <2>5, <2>6 DEF Undisturbed
  <2> QED
    BY <2>2, <2>7
       DEF StreamInv, ConnectionInv, OneConnection, Numbered, StoppedLines, attemptVars
<1>2. CASE Handle(p) \/ HandleFails(p)
  <2>1. UNCHANGED <<attemptVars, disposed, status, stopShown>>
    BY <1>2 DEF Handle, HandleFails
  <2>2. Undisturbed'
    <3>1. requests[p] # Idle /\ p \in Panels
      BY <1>2 DEF Handle, HandleFails, Idle
    <3>2. PICK reply \in {"ok", "error"} :
            /\ requests' = [requests EXCEPT ![p].reply = reply]
            /\ running' \in BOOLEAN
            /\ reply = "ok" /\ requests[p].act = "stop" => running' = FALSE
      <4>1. CASE Handle(p)
        <5>1. CASE running = (requests[p].act = "stop")
          <6>1. /\ requests' = [requests EXCEPT ![p].reply = "ok"]
                /\ running' = (requests[p].act = "start")
            BY <4>1, <5>1 DEF Handle
          <6>2. running' \in BOOLEAN /\ (requests[p].act = "stop" => running' = FALSE)
            BY <6>1
          <6> QED
            BY <6>1, <6>2
        <5>2. CASE ~(running = (requests[p].act = "stop"))
          <6>1. requests' = [requests EXCEPT ![p].reply = "error"] /\ running' = running
            BY <4>1, <5>2 DEF Handle
          <6> QED
            BY <6>1 DEF StreamInv, Undisturbed
        <5> QED
          BY <5>1, <5>2
      <4>2. CASE HandleFails(p)
        BY <4>2 DEF HandleFails, StreamInv, Undisturbed
      <4> QED
        BY <1>2, <4>1, <4>2
    <3>3. /\ requests \in [Panels -> Request] /\ stopShown = FALSE
          /\ \A q \in Panels : requests[q].alone => \A o \in Panels \ {q} : requests[o] = Idle
      BY <3>1 DEF StreamInv, Undisturbed
    <3>4. requests' \in [Panels -> Request]
      BY <3>2, <3>3 DEF Request
    <3>5. \A q \in Panels \ {p} : requests'[q] = requests[q] /\ ~requests[q].alone
      BY <3>1, <3>2, <3>3
    <3>6. /\ requests'[p].alone = requests[p].alone /\ requests'[p].act = requests[p].act
          /\ requests'[p].reply = reply
      BY <3>2, <3>3 DEF Request
    <3>7. ASSUME NEW q \in Panels, requests'[q].alone
          PROVE  /\ \A o \in Panels \ {q} : requests'[o] = Idle
                 /\ requests'[q].act = "stop" /\ requests'[q].reply = "ok" => ~running'
      <4>1. q = p
        BY <3>5, <3>7
      <4>2. \A o \in Panels \ {q} : requests'[o] = Idle
        BY <3>3, <3>5, <3>6, <3>7, <4>1
      <4> QED
        BY <3>2, <3>6, <4>1, <4>2
    <3>8. stopShown' = FALSE
      BY <2>1, <3>3
    <3> QED
      BY <3>2, <3>4, <3>7, <3>8 DEF Undisturbed
  <2> QED
    BY <2>1, <2>2
       DEF StreamInv, ConnectionInv, OneConnection, Numbered, StoppedLines, attemptVars
<1>3. CASE Answered(p)
  <2>1. /\ requests[p].reply # "none" /\ requests' = [requests EXCEPT ![p] = Idle]
        /\ UNCHANGED <<running, disposed>>
    BY <1>3 DEF Answered
  <2>2. CASE requests[p].reply = "error"
    <3>1. UNCHANGED <<attemptVars, status, stopShown>>
      BY <1>3, <2>2 DEF Answered
    <3>2. Undisturbed'
      <4>1. requests[p] # Idle
        BY <2>1 DEF Idle
      <4>2. stopShown = FALSE /\ stopShown' = FALSE
        BY <3>1, <4>1 DEF StreamInv, Undisturbed
      <4> QED
        BY <2>1, <3>1, <4>2 DEF StreamInv, Undisturbed, Idle, Request
    <3> QED
      BY <2>1, <3>1, <3>2
         DEF StreamInv, ConnectionInv, OneConnection, Numbered, StoppedLines, attemptVars
  <2>3. CASE requests[p].reply # "error"
    <3>1. /\ status' = IF requests[p].act = "stop" THEN "stopped" ELSE status
          /\ stopShown' = (requests[p].act = "stop" /\ requests[p].alone)
          /\ RestartBegins
      BY <1>3, <2>3 DEF Answered
    <3>2. /\ UNCHANGED <<client, opened, sending>>
          /\ timer' \in {timer, FALSE} /\ transit' \subseteq transit
          /\ listening' \subseteq listening
          /\ gen' = IF disposed THEN gen ELSE gen + 1
      BY <3>1 DEF RestartBegins, attemptVars
    <3>3. ConnectionInv'
      <4>1. timer' \in BOOLEAN /\ disposed' \in BOOLEAN /\ (disposed' => ~timer')
        <5>1. CASE timer' = timer
          BY <2>1, <5>1, Zenon DEF StreamInv, ConnectionInv
        <5>2. CASE timer' = FALSE
          BY <2>1, <5>2, Zenon DEF StreamInv, ConnectionInv
        <5> QED
          BY <3>2, <5>1, <5>2
      <4> QED
        BY <2>1, <3>2, <4>1 DEF StreamInv, ConnectionInv, OneConnection
    <3>4. Numbered'
      BY <2>1, <3>2 DEF StreamInv, Numbered
    <3>5. /\ stopShown' \in BOOLEAN
          /\ stopShown' => requests[p].alone /\ requests[p].act = "stop"
          /\ requests[p].reply = "ok"
      <4>1. requests[p] \in Request
        BY DEF StreamInv, Undisturbed
      <4>2. requests[p].alone \in BOOLEAN /\ requests[p].reply = "ok"
        BY <2>1, <2>3, <4>1 DEF Request
      <4> QED
        BY <3>1, <4>2, Zenon
    <3>6. Undisturbed'
      BY <2>1, <3>5 DEF StreamInv, Undisturbed, Idle, Request
    <3>7. StoppedLines'
      <4> SUFFICES ASSUME stopShown'
                   PROVE  /\ status' # "running"
                          /\ \A l \in transit' : l.of # gen'
        BY DEF StoppedLines
      <4>1. status' = "stopped"
        BY <3>1
      <4>2. ASSUME NEW l \in transit' PROVE l.of # gen'
        <5>1. l \in transit /\ l.of \in 1 .. gen /\ gen \in Nat
          BY <3>2, <4>2 DEF StreamInv, Numbered
        <5>2. disposed => l.of # gen
          BY <5>1 DEF StreamInv, Numbered
        <5> QED
          BY <3>2, <5>1, <5>2
      <4> QED
        BY <4>1, <4>2
    <3> QED
      BY <3>3, <3>4, <3>6, <3>7 DEF StreamInv
  <2> QED
    BY <2>2, <2>3
<1> QED
  BY <1>1, <1>2, <1>3

\* StreamInv holds for ever.
LEMMA StreamInvariant == StreamSpec => []StreamInv
<1>1. StreamInit => StreamInv
  <2> SUFFICES ASSUME StreamInit PROVE StreamInv
    OBVIOUS
  <2>1. /\ gen = 1 /\ client = 1 /\ sending = {1} /\ listening = {} /\ opened = {1}
        /\ transit = {} /\ timer = FALSE /\ disposed = FALSE /\ stopShown = FALSE
        /\ running \in BOOLEAN /\ requests = [p \in Panels |-> Idle]
    BY DEF StreamInit
  <2>2. ConnectionInv
    BY <2>1 DEF ConnectionInv, OneConnection
  <2>3. Numbered
    BY <2>1 DEF Numbered
  <2>4. Undisturbed
    BY <2>1 DEF Undisturbed, Idle, Request
  <2>5. StoppedLines
    BY <2>1 DEF StoppedLines
  <2> QED
    BY <2>2, <2>3, <2>4, <2>5 DEF StreamInv
<1>2. ASSUME StreamInv, NEW l \in transit, Line(l) PROVE StreamInv'
  <2>1. /\ transit' \subseteq transit /\ status' = IF l.of = gen THEN l.says ELSE status
        /\ UNCHANGED <<running, gen, client, sending, listening, opened, timer, disposed,
                       actionVars>>
    BY <1>2 DEF Line, LineCounts
  <2> QED
    BY <1>2, <2>1 DEF StreamInv, ConnectionInv, OneConnection, Numbered, Undisturbed,
                      StoppedLines, actionVars
<1>3. ASSUME StreamInv, TimerFires PROVE StreamInv'
  BY <1>3, StartStep DEF TimerFires, StreamInv, ConnectionInv
<1>4. ASSUME StreamInv, RestartResumes PROVE StreamInv'
  <2>1. UNCHANGED <<running, status, disposed, actionVars>>
    BY <1>4 DEF RestartResumes
  <2>2. CASE disposed
    <3>1. opened' = opened \ {client} /\ UNCHANGED <<gen, sending, listening, transit, timer>>
      BY <1>4, <2>2 DEF RestartResumes
    <3> QED
      BY <1>4, <2>1, <2>2, <3>1 DEF StreamInv, ConnectionInv, OneConnection, Numbered,
         Undisturbed, StoppedLines, actionVars
  <2>3. CASE ~disposed
    <3>1. StartStreaming(client, 0) /\ timer' \in BOOLEAN
      BY <1>4, <2>3 DEF RestartResumes, StreamInv, ConnectionInv
    <3> QED
      BY <1>4, <2>1, <2>3, <3>1, StartStep
  <2> QED
    BY <2>2, <2>3
<1>5. ASSUME StreamInv, ServiceFails PROVE StreamInv'
  BY <1>5 DEF ServiceFails, StreamInv, ConnectionInv, OneConnection, Numbered,
     Undisturbed, StoppedLines, actionVars, attemptVars
<1>6. ASSUME StreamInv, Dispose PROVE StreamInv'
  <2>1. /\ disposed' = TRUE /\ timer' = FALSE /\ gen' = gen + 1
        /\ listening' \subseteq listening /\ transit' \subseteq transit
        /\ opened' = opened \ {client}
        /\ UNCHANGED <<running, client, sending, status, actionVars>>
    BY <1>6 DEF Dispose
  <2>2. ConnectionInv'
    BY <1>6, <2>1 DEF StreamInv, ConnectionInv, OneConnection
  <2>3. Numbered'
    BY <1>6, <2>1 DEF StreamInv, Numbered
  <2>4. Undisturbed'
    BY <1>6, <2>1 DEF StreamInv, Undisturbed, actionVars, Idle, Request
  <2>5. StoppedLines'
    BY <1>6, <2>1 DEF StreamInv, Numbered, StoppedLines, actionVars
  <2> QED
    BY <2>2, <2>3, <2>4, <2>5 DEF StreamInv
<1>7. ASSUME StreamInv, UNCHANGED streamVars PROVE StreamInv'
  BY <1>7 DEF streamVars, StreamInv, ConnectionInv, OneConnection, Numbered,
     Undisturbed, StoppedLines, actionVars, attemptVars
<1>8. StreamInv /\ [StreamNext]_streamVars => StreamInv'
  BY <1>2, <1>3, <1>4, <1>5, <1>6, <1>7, AttemptStep, PanelStep DEF StreamNext, StreamRuns
<1> QED
  BY <1>1, <1>8, PTL DEF StreamSpec

\* For any number of panels, starts, stops and failures: the web client never has
\* two connections open, nor one after it was disposed (api_service.dart:62-76,
\* 140-158).
THEOREM AtMostOneConnection == StreamSpec => []OneConnection
<1>1. StreamInv => OneConnection
  BY DEF StreamInv, ConnectionInv
<1> QED
  BY <1>1, StreamInvariant, PTL

\* After a successful stop no line of a replaced stream shows a running service
\* (api_service.dart:91, 150-152, 283-285).
THEOREM StopStaysShown == StreamSpec => []StopShown
<1>1. StreamInv => StopShown
  BY DEF StreamInv, StoppedLines, StopShown
<1> QED
  BY <1>1, StreamInvariant, PTL

\* There is an attempt; each is being opened or is open, never both; one that counts
\* has its client, and what is on its way is of an open one.
LiveInv ==
  /\ gen > 0 /\ client \in 0 .. gen /\ sub \in 0 .. gen
  /\ sending \cap listening = {}
  /\ ~disposed /\ gen \in sending \cup listening => gen \in opened
  /\ \A l \in transit : l.of \in listening /\ l.says \in {"running", "stopped"}
  /\ status \in {"null", "running", "stopped"}
  /\ restarts \in Nat

Busy == {p \in Panels : requests[p] # Idle}
Armed == IF timer THEN 1 ELSE 0
Gone == IF disposed THEN 1 ELSE 0

\* Every attempt is due to the start, an action (two, the second when its restart
\* resumes), a failure or the end: the counter is bounded by what was asked for.
CountInv ==
  /\ asked \in 0 .. MaxActions /\ faults \in 0 .. MaxFaults
  /\ IsFiniteSet(Busy)
  /\ gen + restarts + Armed + 2 * Cardinality(Busy) <= 1 + 2 * asked + faults + Gone

\* Every step keeps LiveInv.
LEMMA LiveStep ==
  ASSUME StreamInv, LiveInv, [StreamNext]_streamVars
  PROVE  LiveInv'
<1> USE DEF LiveInv, actionVars, attemptVars
<1>1. /\ gen \in Nat /\ sending \subseteq 1 .. gen /\ listening \subseteq 1 .. gen
      /\ running \in BOOLEAN
  BY DEF StreamInv, Numbered, Undisturbed
<1>2. ASSUME NEW g \in Generations, SendAnswered(g) PROVE LiveInv'
  <2>1. CASE g = gen
    <3>1. /\ sending' = sending \ {g} /\ sub' = g /\ listening' = listening \cup {g}
          /\ g \in sending
          /\ UNCHANGED <<gen, opened, client, transit, restarts, status, disposed>>
      BY <1>2, <2>1 DEF SendAnswered
    <3>2. sub' \in 0 .. gen' /\ client' \in 0 .. gen' /\ gen' > 0
      BY <1>1, <2>1, <3>1
    <3>3. sending' \cap listening' = {}
      BY <3>1
    <3>4. ~disposed' /\ gen' \in sending' \cup listening' => gen' \in opened'
      BY <2>1, <3>1
    <3>5. \A l \in transit' : l.of \in listening' /\ l.says \in {"running", "stopped"}
      BY <3>1
    <3> QED
      BY <3>1, <3>2, <3>3, <3>4, <3>5
  <2>2. CASE g # gen
    <3>1. /\ opened' = opened \ {g} /\ sending' = sending \ {g} /\ gen' = gen
          /\ UNCHANGED <<sub, listening, client, transit, restarts, status, disposed>>
      BY <1>2, <2>2 DEF SendAnswered
    <3> QED
      BY <1>1, <2>2, <3>1
  <2> QED
    BY <2>1, <2>2
<1>3. ASSUME NEW g \in Generations, StreamEnds(g) PROVE LiveInv'
  BY <1>1, <1>3 DEF StreamEnds, Reconnect
<1>4. ASSUME NEW l \in transit, Line(l) PROVE LiveInv'
  BY <1>1, <1>4 DEF Line
<1>5. ASSUME NEW old, StartStreaming(client, old), UNCHANGED <<status, disposed>>,
             restarts' \in Nat
      PROVE  LiveInv'
  <2>1. /\ gen' = gen + 1 /\ client' = gen + 1 /\ sub' = 0
        /\ sending' = sending \cup {gen + 1} /\ listening' = listening \ {old}
        /\ gen + 1 \in opened' /\ transit' = {l \in transit : l.of # old}
    BY <1>5 DEF StartStreaming
  <2>2. gen' > 0 /\ client' \in 0 .. gen' /\ sub' \in 0 .. gen'
    BY <1>1, <2>1
  <2>3. gen + 1 \notin listening
    BY <1>1
  <2>4. sending' \cap listening' = {}
    BY <2>1, <2>3
  <2>5. \A l \in transit' : l.of \in listening' /\ l.says \in {"running", "stopped"}
    BY <2>1
  <2>6. gen' \in opened'
    BY <2>1
  <2> QED
    BY <1>5, <2>2, <2>4, <2>5, <2>6
<1>6. ASSUME TimerFires PROVE LiveInv'
  BY <1>5, <1>6 DEF TimerFires
<1>7. ASSUME RestartResumes PROVE LiveInv'
  <2>1. restarts' \in Nat /\ UNCHANGED <<status, disposed>>
    BY <1>7 DEF RestartResumes
  <2>2. CASE disposed
    <3>1. client' = 0 /\ sub' = 0 /\ UNCHANGED <<gen, sending, listening, transit>>
      BY <1>7, <2>2 DEF RestartResumes
    <3> QED
      BY <1>1, <2>1, <2>2, <3>1
  <2>3. CASE ~disposed
    BY <1>5, <1>7, <2>1, <2>3 DEF RestartResumes
  <2> QED
    BY <2>2, <2>3
<1>8. ASSUME NEW p \in Panels, Handle(p) \/ HandleFails(p) PROVE LiveInv'
  BY <1>8 DEF Handle, HandleFails
<1>9. ASSUME NEW p \in Panels, Answered(p) PROVE LiveInv'
  <2>1. /\ status' \in {status, "stopped"} /\ disposed' = disposed
        /\ \/ UNCHANGED <<gen, client, sub, sending, listening, opened, transit, restarts>>
           \/ /\ gen' = gen + 1 /\ restarts' = restarts + 1
              /\ listening' = listening \ {sub} /\ transit' = {l \in transit : l.of # sub}
              /\ UNCHANGED <<client, sub, sending, opened>>
    BY <1>9 DEF Answered, RestartBegins
  <2>2. CASE UNCHANGED <<gen, client, sub, sending, listening, opened, transit, restarts>>
    BY <2>1, <2>2
  <2>3. ASSUME gen' = gen + 1, restarts' = restarts + 1, listening' = listening \ {sub},
               transit' = {l \in transit : l.of # sub},
               UNCHANGED <<client, sub, sending, opened>>
        PROVE  LiveInv'
    <3>1. gen' \notin sending' \cup listening' /\ gen' \in Nat
      BY <1>1, <2>3
    <3> QED
      BY <1>1, <2>1, <2>3, <3>1
  <2> QED
    BY <2>1, <2>2, <2>3
<1>10. ASSUME NEW g \in Generations, SendFails(g) \/ SendRefused(g) PROVE LiveInv'
  BY <1>1, <1>10 DEF SendFails, SendRefused, Reconnect
<1>11. ASSUME NEW g \in Generations, Push(g) PROVE LiveInv'
  BY <1>1, <1>11 DEF Push, Shown
<1>12. ASSUME NEW p \in Panels, NEW act \in {"start", "stop"}, Ask(p, act) PROVE LiveInv'
  BY <1>12 DEF Ask
<1>13. ASSUME ServiceFails PROVE LiveInv'
  BY <1>13 DEF ServiceFails
<1>14. ASSUME Dispose PROVE LiveInv'
  BY <1>1, <1>14 DEF Dispose
<1>15. CASE UNCHANGED streamVars
  BY <1>15 DEF streamVars
<1> QED
  BY <1>2, <1>3, <1>4, <1>6, <1>7, <1>8, <1>9, <1>10, <1>11, <1>12, <1>13, <1>14, <1>15
     DEF StreamNext, StreamRuns

\* Every step keeps CountInv: only a failure arms the timer, for the attempt that
\* counts has its client.
LEMMA CountStep ==
  ASSUME StreamInv, LiveInv, CountInv, [StreamNext]_streamVars
  PROVE  CountInv'
<1> DEFINE busy == Cardinality(Busy)
<1>0. /\ gen \in Nat /\ restarts \in Nat /\ asked \in Nat /\ faults \in Nat /\ busy \in Nat
      /\ Armed \in Nat /\ Gone \in Nat /\ Armed' \in Nat /\ Gone' \in Nat
      /\ gen + restarts + Armed + 2 * busy <= 1 + 2 * asked + faults + Gone
  BY FS_CardinalityType DEF StreamInv, Numbered, LiveInv, CountInv, Armed, Gone
<1>1. /\ timer \in BOOLEAN /\ disposed \in BOOLEAN /\ (disposed => ~timer)
      /\ requests \in [Panels -> Request]
      /\ MaxActions \in Nat /\ MaxFaults \in Nat
      /\ asked \in 0 .. MaxActions /\ faults \in 0 .. MaxFaults
  BY StreamAssumption DEF StreamInv, ConnectionInv, Undisturbed, CountInv
\* What neither begins nor ends an action.
<1>2. ASSUME UNCHANGED <<requests, asked>>,
             faults' \in {faults, faults + 1}, faults' \in 0 .. MaxFaults,
             gen' + restarts' + Armed' + faults + Gone
               <= gen + restarts + Armed + faults' + Gone',
             gen' \in Nat, restarts' \in Nat
      PROVE  CountInv'
  <2>1. Busy' = Busy
    BY <1>2 DEF Busy
  <2>2. IsFiniteSet(Busy') /\ Cardinality(Busy') = busy /\ asked' = asked
    BY <1>2, <2>1 DEF CountInv
  <2> DEFINE due == gen + restarts + Armed
             dueN == gen' + restarts' + Armed'
             failed == faults
             failedN == faults'
             gone == Gone
             goneN == Gone'
             spent == 1 + 2 * asked
             held == 2 * busy
  <2>3. /\ due \in Nat /\ dueN \in Nat /\ failed \in Nat /\ failedN \in Nat
        /\ gone \in Nat /\ goneN \in Nat /\ spent \in Nat /\ held \in Nat
    <3>1. \A x, y, z \in Nat : x + y + z \in Nat
      OBVIOUS
    <3>2. due \in Nat /\ dueN \in Nat
      BY <1>0, <1>2, <3>1, Zenon
    <3>3. faults' \in Nat
      BY <1>0, <1>2
    <3>4. spent \in Nat /\ held \in Nat
      BY <1>0
    <3> QED
      BY <1>0, <3>2, <3>3, <3>4, Zenon
  <2>4. due + held <= spent + failed + gone /\ dueN + failed + gone <= due + failedN + goneN
    BY <1>0, <1>2
  <2>5. dueN + held <= spent + failedN + goneN
    <3> HIDE DEF due, dueN, failed, failedN, gone, goneN, spent, held
    <3> QED
      BY <2>3, <2>4
  <2> QED
    BY <1>1, <1>2, <2>2, <2>5 DEF CountInv
<1>3. ASSUME NEW g \in Generations, SendAnswered(g) \/ Push(g) PROVE CountInv'
  BY <1>0, <1>1, <1>2, <1>3 DEF SendAnswered, Push, Armed, Gone, actionVars, CountInv
<1>4. ASSUME NEW g \in Generations, SendFails(g) \/ SendRefused(g) \/ StreamEnds(g)
      PROVE  CountInv'
  <2>1. /\ UNCHANGED <<requests, asked, gen, restarts, disposed>>
        /\ timer' = timer \/ (timer' = TRUE /\ g = gen /\ ~disposed)
        /\ g \in sending \cup listening
        /\ \/ faults < MaxFaults /\ faults' = faults + 1
           \/ faults' = faults /\ g \notin opened
    BY <1>4 DEF SendFails, SendRefused, StreamEnds, Reconnect, Current, Fault, actionVars
  <2>2. timer' # timer => faults' = faults + 1
    BY <2>1 DEF LiveInv
  <2>3. faults' \in {faults, faults + 1} /\ faults' \in 0 .. MaxFaults
    BY <1>1, <2>1 DEF CountInv
  <2>4. Armed' + faults <= Armed + faults' /\ Gone' = Gone
    <3>1. Gone' = Gone /\ faults' \in Nat /\ faults <= faults'
      BY <1>0, <2>1, <2>3 DEF Gone
    <3>2. CASE timer' = timer
      <4>1. Armed' = Armed
        BY <3>2 DEF Armed
      <4>2. \A x \in Nat, y, z \in Nat : y <= z => x + y <= x + z
        OBVIOUS
      <4> QED
        BY <1>0, <3>1, <4>1, <4>2, Zenon
    <3>3. CASE timer' # timer
      <4>1. Armed' = 1 /\ Armed = 0
        BY <1>1, <2>1, <3>3 DEF Armed
      <4> QED
        BY <1>0, <2>2, <3>1, <3>3, <4>1
    <3> QED
      BY <3>2, <3>3
  <2>5. gen' + restarts' + Armed' + faults + Gone <= gen + restarts + Armed + faults' + Gone'
    <3> DEFINE due == gen + restarts
               armed == Armed
               armedN == Armed'
               failed == faults
               failedN == faults'
               gone == Gone
    <3>1. /\ due \in Nat /\ armed \in Nat /\ armedN \in Nat /\ failed \in Nat
          /\ failedN \in Nat /\ gone \in Nat /\ armedN + failed <= armed + failedN
      <4>1. \A x, y \in Nat : x + y \in Nat
        OBVIOUS
      <4>2. faults' \in Nat
        BY <1>0, <2>3
      <4> QED
        BY <1>0, <2>4, <4>1, <4>2, Zenon
    <3>2. due + armedN + failed + gone <= due + armed + failedN + gone
      <4> HIDE DEF due, armed, armedN, failed, failedN, gone
      <4> QED
        BY <3>1
    <3> QED
      BY <2>1, <2>4, <3>2
  <2> QED
    BY <1>0, <1>2, <2>1, <2>3, <2>5
<1>5. ASSUME NEW l \in transit, Line(l) PROVE CountInv'
  BY <1>0, <1>1, <1>2, <1>5 DEF Line, Armed, Gone, actionVars, CountInv
<1>6. ASSUME TimerFires PROVE CountInv'
  BY <1>0, <1>1, <1>2, <1>6 DEF TimerFires, StartStreaming, Armed, Gone, actionVars, CountInv
<1>7. ASSUME RestartResumes PROVE CountInv'
  BY <1>0, <1>1, <1>2, <1>7 DEF RestartResumes, StartStreaming, Armed, Gone, actionVars, CountInv
<1>8. ASSUME ServiceFails PROVE CountInv'
  BY <1>0, <1>1, <1>2, <1>8
     DEF ServiceFails, Fault, Armed, Gone, actionVars, attemptVars, CountInv
<1>9. ASSUME Dispose PROVE CountInv'
  BY <1>0, <1>1, <1>2, <1>9 DEF Dispose, Armed, Gone, actionVars, CountInv
\* A request under way stays one.
<1>10. ASSUME NEW p \in Panels, Handle(p) \/ HandleFails(p) PROVE CountInv'
  <2>1. /\ UNCHANGED <<gen, restarts, timer, disposed, asked>>
        /\ requests[p].act # "none"
        /\ \E r : requests' = [requests EXCEPT ![p].reply = r]
        /\ faults' = faults \/ (faults < MaxFaults /\ faults' = faults + 1)
    BY <1>10 DEF Handle, HandleFails, Fault, attemptVars
  <2>2. Busy' = Busy
    BY <1>1, <2>1 DEF Busy, Idle, Request
  <2>3. Cardinality(Busy') = busy /\ Armed' = Armed /\ Gone' = Gone
    BY <2>1, <2>2 DEF Armed, Gone
  <2> HIDE DEF busy
  <2>4. gen' + restarts' + Armed' + 2 * busy <= 1 + 2 * asked' + faults' + Gone'
    BY <1>0, <2>1, <2>3
  <2>5. asked' \in 0 .. MaxActions /\ faults' \in 0 .. MaxFaults /\ IsFiniteSet(Busy')
    BY <1>1, <2>1, <2>2 DEF CountInv
  <2> QED
    BY <2>3, <2>4, <2>5 DEF CountInv
\* An answer frees its panel, and is followed by two attempts at most.
<1>11. ASSUME NEW p \in Panels, Answered(p) PROVE CountInv'
  <2>1. /\ requests[p].reply # "none" /\ requests' = [requests EXCEPT ![p] = Idle]
        /\ UNCHANGED <<disposed, asked, faults>>
        /\ \/ UNCHANGED <<gen, restarts, timer>>
           \/ gen' = gen + 1 /\ restarts' = restarts + 1 /\ timer' = FALSE
    BY <1>11 DEF Answered, RestartBegins, attemptVars
  <2>2. p \in Busy /\ Busy' = Busy \ {p}
    BY <1>1, <2>1 DEF Busy, Idle
  <2>3. IsFiniteSet(Busy') /\ Cardinality(Busy') = busy - 1
    BY <2>2, FS_RemoveElement DEF CountInv
  <2>4. /\ gen' + restarts' + Armed' <= gen + restarts + Armed + 2
        /\ gen' \in Nat /\ restarts' \in Nat /\ Gone' = Gone
    BY <1>0, <2>1 DEF Armed, Gone
  <2> DEFINE due == gen + restarts + Armed
             dueN == gen' + restarts' + Armed'
             most == 1 + 2 * asked + faults + Gone
  <2>5. due \in Nat /\ dueN \in Nat /\ most \in Nat /\ due + 2 * busy <= most
        /\ dueN <= due + 2
    <3>0. \A x, y, z \in Nat : x + y + z \in Nat
      OBVIOUS
    <3>1. due \in Nat /\ most \in Nat /\ dueN \in Nat
      <4>1. due \in Nat /\ most \in Nat
        BY <1>0
      <4>2. dueN \in Nat
        BY <1>0, <2>4, <3>0, Zenon
      <4> QED
        BY <4>1, <4>2
    <3>2. due + 2 * busy <= most
      BY <1>0
    <3>3. dueN <= due + 2
      BY <2>4
    <3> QED
      BY <3>1, <3>2, <3>3
  <2>6. dueN + 2 * (busy - 1) <= most
    <3> HIDE DEF due, dueN, most, busy
    <3> QED
      BY <1>0, <2>5
  <2>7. gen' + restarts' + Armed' + 2 * Cardinality(Busy')
          <= 1 + 2 * asked' + faults' + Gone'
    BY <2>1, <2>3, <2>4, <2>6
  <2> QED
    BY <1>1, <2>1, <2>3, <2>7 DEF CountInv
<1>12. ASSUME NEW p \in Panels, NEW act \in {"start", "stop"}, Ask(p, act)
       PROVE  CountInv'
  <2>1. /\ asked < MaxActions /\ asked' = asked + 1
        /\ UNCHANGED <<gen, restarts, timer, disposed, faults>>
        /\ \A q \in Panels \ {p} : requests'[q] = [requests[q] EXCEPT !.alone = FALSE]
    BY <1>12 DEF Ask, attemptVars
  <2>2. Busy' \subseteq Busy \cup {p}
    <3>1. ASSUME NEW q \in Panels \ {p}, requests[q] = Idle PROVE requests'[q] = Idle
      BY <2>1, <3>1 DEF Idle
    <3> QED
      BY <3>1 DEF Busy
  <2>3. /\ IsFiniteSet(Busy \cup {p}) /\ Cardinality(Busy \cup {p}) \in Nat
        /\ Cardinality(Busy \cup {p}) <= busy + 1
    <3>1. IsFiniteSet(Busy)
      BY DEF CountInv
    <3>2. IsFiniteSet(Busy \cup {p}) /\
          Cardinality(Busy \cup {p}) = IF p \in Busy THEN busy ELSE busy + 1
      BY <3>1, FS_AddElement
    <3> HIDE DEF busy
    <3> QED
      BY <1>0, <3>2
  <2>4. /\ IsFiniteSet(Busy') /\ Cardinality(Busy') \in Nat /\ Cardinality(Busy') <= busy + 1
    <3>1. IsFiniteSet(Busy') /\ Cardinality(Busy') <= Cardinality(Busy \cup {p})
      BY <2>2, <2>3, FS_Subset
    <3>2. Cardinality(Busy') \in Nat
      BY <3>1, FS_CardinalityType
    <3> HIDE DEF busy
    <3> QED
      BY <1>0, <2>3, <3>1, <3>2
  <2>5. Armed' = Armed /\ Gone' = Gone
    BY <2>1 DEF Armed, Gone
  <2> DEFINE next == Cardinality(Busy')
  <2>6. next \in Nat /\ next <= busy + 1
    BY <2>4
  <2> HIDE DEF busy, next
  <2>7. gen' + restarts' + Armed' + 2 * next <= 1 + 2 * asked' + faults' + Gone'
    BY <1>0, <2>1, <2>5, <2>6
  <2>8. asked' \in 0 .. MaxActions /\ faults' \in 0 .. MaxFaults
    BY <1>1, <2>1 DEF CountInv
  <2> QED
    BY <2>4, <2>7, <2>8 DEF CountInv, next
<1>13. CASE UNCHANGED streamVars
  BY <1>0, <1>1, <1>2, <1>13
     DEF streamVars, Armed, Gone, actionVars, attemptVars, CountInv
<1> QED
  BY <1>3, <1>4, <1>5, <1>6, <1>7, <1>8, <1>9, <1>10, <1>11, <1>12, <1>13
     DEF StreamNext, StreamRuns

\* The attempts that can ever be made are those the model lets act.
LEMMA StreamTyped == StreamSpec => []StreamTypeOK
<1>1. ASSUME StreamInit PROVE LiveInv /\ CountInv
  <2>1. Busy = {} /\ Armed = 0 /\ Gone = 0
    BY <1>1 DEF StreamInit, Busy, Armed, Gone
  <2>2. IsFiniteSet(Busy) /\ Cardinality(Busy) = 0
    BY <2>1, FS_EmptySet
  <2>3. LiveInv
    BY <1>1 DEF StreamInit, LiveInv
  <2> QED
    BY <1>1, <2>1, <2>2, <2>3, StreamAssumption DEF StreamInit, CountInv
<1>2. ASSUME StreamInv, LiveInv, CountInv PROVE StreamTypeOK
  <2> DEFINE busy == Cardinality(Busy)
  <2>1. /\ gen \in Nat /\ restarts \in Nat /\ busy \in Nat
        /\ Armed \in {0, 1} /\ Gone \in {0, 1}
        /\ asked \in 0 .. MaxActions /\ faults \in 0 .. MaxFaults
        /\ gen + restarts + Armed + 2 * busy <= 1 + 2 * asked + faults + Gone
        /\ MaxActions \in Nat /\ MaxFaults \in Nat
    BY <1>2, StreamAssumption, FS_CardinalityType
       DEF StreamInv, Numbered, LiveInv, CountInv, Armed, Gone
  <2> HIDE DEF busy
  <2>2. gen <= 2 * MaxActions + MaxFaults + 2
    BY <2>1
  <2>3. gen > 0
    BY <1>2 DEF LiveInv
  <2>4. gen \in Generations /\ client \in Generations \cup {0} /\ sub \in Generations \cup {0}
    BY <1>2, <2>1, <2>2, <2>3 DEF LiveInv, Generations
  <2> QED
    BY <1>2, <2>4
       DEF StreamInv, ConnectionInv, Numbered, Undisturbed, LiveInv, StreamTypeOK
<1> QED
  BY <1>1, <1>2, LiveStep, CountStep, StreamInvariant, PTL DEF StreamSpec

(***************************************************************************)
(* IpPool.  The segments lie in their prefixes; active_count counts those  *)
(* not found exhausted; and every cycle serves the slots in one order.     *)
(***************************************************************************)

\* A word of one bit or more holds more than a zero.
LEMMA PowerOfWord ==
  ASSUME NEW n \in Nat \ {0}
  PROVE  2 ^ n >= 2
<1>1. IsFiniteSet(1 .. n) /\ Cardinality(1 .. n) = n
  BY FS_Interval
<1>2. /\ Cardinality(SUBSET (1 .. n)) = 2 ^ n
      /\ IsFiniteSet(SUBSET (1 .. n))
  BY <1>1, FS_SUBSET
<1> DEFINE one == {{}}
           two == one \cup {{1}}
<1>3. two \in SUBSET (SUBSET (1 .. n)) /\ {1} \notin one
  OBVIOUS
<1>4. IsFiniteSet(one) /\ Cardinality(one) = 1
  BY FS_Singleton
<1>5. IsFiniteSet(two) /\ Cardinality(two) = Cardinality(one) + 1
  <2> HIDE DEF one
  <2> QED
    BY <1>3, <1>4, FS_AddElement, Zenon
<1> HIDE DEF one, two
<1>6. Cardinality(two) <= Cardinality(SUBSET (1 .. n))
  BY <1>2, <1>3, FS_Subset
<1> QED
  BY <1>2, <1>4, <1>5, <1>6

----------------------------------------------------------------------------
(* Segments *)

StaticSegments ==
  {g \in [kind : {"static"}, total : Nat, ips : Seq(Nat)] : g.total = Len(g.ips)}

\* The slots of a prefix lie in it, the last one with what the division leaves.
CidrSegments ==
  {g \in [kind : {"cidr"}, start : Nat, interval : Nat \ {0}, lastSize : Int,
          total : Nat, end : Int] :
     g.total > 0 =>
       /\ g.start + (g.total - 1) * g.interval + g.interval - 1 <= g.end
       /\ g.start + (g.total - 1) * g.interval + g.lastSize - 1 <= g.end}

Segment == StaticSegments \cup CidrSegments

\* A larger factor, a larger product.
LEMMA ProductGrows ==
  ASSUME NEW a \in Int, NEW b \in Int, NEW k \in Nat, a <= b
  PROVE  a * k \in Int /\ b * k \in Int /\ a * k <= b * k
  OBVIOUS

\* The rest of a division.
LEMMA RestIsLess ==
  ASSUME NEW a \in Nat, NEW m \in Nat \ {0}
  PROVE  a % m \in Nat /\ a % m <= a /\ a % 1 = 0
<1>1. a % m <= a /\ a % m \in 0 .. m - 1
  OBVIOUS
<1>2. a % 1 = 0
  OBVIOUS
<1> QED
  BY <1>1, <1>2

\* The samples asked for, or the table's, are one at least and fit the prefix.
LEMMA CountFits ==
  ASSUME NEW s \in Source, ~IsSingle(s)
  PROVE  /\ FirstOf(s) \in Nat /\ LastOf(s) \in Int
         /\ RangeSize(s) \in Nat \ {0} /\ RangeSize(s) <= LastOf(s) - FirstOf(s) + 1
         /\ SampleCount(s) \in 1 .. RangeSize(s)
<1>1. s.val \in Nat /\ s.len \in 0 .. AddrBits /\ s.count \in Nat
  <2>1. 2 ^ AddrBits \in Nat \ {0}
    BY PowerIsPositive, IpPoolAssumption
  <2> QED
    BY <2>1 DEF IsSingle, Source
<1> DEFINE size == 2 ^ (AddrBits - s.len)
           table == 2 ^ AtLeast(Threshold - s.len, 0)
<1>2. size \in Nat \ {0} /\ table \in Nat \ {0} /\ MaxWord \in Nat \ {0}
  <2>1. /\ AddrBits - s.len \in Nat /\ AtLeast(Threshold - s.len, 0) \in Nat
        /\ WordBits \in Nat \ {0}
    BY <1>1, IpPoolAssumption DEF AtLeast
  <2>2. 2 ^ WordBits >= 2 /\ 2 ^ WordBits \in Nat \ {0}
    BY <2>1, PowerOfWord, PowerIsPositive
  <2>3. MaxWord \in Nat \ {0}
    BY <2>2 DEF MaxWord
  <2>4. size \in Nat \ {0} /\ table \in Nat \ {0}
    BY <2>1, PowerIsPositive
  <2> QED
    BY <2>3, <2>4
<1>3. FirstOf(s) = s.val - (s.val % size) /\ LastOf(s) = FirstOf(s) + size - 1
  BY DEF FirstOf, LastOf
<1>4. s.val % size \in Nat /\ s.val % size <= s.val
  BY <1>1, <1>2, RestIsLess
<1>5. FirstOf(s) \in Nat /\ LastOf(s) \in Int /\ LastOf(s) - FirstOf(s) + 1 = size
  <2> HIDE DEF size
  <2> DEFINE rest == s.val % size
  <2>1. rest \in Nat /\ rest <= s.val /\ FirstOf(s) = s.val - rest
    BY <1>3, <1>4
  <2> HIDE DEF rest
  <2> QED
    BY <1>1, <1>2, <1>3, <2>1
<1>6. RangeSize(s) \in Nat \ {0} /\ RangeSize(s) <= size
  BY <1>2, <1>5 DEF RangeSize, Saturated, AtMost
<1>7. table * PerSubnet \in Nat \ {0}
  <2> HIDE DEF table
  <2> QED
    BY <1>2, IpPoolAssumption
<1>8. SampleCount(s) =
        Capped(IF s.count > 0 THEN s.count ELSE Saturated(table * PerSubnet), RangeSize(s))
  BY DEF SampleCount
<1> HIDE DEF table, size
<1>9. SampleCount(s) \in 1 .. RangeSize(s)
  BY <1>1, <1>2, <1>6, <1>7, <1>8 DEF Capped, Saturated, AtMost
<1> QED
  BY <1>5, <1>6, <1>9

\* A prefix becomes a segment whose slots lie in it.
LEMMA PrefixFits ==
  ASSUME NEW s \in Source, ~IsSingle(s)
  PROVE  CidrSegment(s) \in CidrSegments
<1> DEFINE low == FirstOf(s)
           high == LastOf(s)
           range == RangeSize(s)
           samples == SampleCount(s)
           interval == Interval(s)
           total == samples % (2 ^ CountBits)
<1>1. /\ low \in Nat /\ high \in Int /\ range \in Nat \ {0}
      /\ range <= high - low + 1 /\ samples \in 1 .. range
  BY CountFits
<1>2. interval = AtLeast(range \div samples, 1)
      /\ LastSize(s) = Saturated(high - (low + (samples - 1) * interval) + 1)
  BY DEF Interval, LastSize
<1>3. MaxWord \in Int
  <2>1. 2 ^ WordBits \in Nat \ {0}
    BY PowerIsPositive, IpPoolAssumption
  <2> QED
    BY <2>1 DEF MaxWord
<1>4. 2 ^ CountBits \in Nat \ {0}
  BY PowerIsPositive, IpPoolAssumption
<1>5. CidrSegment(s) = [kind |-> "cidr", start |-> low, interval |-> interval,
        lastSize |-> LastSize(s), total |-> total, end |-> high]
  BY DEF CidrSegment
<1> HIDE DEF low, high, range, samples, interval
<1>6. interval \in Nat \ {0} /\ samples * interval <= range
  <2>1. /\ range \div samples \in Nat /\ range \div samples >= 1
        /\ samples * (range \div samples) <= range
    BY <1>1
  <2> QED
    BY <1>2, <2>1 DEF AtLeast
<1>7. total \in Nat /\ total <= samples
  BY <1>1, <1>4
<1> HIDE DEF total
<1>8. /\ (total - 1) * interval \in Int /\ (samples - 1) * interval \in Int
      /\ (total - 1) * interval <= (samples - 1) * interval
      /\ (samples - 1) * interval + interval = samples * interval
      /\ samples * interval \in Int
  <2>1. total - 1 <= samples - 1 /\ total - 1 \in Int /\ samples - 1 \in Int /\ interval \in Nat
    BY <1>1, <1>6, <1>7
  <2>2. (samples - 1) * interval + interval = samples * interval /\ samples * interval \in Int
    BY <1>1, <1>6
  <2> QED
    BY <2>1, <2>2, ProductGrows
<1>9. low + (total - 1) * interval + interval - 1 <= high
  BY <1>1, <1>6, <1>7, <1>8
<1>10. /\ LastSize(s) \in Int
       /\ LastSize(s) <= high - (low + (samples - 1) * interval) + 1
  BY <1>1, <1>2, <1>3, <1>8 DEF Saturated, AtMost
<1>11. low + (total - 1) * interval + LastSize(s) - 1 <= high
  BY <1>1, <1>6, <1>7, <1>8, <1>10
<1> QED
  BY <1>1, <1>5, <1>6, <1>7, <1>9, <1>10, <1>11 DEF CidrSegments

\* What the loop over the sources collects: addresses, and segments of prefixes.
LEMMA CollectedFits ==
  ASSUME NEW sources \in Seq(Source)
  PROVE  Collected(sources) \in [singles : Seq(Nat), cidrs : Seq(CidrSegments)]
<1> DEFINE n == Len(sources)
           V == [singles : Seq(Nat), cidrs : Seq(CidrSegments)]
           Empty == [singles |-> <<>>, cidrs |-> <<>>]
           Then(c, i) == IF IsSingle(sources[i])
                         THEN [c EXCEPT !.singles = Append(@, AddressOf(sources[i]))]
                         ELSE [c EXCEPT !.cidrs = Append(@, CidrSegment(sources[i]))]
           F == [i \in Nat |-> [c \in V |-> IF i \in 1 .. n THEN Then(c, i) ELSE c]]
           Is(f) == f = [i \in 0 .. Len(sources) |->
                  IF i = 0 THEN [singles |-> <<>>, cidrs |-> <<>>]
                  ELSE IF IsSingle(sources[i])
                    THEN [f[i - 1] EXCEPT !.singles = Append(@, AddressOf(sources[i]))]
                    ELSE [f[i - 1] EXCEPT !.cidrs = Append(@, CidrSegment(sources[i]))]]
           after == CHOOSE f : Is(f)
<1>1. n \in Nat /\ Empty \in V
  OBVIOUS
<1>2. ASSUME NEW c \in V, NEW i \in 1 .. n PROVE Then(c, i) \in V
  <2>1. sources[i] \in Source
    OBVIOUS
  <2>2. CASE IsSingle(sources[i])
    <3>1. AddressOf(sources[i]) \in Nat
      <4>1. CASE sources[i].kind = "ip"
        BY <2>1, <4>1 DEF AddressOf, Source
      <4>2. CASE sources[i].kind # "ip"
        <5>1. sources[i].len = AddrBits /\ sources[i].val \in Nat
          <6>1. 2 ^ AddrBits \in Nat \ {0}
            BY PowerIsPositive, IpPoolAssumption
          <6> QED
            BY <2>1, <2>2, <4>2, <6>1 DEF IsSingle, Source
        <5>2. 2 ^ (AddrBits - sources[i].len) = 1
          <6>1. 2 ^ 0 = 1 /\ AddrBits - sources[i].len = 0
            BY <5>1, IpPoolAssumption
          <6> QED
            BY <6>1
        <5>3. FirstOf(sources[i]) = sources[i].val - (sources[i].val % 1)
          BY <5>2 DEF FirstOf
        <5>4. sources[i].val % 1 = 0
          BY <5>1, RestIsLess
        <5> QED
          BY <4>2, <5>1, <5>3, <5>4 DEF AddressOf
      <4> QED
        BY <4>1, <4>2
    <3>2. c.singles \in Seq(Nat) /\ c.cidrs \in Seq(CidrSegments)
      OBVIOUS
    <3>3. Then(c, i) = [singles |-> Append(c.singles, AddressOf(sources[i])), cidrs |-> c.cidrs]
      BY <2>2
    <3>4. Append(c.singles, AddressOf(sources[i])) \in Seq(Nat)
      BY <3>1, <3>2, AppendProperties
    <3> QED
      BY <3>2, <3>3, <3>4
  <2>3. CASE ~IsSingle(sources[i])
    <3>1. CidrSegment(sources[i]) \in CidrSegments
      BY <2>1, <2>3, PrefixFits
    <3>2. c.singles \in Seq(Nat) /\ c.cidrs \in Seq(CidrSegments)
      OBVIOUS
    <3>3. Then(c, i) = [singles |-> c.singles, cidrs |-> Append(c.cidrs, CidrSegment(sources[i]))]
      BY <2>3
    <3>4. Append(c.cidrs, CidrSegment(sources[i])) \in Seq(CidrSegments)
      BY <3>1, <3>2, AppendProperties
    <3> QED
      BY <3>2, <3>3, <3>4
  <2> QED
    BY <2>2, <2>3
<1>3. PICK g \in [0 .. n -> V] :
        g[0] = Empty /\ \A i \in 1 .. n : g[i] = F[i][g[i - 1]]
  <2>1. F \in [Nat -> [V -> V]]
    <3> HIDE DEF V, Then
    <3> QED
      BY <1>2
  <2> HIDE DEF F, n, V, Empty
  <2>2. Recursible(V)
    BY RecursionDefines
  <2> QED
    BY <1>1, <2>1, <2>2, ZenonT(60) DEF Recursible
<1>4. ASSUME NEW i \in 1 .. n PROVE g[i] = Then(g[i - 1], i)
  <2>1. i - 1 \in 0 .. n /\ i \in Nat
    BY <1>1
  <2>2. g[i - 1] \in V
    BY <1>3, <2>1
  <2> HIDE DEF V, Then
  <2> QED
    BY <1>3, <2>1, <2>2
<1>5. Is(g)
  <2>1. ASSUME NEW i \in 0 .. Len(sources)
        PROVE  g[i] = IF i = 0 THEN Empty ELSE Then(g[i - 1], i)
    <3>1. CASE i = 0
      BY <1>3, <3>1
    <3>2. CASE i # 0
      <4>1. i \in 1 .. n
        BY <1>1, <3>2
      <4> HIDE DEF Then
      <4> QED
        BY <1>4, <3>2, <4>1
    <3> QED
      BY <3>1, <3>2
  <2> QED
    BY <2>1, Zenon
<1>6. Is(after)
  <2> HIDE DEF Is
  <2> QED
    BY <1>5
<1>7. Collected(sources) = after[n]
  BY DEF Collected
<1> HIDE DEF after
<1>8. \A i \in 0 .. n : after[i] = IF i = 0 THEN Empty ELSE Then(after[i - 1], i)
  BY <1>6, Zenon
<1> HIDE DEF Is, Then, V, Empty
<1>9. \A i \in 0 .. n : after[i] \in V
  <2> DEFINE S == {i \in Nat : i \in 0 .. n => after[i] \in V}
  <2>1. 0 \in S
    BY <1>1, <1>8
  <2>2. ASSUME NEW i \in Nat, i \in S PROVE i + 1 \in S
    <3> SUFFICES ASSUME i + 1 \in 0 .. n PROVE after[i + 1] \in V
      OBVIOUS
    <3>1. i \in 0 .. n /\ i + 1 \in 1 .. n /\ (i + 1) - 1 = i /\ i + 1 # 0
      BY <1>1
    <3>2. after[i] \in V
      BY <2>2, <3>1
    <3>3. after[i + 1] = Then(after[i], i + 1)
      BY <1>8, <3>1
    <3> QED
      BY <1>2, <3>1, <3>2, <3>3
  <2>3. Nat \subseteq S
    <3> HIDE DEF S
    <3> QED
      BY <2>1, <2>2, SetInduction
  <2> QED
    BY <2>3
<1> QED
  BY <1>1, <1>7, <1>9 DEF V

\* IpPool::new builds segments whose slots lie in their prefix.
LEMMA SegmentsFit ==
  ASSUME NEW sources \in SourceLists
  PROVE  SegmentsOf(sources) \in Seq(Segment)
<1> DEFINE all == Collected(sources)
<1>1. sources \in Seq(Source)
  BY IpPoolAssumption
<1>2. all \in [singles : Seq(Nat), cidrs : Seq(CidrSegments)]
  BY <1>1, CollectedFits
<1> HIDE DEF all
<1>3. StaticSegment(all.singles) \in StaticSegments
  BY <1>2 DEF StaticSegment, StaticSegments
<1>4. all.cidrs \in Seq(Segment)
  BY <1>2, SeqMonotonic DEF Segment
<1>5. (IF all.singles = <<>> THEN <<>> ELSE <<StaticSegment(all.singles)>>) \in Seq(Segment)
  BY <1>3 DEF Segment
<1>6. SegmentsOf(sources) =
        (IF all.singles = <<>> THEN <<>> ELSE <<StaticSegment(all.singles)>>) \o all.cidrs
  BY DEF SegmentsOf, all
<1> QED
  BY <1>4, <1>5, <1>6, ConcatProperties

----------------------------------------------------------------------------
(* What pop() keeps *)

\* A segment that was found exhausted has given all its slots.
Exhausted(s) == ~HasSlot(s)

PoolInv ==
  /\ segments \in Seq(Segment)
  /\ current \in [Segs -> Nat] /\ notified \subseteq Segs /\ cursor \in Nat
  /\ pc \in {"idle", "head", "scan", "recycle"}
  /\ scan \in [start : Nat, i : Nat]
  /\ pc = "scan" => scan.i < Len(segments)
  /\ pc = "recycle" => segments # <<>>
  /\ \A s \in notified : Exhausted(s)
  /\ active = Cardinality(Segs \ notified)
  /\ pc \in {"idle", "head"} /\ segments # <<>> => active > 0

\* The segments are numbered, and finitely many.
LEMMA SegmentFacts ==
  ASSUME segments \in Seq(Segment)
  PROVE  /\ Segs = 1 .. Len(segments) /\ Len(segments) \in Nat /\ IsFiniteSet(Segs)
         /\ Cardinality(Segs) = Len(segments)
         /\ \A s \in Segs : segments[s] \in Segment /\ segments[s].total \in Nat
<1>1. Segs = 1 .. Len(segments) /\ Len(segments) \in Nat
  BY DEF Segs
<1>2. IsFiniteSet(Segs) /\ Cardinality(Segs) = Len(segments)
  BY <1>1, FS_Interval, SMTT(40)
<1>3. \A s \in Segs : segments[s] \in Segment
  BY <1>1
<1>4. \A g \in Segment : g.total \in Nat
  BY DEF Segment, StaticSegments, CidrSegments
<1> QED
  BY <1>1, <1>2, <1>3, <1>4

\* The scan probes a segment.
LEMMA ProbedFacts ==
  ASSUME PoolInv, pc = "scan"
  PROVE  Probed \in Segs /\ segments # <<>> /\ Len(segments) \in Nat \ {0}
<1>1. Segs = 1 .. Len(segments) /\ Len(segments) \in Nat
  BY SegmentFacts DEF PoolInv
<1>2. scan.start \in Nat /\ scan.i \in Nat /\ scan.i < Len(segments)
  BY DEF PoolInv
<1>3. (scan.start + scan.i) % Len(segments) \in 0 .. Len(segments) - 1
  BY <1>1, <1>2
<1> QED
  BY <1>1, <1>2, <1>3 DEF Probed

\* Every step of pop() keeps PoolInv.
LEMMA PoolStep ==
  ASSUME PoolInv, [IpNext]_ipVars
  PROVE  PoolInv'
<1>1. /\ Segs = 1 .. Len(segments) /\ Len(segments) \in Nat /\ IsFiniteSet(Segs)
      /\ Cardinality(Segs) = Len(segments)
      /\ \A s \in Segs : segments[s].total \in Nat
  BY SegmentFacts DEF PoolInv
<1>2. active \in Nat /\ (active = 0 => Segs \ notified = {})
  <2>1. IsFiniteSet(Segs \ notified)
    BY <1>1, FS_Difference
  <2> QED
    BY <2>1, FS_CardinalityType, FS_EmptySet DEF PoolInv
<1>3. CASE Call
  BY <1>3 DEF Call, PoolInv, poolVars, Segs, Exhausted, HasSlot
<1>4. CASE LoopHead
  <2>1. CASE active = 0
    BY <1>4, <2>1 DEF LoopHead, PoolInv, Segs, Exhausted, HasSlot
  <2>2. CASE active # 0
    <3>1. segments # <<>> /\ Len(segments) > 0
      <4>1. notified # Segs
        <5>1. CASE notified = Segs
          <6>1. active = Cardinality({})
            BY <5>1 DEF PoolInv
          <6> QED
            BY <2>2, <6>1, FS_EmptySet
        <5> QED
          BY <5>1
      <4>2. \E s \in Segs : TRUE
        BY <4>1 DEF PoolInv
      <4> QED
        BY <1>1, <4>2
    <3>2. /\ pc' = "scan" /\ scan' = [start |-> cursor, i |-> 0] /\ cursor' = cursor + 1
          /\ UNCHANGED <<segments, current, notified, active>>
      BY <1>4, <2>2 DEF LoopHead
    <3> QED
      BY <3>1, <3>2 DEF PoolInv, Segs, Exhausted, HasSlot
  <2> QED
    BY <2>1, <2>2
<1>5. CASE Serve
  <2>1. /\ pc = "scan" /\ HasSlot(Probed) /\ pc' = "idle"
        /\ current' = [current EXCEPT ![Probed] = @ + 1]
        /\ UNCHANGED <<segments, notified, cursor, active, scan>>
    BY <1>5 DEF Serve
  <2>2. Probed \in Segs
    BY <2>1, ProbedFacts
  <2>3. Probed \notin notified
    BY <2>1 DEF PoolInv, Exhausted
  <2>4. active > 0
    BY <1>2, <2>2, <2>3
  <2>5. current' \in [Segs -> Nat] /\ \A s \in notified : current'[s] = current[s]
    BY <2>1, <2>2, <2>3 DEF PoolInv
  <2> QED
    BY <2>1, <2>4, <2>5 DEF PoolInv, Segs, Exhausted, HasSlot
<1>6. CASE Skip
  <2>1. /\ pc = "scan" /\ ~HasSlot(Probed)
        /\ current' = [current EXCEPT ![Probed] = @ + 1]
        /\ active' = IF FirstTime(Probed) THEN active - 1 ELSE active
        /\ notified' = notified \cup {Probed}
        /\ NextSegment
        /\ UNCHANGED <<segments, cursor>>
    BY <1>6 DEF Skip
  <2>2. Probed \in Segs /\ segments # <<>> /\ Len(segments) \in Nat \ {0}
    BY <2>1, ProbedFacts
  <2> DEFINE p == Probed
  <2>3. current' \in [Segs -> Nat] /\ \A s \in Segs : current'[s] >= current[s]
    <3> HIDE DEF p
    <3>1. current' = [current EXCEPT ![p] = @ + 1] /\ p \in Segs
      BY <2>1, <2>2 DEF p
    <3> QED
      BY <3>1 DEF PoolInv
  <2>4. \A s \in notified' : Exhausted(s)'
    <3>1. \A s \in notified' : s \in Segs /\ ~ (current[s] < segments[s].total)
      BY <2>1, <2>2 DEF PoolInv, Exhausted, HasSlot
    <3> QED
      BY <1>1, <2>1, <2>3, <3>1 DEF PoolInv, Exhausted, HasSlot
  <2>5. active' = Cardinality(Segs \ notified')
    <3>1. Segs \ notified' = (Segs \ notified) \ {p}
      BY <2>1
    <3>2. IsFiniteSet(Segs \ notified)
      BY <1>1, FS_Difference
    <3>3. Cardinality((Segs \ notified) \ {p}) =
            IF p \in Segs \ notified THEN Cardinality(Segs \ notified) - 1
            ELSE Cardinality(Segs \ notified)
      <4> HIDE DEF p
      <4> QED
        BY <3>2, FS_RemoveElement
    <3> QED
      BY <2>1, <2>2, <3>1, <3>3 DEF PoolInv, FirstTime
  <2>6. /\ pc' \in {"scan", "recycle"} /\ scan' \in [start : Nat, i : Nat]
        /\ pc' = "scan" => scan'.i < Len(segments)
    BY <2>1 DEF NextSegment, PoolInv
  <2>7. notified' \subseteq Segs
    BY <2>1, <2>2 DEF PoolInv
  <2>8. Segs' = Segs
    BY <2>1 DEF Segs
  <2> QED
    BY <2>1, <2>2, <2>3, <2>4, <2>5, <2>6, <2>7, <2>8 DEF PoolInv
<1>7. CASE Recycle
  <2>1. /\ pc = "recycle" /\ pc' = "head" /\ current' = [s \in Segs |-> 0]
        /\ notified' = {} /\ cursor' = 0 /\ active' = Len(segments)
        /\ UNCHANGED <<segments, scan>>
    BY <1>7 DEF Recycle, Rewound, Restart
  <2>2. Segs \ notified' = Segs /\ Segs' = Segs
    BY <2>1 DEF Segs
  <2>3. segments # <<>> => Len(segments) > 0
    BY <1>1 DEF PoolInv
  <2> QED
    BY <1>1, <2>1, <2>2, <2>3 DEF PoolInv
<1>8. CASE UNCHANGED ipVars
  BY <1>8 DEF ipVars, poolVars, PoolInv, Segs, Exhausted, HasSlot
<1> QED
  BY <1>3, <1>4, <1>5, <1>6, <1>7, <1>8 DEF IpNext

\* A new pool satisfies PoolInv.
LEMMA PoolStart ==
  ASSUME IpInit
  PROVE  PoolInv
<1>1. segments \in Seq(Segment)
  BY SegmentsFit DEF IpInit
<1>2. /\ Segs = 1 .. Len(segments) /\ Len(segments) \in Nat
      /\ Cardinality(Segs) = Len(segments)
  BY <1>1, SegmentFacts
<1>3. Segs \ notified = Segs /\ notified = {}
  BY DEF IpInit
<1>4. segments # <<>> => Len(segments) > 0
  BY <1>1
<1> QED
  BY <1>1, <1>2, <1>3, <1>4 DEF IpInit, PoolInv

\* PoolInv holds from the start and for ever.
LEMMA PoolInvariant == PoolSpec => []PoolInv
  BY PoolStart, PoolStep, PTL DEF PoolSpec

\* For any list of sources and any widths: active_count is the number of
\* segments not found exhausted, and pop() gives up only on an empty pool
\* (ip.rs:294-321).
THEOREM ActiveIsExact == PoolSpec => []ActiveExact
<1>1. PoolInv => ActiveExact
  BY DEF PoolInv, ActiveExact
<1> QED
  BY <1>1, PoolInvariant, PTL

----------------------------------------------------------------------------
(* The addresses of a slot *)

\* Slots of one prefix follow each other without meeting, and end in it.
LEMMA SlotsApart ==
  ASSUME segments \in Seq(Segment), NEW s \in Segs, segments[s].kind = "cidr",
         NEW i \in 0 .. segments[s].total - 1
  PROVE  /\ \A a \in Addresses(s, i) : a \in segments[s].start .. segments[s].end
         /\ \A j \in i + 1 .. segments[s].total - 1 :
              \A a \in Addresses(s, i), b \in Addresses(s, j) : a < b
<1> DEFINE g == segments[s]
           first(k) == g.start + k * g.interval
<1>1. /\ g \in CidrSegments /\ g.start \in Nat /\ g.interval \in Nat \ {0}
      /\ g.lastSize \in Int /\ g.total \in Nat /\ g.end \in Int
  BY SegmentFacts DEF Segment, StaticSegments, CidrSegments
<1>2. /\ first(g.total - 1) + g.interval - 1 <= g.end
      /\ first(g.total - 1) + g.lastSize - 1 <= g.end
  BY <1>1 DEF CidrSegments
<1>3. ASSUME NEW k \in 0 .. g.total - 1
      PROVE  Addresses(s, k) =
               first(k) .. first(k) + AtLeast((IF k = g.total - 1 THEN g.lastSize
                                               ELSE g.interval) - 1, 0)
  BY DEF Addresses, SlotSize
<1> HIDE DEF g
<1>4. ASSUME NEW k \in Nat PROVE first(k) \in Int /\ first(k) >= g.start
  <2>1. k * g.interval \in Nat
    BY <1>1
  <2> QED
    BY <1>1, <2>1
<1>5. ASSUME NEW k \in Nat, NEW l \in Nat, k < l PROVE first(k) + g.interval <= first(l)
  <2>1. (k + 1) * g.interval <= l * g.interval /\ l * g.interval \in Int
    <3>1. k + 1 \in Int /\ l \in Int /\ g.interval \in Nat /\ k + 1 <= l
      BY <1>1, <1>5
    <3> QED
      BY <3>1, ProductGrows
  <2>2. (k + 1) * g.interval = k * g.interval + g.interval /\ k * g.interval \in Int
    BY <1>1
  <2> DEFINE x == k * g.interval
             y == l * g.interval
  <2>3. x \in Int /\ y \in Int /\ x + g.interval <= y
    BY <2>1, <2>2
  <2>4. first(k) = g.start + x /\ first(l) = g.start + y
    OBVIOUS
  <2> HIDE DEF x, y, first
  <2> QED
    BY <1>1, <2>3, <2>4
<1> HIDE DEF first
<1>6. ASSUME NEW k \in 0 .. g.total - 1, k # g.total - 1, NEW a \in Addresses(s, k)
      PROVE  a \in Int /\ a >= first(k) /\ a <= first(k) + g.interval - 1
  <2>1. Addresses(s, k) = first(k) .. first(k) + AtLeast(g.interval - 1, 0)
    BY <1>3, <1>6
  <2> QED
    BY <1>1, <1>4, <1>6, <2>1, SMTT(40) DEF AtLeast
<1>7. ASSUME NEW a \in Addresses(s, g.total - 1), g.total > 0
      PROVE  /\ a \in Int /\ a >= first(g.total - 1)
             /\ a <= first(g.total - 1) + AtLeast(g.lastSize - 1, 0)
  <2>1. g.total - 1 \in 0 .. g.total - 1 /\ g.total - 1 \in Nat
    BY <1>1, <1>7
  <2>2. Addresses(s, g.total - 1) =
          first(g.total - 1) .. first(g.total - 1) + AtLeast(g.lastSize - 1, 0)
    BY <1>3, <2>1
  <2>3. first(g.total - 1) \in Int /\ AtLeast(g.lastSize - 1, 0) \in Int
    BY <1>1, <1>4, <2>1 DEF AtLeast
  <2> QED
    BY <1>7, <2>2, <2>3
<1>8. ASSUME NEW a \in Addresses(s, i) PROVE a \in g.start .. g.end
  <2>0. i \in 0 .. g.total - 1
    BY DEF g
  <2>1. CASE i = g.total - 1
    <3>1. g.total > 0 /\ a \in Addresses(s, g.total - 1) /\ g.total - 1 \in Nat
      BY <1>1, <2>0, <2>1
    <3>2. first(g.total - 1) \in Int /\ first(g.total - 1) >= g.start
      BY <1>4, <3>1
    <3>3. a \in Int /\ a >= first(g.total - 1)
          /\ a <= first(g.total - 1) + AtLeast(g.lastSize - 1, 0)
      BY <1>7, <3>1
    <3>4. a <= g.end
      BY <1>1, <1>2, <3>2, <3>3 DEF AtLeast
    <3>5. a >= g.start
      BY <1>1, <3>2, <3>3
    <3> QED
      BY <1>1, <3>3, <3>4, <3>5
  <2>2. CASE i # g.total - 1
    <3>1. a \in Int /\ a >= first(i) /\ a <= first(i) + g.interval - 1
      BY <1>6, <2>0, <2>2
    <3>2. i < g.total - 1 /\ i \in Nat /\ g.total - 1 \in Nat
      BY <1>1, <2>0, <2>2
    <3>3. first(i) + g.interval <= first(g.total - 1)
      BY <1>5, <3>2
    <3>4. first(i) \in Int /\ first(i) >= g.start /\ first(g.total - 1) \in Int
      BY <1>4, <3>2
    <3>5. a <= g.end
      BY <1>1, <1>2, <3>1, <3>3, <3>4, SMTT(40)
    <3>6. a >= g.start
      BY <1>1, <3>1, <3>4
    <3> QED
      BY <1>1, <3>1, <3>5, <3>6
  <2> QED
    BY <2>1, <2>2
<1>9. ASSUME NEW j \in i + 1 .. g.total - 1,
             NEW a \in Addresses(s, i), NEW b \in Addresses(s, j)
      PROVE  a < b
  <2>1. /\ i \in 0 .. g.total - 1 /\ i # g.total - 1 /\ i \in Nat /\ j \in Nat /\ i < j
        /\ j \in 0 .. g.total - 1
    <3>1. i \in 0 .. g.total - 1
      BY DEF g
    <3> QED
      BY <1>1, <1>9, <3>1
  <2>2. a \in Int /\ a <= first(i) + g.interval - 1
    BY <1>6, <2>1
  <2>3. b \in Int /\ b >= first(j)
    <3>1. CASE j = g.total - 1
      BY <1>1, <1>7, <2>1, <3>1
    <3>2. CASE j # g.total - 1
      BY <1>6, <2>1, <3>2
    <3> QED
      BY <3>1, <3>2
  <2>4. first(i) + g.interval <= first(j) /\ first(i) \in Int /\ first(j) \in Int
    BY <1>4, <1>5, <2>1
  <2> QED
    BY <1>1, <2>2, <2>3, <2>4
<1> QED
  BY <1>8, <1>9 DEF g

Entry == [slot : Segs \X Nat, addr : Int]

\* What was served came from a slot, and no more is remembered than there are.
DrawnInv ==
  /\ out \in Seq(Entry)
  /\ Len(out) <= Total
  /\ \A m \in DOMAIN out :
       /\ out[m].slot \in Slots
       /\ out[m].addr \in Addresses(out[m].slot[1], out[m].slot[2])

\* The slots are finitely many, each of a segment.
LEMMA SlotFacts ==
  ASSUME segments \in Seq(Segment)
  PROVE  /\ IsFiniteSet(Slots) /\ Total \in Nat
         /\ \A s, i : <<s, i>> \in Slots <=>
              s \in Segs /\ i \in 0 .. segments[s].total - 1
<1>1. IsFiniteSet(Segs) /\ \A s \in Segs : segments[s].total \in Nat
  BY SegmentFacts
<1>2. \A s \in Segs : IsFiniteSet(SlotsOf(s))
  <2> TAKE s \in Segs
  <2> DEFINE upto == 0 .. segments[s].total - 1
  <2>1. IsFiniteSet({s})
    BY FS_Singleton, Zenon
  <2>2. IsFiniteSet(upto)
    <3> DEFINE t == segments[s].total - 1
    <3>1. t \in Int
      BY <1>1
    <3> HIDE DEF t
    <3>2. IsFiniteSet(0 .. t)
      BY <3>1, FS_Interval
    <3> QED
      BY <3>2 DEF t
  <2>3. IsFiniteSet({s} \X upto)
    <3> HIDE DEF upto
    <3> QED
      BY <2>1, <2>2, FS_Product
  <2> QED
    BY <2>3 DEF SlotsOf
<1>3. IsFiniteSet({SlotsOf(s) : s \in Segs})
  <2> DEFINE T == {SlotsOf(s) : s \in Segs}
             f == [s \in Segs |-> SlotsOf(s)]
  <2>1. f \in Surjection(Segs, T)
    BY DEF Surjection
  <2> HIDE DEF f, T
  <2>2. IsFiniteSet(T)
    BY <1>1, <2>1, FS_Surjection
  <2> QED
    BY <2>2 DEF T
<1>4. IsFiniteSet(Slots)
  BY <1>2, <1>3, FS_UNION DEF Slots
<1>5. Total \in Nat
  BY <1>4, FS_CardinalityType DEF Total
<1> QED
  BY <1>4, <1>5 DEF Slots, SlotsOf

\* What a segment yields are addresses.
LEMMA AddressesAreNumbers ==
  ASSUME segments \in Seq(Segment), NEW s, NEW i, <<s, i>> \in Slots,
         NEW a \in Addresses(s, i)
  PROVE  a \in Int
<1>1. s \in Segs /\ i \in 0 .. segments[s].total - 1 /\ segments[s] \in Segment
  BY SlotFacts, SegmentFacts
<1>2. CASE segments[s].kind = "cidr"
  <2>1. a \in segments[s].start .. segments[s].end
    BY <1>1, <1>2, SlotsApart
  <2> QED
    BY <2>1
<1>3. CASE segments[s].kind # "cidr"
  <2>1. segments[s] \in StaticSegments /\ segments[s].kind = "static"
    BY <1>1, <1>3 DEF Segment, StaticSegments, CidrSegments
  <2>2. /\ segments[s].ips \in Seq(Nat) /\ i + 1 \in 1 .. Len(segments[s].ips)
    BY <1>1, <2>1 DEF StaticSegments
  <2>3. a = segments[s].ips[i + 1]
    BY <2>1 DEF Addresses
  <2> QED
    BY <2>2, <2>3
<1> QED
  BY <1>2, <1>3

\* The window moves on by one entry.
LEMMA WindowMoves ==
  ASSUME segments \in Seq(Segment), DrawnInv, NEW s, NEW i, <<s, i>> \in Slots,
         NEW a \in Int, NEW w, w = Served(s, i, a)
  PROVE  /\ w \in Seq(Entry) /\ Len(w) \in 1 .. Total
         /\ Len(out) + 1 - Len(w) \in {0, 1}
         /\ w[Len(w)] = [slot |-> <<s, i>>, addr |-> a]
         /\ \A m \in 1 .. Len(w) - 1 :
              /\ m + (Len(out) + 1 - Len(w)) \in DOMAIN out
              /\ w[m] = out[m + (Len(out) + 1 - Len(w))]
<1> DEFINE e == [slot |-> <<s, i>>, addr |-> a]
           grown == Append(out, e)
<1>1. /\ s \in Segs /\ i \in Nat /\ IsFiniteSet(Slots) /\ Total \in Nat
      /\ \A t \in Segs : segments[t].total \in Nat
  BY SlotFacts, SegmentFacts
<1>2. e \in Entry /\ out \in Seq(Entry) /\ Len(out) \in 0 .. Total
  BY <1>1 DEF Entry, DrawnInv
<1>3. Total > 0
  BY <1>1, FS_EmptySet DEF Total
<1> HIDE DEF e
<1>4. /\ grown \in Seq(Entry) /\ Len(grown) = Len(out) + 1 /\ grown # <<>>
      /\ \A m \in 1 .. Len(out) : grown[m] = out[m]
      /\ grown[Len(out) + 1] = e
  BY <1>2, AppendProperties
<1>5. w = IF Len(grown) > Total THEN Tail(grown) ELSE grown
  BY DEF Served, e
<1> HIDE DEF grown
<1>6. CASE Len(grown) > Total
  <2>1. /\ Tail(grown) \in Seq(Entry) /\ Len(Tail(grown)) = Len(grown) - 1
        /\ \A m \in 1 .. Len(Tail(grown)) : Tail(grown)[m] = grown[m + 1]
    BY <1>4, HeadTailProperties
  <2>2. /\ w \in Seq(Entry) /\ Len(w) = Len(out) /\ Len(out) = Total
        /\ \A m \in 1 .. Len(w) : w[m] = grown[m + 1]
    BY <1>1, <1>2, <1>4, <1>5, <1>6, <2>1
  <2>3. w[Len(w)] = e
    BY <1>1, <1>3, <1>4, <2>2
  <2>4. \A m \in 1 .. Len(w) - 1 : m + 1 \in 1 .. Len(out) /\ w[m] = out[m + 1]
    BY <1>1, <1>3, <1>4, <2>2
  <2>5. DOMAIN out = 1 .. Len(out)
    BY <1>2
  <2>6. Len(out) + 1 - Len(w) = 1
    BY <1>1, <2>2
  <2> QED
    BY <1>1, <1>3, <2>2, <2>3, <2>4, <2>5, <2>6 DEF e
<1>7. CASE ~ (Len(grown) > Total)
  <2>1. w = grown /\ Len(w) = Len(out) + 1 /\ Len(w) <= Total
    BY <1>1, <1>2, <1>4, <1>5, <1>7
  <2>2. Len(out) + 1 - Len(w) = 0
    BY <1>2, <2>1
  <2>3. \A m \in 1 .. Len(w) - 1 : m \in 1 .. Len(out) /\ w[m] = out[m] /\ m + 0 = m
    BY <1>2, <1>4, <2>1
  <2>4. DOMAIN out = 1 .. Len(out)
    BY <1>2
  <2>5. w[Len(w)] = e /\ Len(w) \in 1 .. Total
    BY <1>1, <1>2, <1>4, <2>1
  <2>6. \A m \in 1 .. Len(w) - 1 :
          /\ m + (Len(out) + 1 - Len(w)) \in DOMAIN out
          /\ w[m] = out[m + (Len(out) + 1 - Len(w))]
    BY <2>2, <2>3, <2>4
  <2> QED
    BY <1>4, <2>1, <2>2, <2>5, <2>6 DEF e
<1> QED
  BY <1>6, <1>7

\* What a serving appends.
LEMMA ServeAppends ==
  ASSUME PoolInv, Serve
  PROVE  /\ Probed \in Segs /\ <<Probed, current[Probed]>> \in Slots
         /\ \E a \in Addresses(Probed, current[Probed]) :
              a \in Int /\ out' = Served(Probed, current[Probed], a)
<1>1. pc = "scan" /\ HasSlot(Probed) /\ segments \in Seq(Segment)
  BY DEF Serve, PoolInv
<1>2. Probed \in Segs
  BY <1>1, ProbedFacts
<1>3. current[Probed] \in 0 .. segments[Probed].total - 1
  BY <1>1, <1>2, SegmentFacts DEF PoolInv, HasSlot
<1>4. <<Probed, current[Probed]>> \in Slots
  BY <1>1, <1>2, <1>3, SlotFacts
<1>5. PICK a \in Addresses(Probed, current[Probed]) :
        out' = Served(Probed, current[Probed], a)
  BY DEF Serve
<1>6. a \in Int
  BY <1>1, <1>4, AddressesAreNumbers
<1> QED
  BY <1>2, <1>4, <1>5, <1>6

\* Every step of pop() keeps DrawnInv.
LEMMA DrawnStep ==
  ASSUME PoolInv, DrawnInv, [IpNext]_ipVars
  PROVE  DrawnInv'
<1>1. segments' = segments
  BY DEF IpNext, Call, LoopHead, Serve, Skip, Recycle, ipVars
<1>2. Segs' = Segs /\ Slots' = Slots /\ Total' = Total
  BY <1>1 DEF Segs, Slots, SlotsOf, Total
<1>3. \A s, i : Addresses(s, i)' = Addresses(s, i)
  BY <1>1 DEF Addresses, SlotSize
<1>4. CASE out' = out
  BY <1>2, <1>3, <1>4 DEF DrawnInv, Entry
<1>5. CASE Serve
  <2> DEFINE p == Probed
             c == current[Probed]
  <2>1. PICK a \in Addresses(p, c) :
          a \in Int /\ out' = Served(p, c, a) /\ <<p, c>> \in Slots
    BY <1>5, ServeAppends
  <2>2. segments \in Seq(Segment)
    BY DEF PoolInv
  <2> HIDE DEF p, c
  <2>3. /\ out' \in Seq(Entry) /\ Len(out') \in 1 .. Total
        /\ out'[Len(out')] = [slot |-> <<p, c>>, addr |-> a]
        /\ \A m \in 1 .. Len(out') - 1 :
             /\ m + (Len(out) + 1 - Len(out')) \in DOMAIN out
             /\ out'[m] = out[m + (Len(out) + 1 - Len(out'))]
    BY <2>1, <2>2, WindowMoves
  <2>4. Len(out') <= Total /\ DOMAIN out' = 1 .. Len(out')
    BY <2>2, <2>3, SlotFacts
  <2>5. \A m \in DOMAIN out' :
          /\ out'[m].slot \in Slots
          /\ out'[m].addr \in Addresses(out'[m].slot[1], out'[m].slot[2])
    <3> TAKE m \in DOMAIN out'
    <3>1. CASE m = Len(out')
      <4>1. out'[m].slot = <<p, c>> /\ out'[m].addr = a
        BY <2>3, <3>1
      <4> QED
        BY <2>1, <4>1
    <3>2. CASE m # Len(out')
      <4>1. m \in 1 .. Len(out') - 1
        BY <2>3, <2>4, <3>2
      <4>2. PICK n \in DOMAIN out : out'[m] = out[n]
        BY <2>3, <4>1
      <4> QED
        BY <4>2 DEF DrawnInv
    <3> QED
      BY <3>1, <3>2
  <2> QED
    BY <1>2, <1>3, <2>3, <2>4, <2>5 DEF DrawnInv, Entry
<1> QED
  BY <1>4, <1>5 DEF IpNext, Call, LoopHead, Skip, Recycle, ipVars

\* A new pool has served nothing.
LEMMA DrawnStart ==
  ASSUME IpInit
  PROVE  DrawnInv
<1>1. segments \in Seq(Segment) /\ out = <<>>
  BY PoolStart DEF IpInit, PoolInv
<1>2. Total \in Nat
  BY <1>1, SlotFacts
<1> QED
  BY <1>1, <1>2 DEF DrawnInv

\* DrawnInv holds from the start and for ever.
LEMMA DrawnInvariant == PoolSpec => []DrawnInv
  BY DrawnStart, DrawnStep, PoolInvariant, PTL DEF PoolSpec

\* For any widths, prefixes and counts: what is drawn for a prefix lies in it, and
\* different slots of it give different addresses (ip.rs:217-250, 134-147).
THEOREM SamplesAreSound == PoolSpec => []SamplesSound
<1>1. ASSUME PoolInv, DrawnInv PROVE SamplesSound
  <2>1. segments \in Seq(Segment) /\ \A s \in Segs : segments[s].total \in Nat
    BY <1>1, SegmentFacts DEF PoolInv
  <2>2. \A m \in DOMAIN out : out[m] \in Entry
    <3>1. out \in Seq(Entry)
      BY <1>1 DEF DrawnInv
    <3> QED
      BY <3>1, ElementOfSeq, LenProperties
  <2>3. ASSUME NEW m \in DOMAIN out
        PROVE  /\ out[m].slot[1] \in Segs
               /\ out[m].slot[2] \in 0 .. segments[out[m].slot[1]].total - 1
               /\ out[m].slot = <<out[m].slot[1], out[m].slot[2]>>
    <3>1. out[m] \in [slot : Segs \X Nat, addr : Int]
      BY <2>2 DEF Entry
    <3>2. out[m].slot = <<out[m].slot[1], out[m].slot[2]>> /\ out[m].slot \in Slots
      BY <1>1, <3>1 DEF DrawnInv
    <3> QED
      BY <2>1, <3>2, SlotFacts
  <2>4. ASSUME NEW n \in DOMAIN out, segments[out[n].slot[1]].kind = "cidr"
        PROVE  out[n].addr \in
                 segments[out[n].slot[1]].start .. segments[out[n].slot[1]].end
    BY <1>1, <2>1, <2>3, <2>4, SlotsApart DEF DrawnInv
  <2>5. ASSUME NEW m \in DOMAIN out, NEW n \in DOMAIN out,
               out[m].slot[1] = out[n].slot[1],
               segments[out[m].slot[1]].kind = "cidr",
               out[m].slot # out[n].slot
        PROVE  out[m].addr # out[n].addr
    <3> DEFINE s == out[m].slot[1]
               i == out[m].slot[2]
               j == out[n].slot[2]
    <3>1. /\ s \in Segs /\ i \in 0 .. segments[s].total - 1
          /\ j \in 0 .. segments[s].total - 1 /\ i # j
      BY <2>3, <2>5
    <3>2. /\ out[m].addr \in Addresses(s, i) /\ out[n].addr \in Addresses(s, j)
          /\ segments[s].kind = "cidr" /\ out[m].addr \in Int /\ out[n].addr \in Int
      <4>1. out[m].addr \in Int /\ out[n].addr \in Int
        BY <2>2 DEF Entry
      <4> QED
        BY <1>1, <2>5, <4>1 DEF DrawnInv
    <3> HIDE DEF s, i, j
    <3>3. CASE i < j
      <4>1. j \in i + 1 .. segments[s].total - 1
        BY <2>1, <3>1, <3>3
      <4>2. out[m].addr < out[n].addr
        BY <2>1, <3>1, <3>2, <4>1, SlotsApart
      <4> QED
        BY <3>2, <4>2
    <3>4. CASE j < i
      <4>1. i \in j + 1 .. segments[s].total - 1
        BY <2>1, <3>1, <3>4
      <4>2. out[n].addr < out[m].addr
        BY <2>1, <3>1, <3>2, <4>1, SlotsApart
      <4> QED
        BY <3>2, <4>2
    <3> QED
      BY <2>1, <3>1, <3>3, <3>4
  <2> QED
    BY <2>4, <2>5 DEF SamplesSound
<1> QED
  BY <1>1, PoolInvariant, DrawnInvariant, PTL

----------------------------------------------------------------------------
(* The order of a cycle *)

\* The segment that the scan of answer k probes after i others.
Turn(k, i) == ((k + i) % Len(segments)) + 1
Room(c, s) == c[s] < segments[s].total

\* The slot served after k answers, when the segments have given c.
Serves(c, k, slot) ==
  /\ slot \in Segs \X Nat /\ slot[2] = c[slot[1]]
  /\ \E i \in 0 .. Len(segments) - 1 :
       /\ slot[1] = Turn(k, i) /\ Room(c, Turn(k, i))
       /\ \A j \in 0 .. i - 1 : ~Room(c, Turn(k, j))

\* The first m answers of a cycle: f what the segments have given, q the slots.
CycleTo(f, q, m) ==
  /\ f \in [0 .. m -> [Segs -> Nat]] /\ q \in [0 .. m - 1 -> Segs \X Nat]
  /\ f[0] = [s \in Segs |-> 0]
  /\ \A k \in 0 .. m - 1 :
       Serves(f[k], k, q[k]) /\ f[k + 1] = [f[k] EXCEPT ![q[k][1]] = @ + 1]

\* As many probes as there are segments probe every one of them.
LEMMA TurnFacts ==
  ASSUME segments \in Seq(Segment), NEW k \in Nat, segments # <<>>
  PROVE  /\ \A i \in Nat : Turn(k, i) \in Segs
         /\ \A s \in Segs : \E i \in 0 .. Len(segments) - 1 : Turn(k, i) = s
<1> DEFINE n == Len(segments)
<1>1. Segs = 1 .. n /\ n \in Nat \ {0}
  BY SegmentFacts
<1> HIDE DEF n
<1>2. \A a \in Nat : a % n \in 0 .. n - 1
  BY <1>1
<1>3. \A i \in Nat : Turn(k, i) = ((k + i) % n) + 1
  BY DEF Turn, n
<1>4. ASSUME NEW i \in Nat PROVE Turn(k, i) \in Segs
  <2> DEFINE a == k + i
             x == a % n
  <2>1. x \in 0 .. n - 1
    <3>1. a \in Nat
      OBVIOUS
    <3> HIDE DEF a
    <3> QED
      BY <1>2, <3>1
  <2>2. Turn(k, i) = x + 1
    BY <1>3
  <2> HIDE DEF x
  <2> QED
    BY <1>1, <2>1, <2>2
<1>5. ASSUME NEW s \in Segs PROVE \E i \in 0 .. n - 1 : Turn(k, i) = s
  <2> DEFINE d == k \div n
             r == k % n
  <2>1. d \in Nat /\ r \in 0 .. n - 1 /\ k = d * n + r
    <3>1. d \in Nat
      BY <1>1
    <3>2. k = n * (k \div n) + (k % n)
      BY <1>1
    <3>3. n * (k \div n) = (k \div n) * n
      BY <1>1, <3>1
    <3> QED
      BY <1>1, <1>2, <3>1, <3>2, <3>3
  <2> HIDE DEF d, r
  <2>2. \A e \in Nat : \A t \in 0 .. n - 1 : (e * n + t) % n = t
    <3> TAKE e \in Nat
    <3> TAKE t \in 0 .. n - 1
    <3> QED
      BY <1>1
  <2>3. CASE r <= s - 1
    <3>1. (s - 1) - r \in 0 .. n - 1 /\ s - 1 \in 0 .. n - 1
      BY <1>1, <2>1, <2>3
    <3>2. k + ((s - 1) - r) = d * n + (s - 1)
      <4>1. d * n \in Int
        BY <1>1, <2>1
      <4> QED
        BY <1>1, <2>1, <4>1
    <3>3. (d * n + (s - 1)) % n = s - 1
      BY <2>1, <2>2, <3>1
    <3>4. Turn(k, (s - 1) - r) = (s - 1) + 1
      BY <1>3, <3>1, <3>2, <3>3
    <3> QED
      BY <1>1, <3>1, <3>4
  <2>4. CASE ~ (r <= s - 1)
    <3>1. ((s - 1) - r) + n \in 0 .. n - 1 /\ s - 1 \in 0 .. n - 1
      BY <1>1, <2>1, <2>4
    <3>2. k + (((s - 1) - r) + n) = (d + 1) * n + (s - 1)
      <4>1. d * n \in Int /\ (d + 1) * n = d * n + n
        BY <1>1, <2>1
      <4> QED
        BY <1>1, <2>1, <4>1
    <3>3. ((d + 1) * n + (s - 1)) % n = s - 1
      <4>1. d + 1 \in Nat
        BY <2>1
      <4> QED
        BY <2>2, <3>1, <4>1
    <3>4. Turn(k, ((s - 1) - r) + n) = (s - 1) + 1
      BY <1>3, <3>1, <3>2, <3>3
    <3> QED
      BY <1>1, <3>1, <3>4
  <2> QED
    BY <1>1, <2>1, <2>3, <2>4
<1> QED
  BY <1>4, <1>5 DEF n

\* The scan finds one slot.
LEMMA ServesOne ==
  ASSUME segments \in Seq(Segment), NEW c, NEW k, NEW a, NEW b,
         Serves(c, k, a), Serves(c, k, b)
  PROVE  a = b
<1>1. PICK i \in 0 .. Len(segments) - 1 :
        /\ a[1] = Turn(k, i) /\ Room(c, Turn(k, i))
        /\ \A j \in 0 .. i - 1 : ~Room(c, Turn(k, j))
  BY DEF Serves
<1>2. PICK h \in 0 .. Len(segments) - 1 :
        /\ b[1] = Turn(k, h) /\ Room(c, Turn(k, h))
        /\ \A j \in 0 .. h - 1 : ~Room(c, Turn(k, j))
  BY DEF Serves
<1>3. i = h
  BY <1>1, <1>2
<1>4. a = <<a[1], a[2]>> /\ b = <<b[1], b[2]>> /\ a[2] = c[a[1]] /\ b[2] = c[b[1]]
  BY DEF Serves
<1> QED
  BY <1>1, <1>2, <1>3, <1>4

\* The slots given so far.
GivenOf(c) == {x \in Slots : x[2] < c[x[1]]}

\* A cycle gives no segment's slot twice and passes none over.
LEMMA CycleCounts ==
  ASSUME segments \in Seq(Segment), NEW m \in Nat, NEW f, NEW q, CycleTo(f, q, m)
  PROVE  \A k \in 0 .. m :
           /\ \A s \in Segs : f[k][s] <= segments[s].total
           /\ Cardinality(GivenOf(f[k])) = k
<1> DEFINE Sound(k) ==
             /\ \A s \in Segs : f[k][s] <= segments[s].total
             /\ Cardinality(GivenOf(f[k])) = k
           S == {k \in Nat : k \in 0 .. m => Sound(k)}
<1>1. \A s \in Segs : segments[s].total \in Nat
  BY SegmentFacts
<1>2. \A k \in 0 .. m : f[k] \in [Segs -> Nat]
  BY DEF CycleTo
<1>3. 0 \in S
  <2>1. f[0] = [s \in Segs |-> 0]
    BY DEF CycleTo
  <2>2. ASSUME NEW x \in Slots PROVE ~ (x[2] < f[0][x[1]])
    <3>1. x[1] \in Segs /\ x[2] \in Nat
      <4>1. PICK s \in Segs : x \in SlotsOf(s)
        BY DEF Slots
      <4> QED
        BY <1>1, <4>1 DEF SlotsOf
    <3> QED
      BY <2>1, <3>1
  <2>3. GivenOf(f[0]) = {}
    BY <2>2 DEF GivenOf
  <2>4. Cardinality(GivenOf(f[0])) = 0
    BY <2>3, FS_EmptySet
  <2> QED
    BY <1>1, <2>1, <2>4
<1>4. ASSUME NEW k \in Nat, k \in S, k + 1 \in 0 .. m PROVE Sound(k + 1)
  <2> DEFINE t == q[k][1]
             c == f[k]
             d == f[k + 1]
  <2>1. /\ k \in 0 .. m - 1 /\ k \in 0 .. m /\ Sound(k)
    BY <1>4
  <2>2. /\ t \in Segs /\ q[k] = <<t, c[t]>> /\ Room(c, t)
        /\ d = [c EXCEPT ![t] = @ + 1]
    <3>1. Serves(c, k, q[k]) /\ d = [c EXCEPT ![t] = @ + 1]
      BY <2>1 DEF CycleTo
    <3>2. q[k] \in Segs \X Nat /\ q[k][2] = c[q[k][1]]
      BY <3>1 DEF Serves
    <3>3. Room(c, t)
      BY <3>1 DEF Serves
    <3>4. q[k] = <<q[k][1], q[k][2]>> /\ q[k][1] \in Segs
      BY <3>2
    <3> QED
      BY <3>1, <3>2, <3>3, <3>4
  <2>3. c \in [Segs -> Nat]
    BY <1>2, <2>1
  <2>4. Cardinality(GivenOf(c)) = k /\ \A s \in Segs : c[s] <= segments[s].total
    BY <2>1
  <2> HIDE DEF c, d, t
  <2>5. d[t] = c[t] + 1 /\ \A s \in Segs \ {t} : d[s] = c[s]
    BY <2>2, <2>3
  <2>6. \A s \in Segs : d[s] <= segments[s].total
    BY <1>1, <2>2, <2>3, <2>4, <2>5 DEF Room
  <2>7. <<t, c[t]>> \in Slots /\ IsFiniteSet(Slots)
    BY <1>1, <2>2, <2>3, SlotFacts DEF Room
  <2>8. GivenOf(d) = GivenOf(c) \cup {<<t, c[t]>>}
    <3>1. ASSUME NEW x \in Slots
          PROVE  x[2] < d[x[1]] <=> x[2] < c[x[1]] \/ x = <<t, c[t]>>
      <4>1. x[1] \in Segs /\ x[2] \in Nat /\ x = <<x[1], x[2]>>
        <5>1. PICK s \in Segs : x \in SlotsOf(s)
          BY DEF Slots
        <5> QED
          BY <1>1, <5>1 DEF SlotsOf
      <4>2. CASE x[1] = t
        BY <2>3, <2>5, <4>1, <4>2
      <4>3. CASE x[1] # t
        BY <2>5, <4>1, <4>3
      <4> QED
        BY <4>2, <4>3
    <3> QED
      BY <2>7, <3>1 DEF GivenOf
  <2>9. <<t, c[t]>> \notin GivenOf(c)
    BY <2>2, <2>3 DEF GivenOf
  <2>10. IsFiniteSet(GivenOf(c))
    BY <2>7, FS_Subset DEF GivenOf
  <2>11. Cardinality(GivenOf(d)) = k + 1
    BY <2>4, <2>8, <2>9, <2>10, FS_AddElement
  <2> QED
    BY <2>6, <2>11 DEF d
<1>5. Nat \subseteq S
  <2>1. \A k \in Nat : k \in S => k + 1 \in S
    BY <1>4
  <2> HIDE DEF S
  <2> QED
    BY <1>3, <2>1, SetInduction
<1> QED
  BY <1>5

\* There is room while fewer than Total answers have been given.
LEMMA RoomLeft ==
  ASSUME segments \in Seq(Segment), NEW m \in Nat, NEW f, NEW q, CycleTo(f, q, m),
         NEW k \in 0 .. m
  PROVE  k <= Total /\ (k < Total <=> \E s \in Segs : Room(f[k], s))
<1> DEFINE c == f[k]
<1>1. c \in [Segs -> Nat] /\ Cardinality(GivenOf(c)) = k
  <2>1. c \in [Segs -> Nat]
    BY DEF CycleTo
  <2>2. Cardinality(GivenOf(c)) = k
    BY CycleCounts
  <2> QED
    BY <2>1, <2>2
<1>2. /\ IsFiniteSet(Slots) /\ Total \in Nat
      /\ \A s \in Segs : segments[s].total \in Nat
  BY SlotFacts, SegmentFacts
<1> HIDE DEF c
<1>3. GivenOf(c) \subseteq Slots
  BY DEF GivenOf
<1>4. k <= Total /\ (k = Total => GivenOf(c) = Slots)
  BY <1>1, <1>2, <1>3, FS_Subset DEF Total
<1>5. ASSUME NEW s \in Segs, Room(c, s) PROVE k < Total
  <2>1. <<s, c[s]>> \in Slots
    BY <1>1, <1>2, <1>5, SlotFacts DEF Room
  <2>2. <<s, c[s]>> \notin GivenOf(c)
    BY <1>1 DEF GivenOf
  <2> QED
    BY <1>2, <1>4, <2>1, <2>2
<1>6. ASSUME \A s \in Segs : ~Room(c, s) PROVE k = Total
  <2>1. ASSUME NEW x \in Slots PROVE x \in GivenOf(c)
    <3>1. PICK s \in Segs : x \in SlotsOf(s)
      BY DEF Slots
    <3>2. x[1] = s /\ x[2] \in 0 .. segments[s].total - 1
      BY <3>1 DEF SlotsOf
    <3>3. segments[s].total <= c[s]
      BY <1>1, <1>2, <1>6 DEF Room
    <3> QED
      BY <1>1, <1>2, <3>2, <3>3 DEF GivenOf
  <2>2. GivenOf(c) = Slots
    BY <1>3, <2>1
  <2> QED
    BY <1>1, <2>2 DEF Total
<1> QED
  BY <1>2, <1>4, <1>5, <1>6 DEF c

\* A cycle of Total answers exists: while slots are left, a scan finds one.
LEMMA CycleExists ==
  ASSUME segments \in Seq(Segment)
  PROVE  \E f, q : CycleTo(f, q, Total)
<1> DEFINE S == {m \in Nat : m <= Total => \E f, q : CycleTo(f, q, m)}
<1>1. Total \in Nat /\ Segs = 1 .. Len(segments) /\ Len(segments) \in Nat
  BY SlotFacts, SegmentFacts
<1>2. 0 \in S
  <2> DEFINE f == [k \in 0 .. 0 |-> [s \in Segs |-> 0]]
             q == [k \in 0 .. 0 - 1 |-> <<1, 0>>]
  <2>1. CycleTo(f, q, 0)
    <3>1. q \in [0 .. 0 - 1 -> Segs \X Nat]
      OBVIOUS
    <3>2. f \in [0 .. 0 -> [Segs -> Nat]] /\ f[0] = [s \in Segs |-> 0]
      OBVIOUS
    <3>3. 0 .. 0 - 1 = {}
      OBVIOUS
    <3> HIDE DEF f, q
    <3> QED
      BY <3>1, <3>2, <3>3 DEF CycleTo
  <2> HIDE DEF f, q
  <2> QED
    BY <2>1
<1>3. ASSUME NEW m \in Nat, m \in S, m + 1 <= Total
      PROVE  \E f, q : CycleTo(f, q, m + 1)
  <2>1. m < Total /\ m \in 0 .. m
    BY <1>1, <1>3
  <2>2. PICK f, q : CycleTo(f, q, m)
    BY <1>1, <1>3, <2>1
  <2>3. PICK s \in Segs : Room(f[m], s)
    BY <2>1, <2>2, RoomLeft
  <2>4. segments # <<>>
    BY <1>1, <2>3
  <2> DEFINE open == {i \in Nat : i < Len(segments) /\ Room(f[m], Turn(m, i))}
  <2>5. PICK i \in open : \A j \in open : i <= j
    <3>1. open # {} /\ open \in SUBSET Nat
      <4>1. PICK i \in 0 .. Len(segments) - 1 : Turn(m, i) = s
        BY <2>4, TurnFacts
      <4>2. i \in open
        BY <1>1, <2>3, <4>1
      <4> QED
        BY <4>2
    <3> HIDE DEF open
    <3> QED
      BY <3>1, LeastOfSet
  <2> DEFINE t == Turn(m, i)
             c == f[m]
             slot == <<t, c[t]>>
             g == [k \in 0 .. m + 1 |->
                     IF k = m + 1 THEN [c EXCEPT ![t] = @ + 1] ELSE f[k]]
             r == [k \in 0 .. (m + 1) - 1 |-> IF k = m THEN slot ELSE q[k]]
  <2>6. t \in Segs
    BY <2>4, TurnFacts
  <2>7. /\ f \in [0 .. m -> [Segs -> Nat]] /\ q \in [0 .. m - 1 -> Segs \X Nat]
        /\ f[0] = [u \in Segs |-> 0] /\ c \in [Segs -> Nat]
    <3>1. /\ f \in [0 .. m -> [Segs -> Nat]] /\ q \in [0 .. m - 1 -> Segs \X Nat]
          /\ f[0] = [u \in Segs |-> 0]
      BY <2>2 DEF CycleTo
    <3> HIDE DEF open, slot, g, r, t
    <3> QED
      BY <2>1, <3>1
  <2>8. slot \in Segs \X Nat /\ slot[1] = t /\ slot[2] = c[t]
    BY <2>6, <2>7
  <2>9. Serves(c, m, slot)
    <3>1. i \in 0 .. Len(segments) - 1 /\ Room(c, Turn(m, i))
      BY <1>1, <2>5
    <3>2. \A j \in 0 .. i - 1 : ~Room(c, Turn(m, j))
      <4> SUFFICES ASSUME NEW j \in 0 .. i - 1, Room(c, Turn(m, j)) PROVE FALSE
        OBVIOUS
      <4>1. j \in open
        BY <1>1, <3>1
      <4> QED
        BY <2>5, <3>1, <4>1
    <3> QED
      BY <2>8, <3>1, <3>2 DEF Serves
  <2> HIDE DEF slot, c, t, open
  <2>10. g \in [0 .. m + 1 -> [Segs -> Nat]]
    <3>1. [c EXCEPT ![t] = @ + 1] \in [Segs -> Nat]
      BY <2>6, <2>7
    <3> QED
      BY <2>7, <3>1
  <2>11. r \in [0 .. (m + 1) - 1 -> Segs \X Nat]
    <3>1. ASSUME NEW k \in 0 .. (m + 1) - 1
          PROVE  (IF k = m THEN slot ELSE q[k]) \in Segs \X Nat
      <4>1. k = m \/ k \in 0 .. m - 1
        OBVIOUS
      <4> QED
        BY <2>7, <2>8, <4>1
    <3> QED
      BY <3>1
  <2>12. /\ \A k \in 0 .. m : g[k] = f[k]
         /\ g[m + 1] = [c EXCEPT ![t] = @ + 1] /\ r[m] = slot
         /\ \A k \in 0 .. m - 1 : r[k] = q[k]
    OBVIOUS
  <2> HIDE DEF g, r
  <2>13. ASSUME NEW k \in 0 .. (m + 1) - 1
         PROVE  Serves(g[k], k, r[k]) /\ g[k + 1] = [g[k] EXCEPT ![r[k][1]] = @ + 1]
    <3>1. CASE k = m
      <4>1. g[k] = c /\ r[k] = slot /\ g[k + 1] = [c EXCEPT ![t] = @ + 1]
        BY <2>12, <3>1 DEF c
      <4> QED
        BY <2>8, <2>9, <3>1, <4>1
    <3>2. CASE k # m
      <4>1. k \in 0 .. m - 1 /\ k \in 0 .. m /\ k + 1 \in 0 .. m
        BY <3>2
      <4>2. g[k] = f[k] /\ g[k + 1] = f[k + 1] /\ r[k] = q[k]
        BY <2>12, <4>1
      <4> QED
        BY <2>2, <4>1, <4>2 DEF CycleTo
    <3> QED
      BY <3>1, <3>2
  <2>14. CycleTo(g, r, m + 1)
    <3>1. g[0] = [u \in Segs |-> 0]
      BY <2>7, <2>12
    <3> QED
      BY <2>10, <2>11, <2>13, <3>1 DEF CycleTo
  <2> QED
    BY <2>14
<1>4. Nat \subseteq S
  <2>1. \A m \in Nat : m \in S => m + 1 \in S
    BY <1>3
  <2> HIDE DEF S
  <2> QED
    BY <1>2, <2>1, SetInduction
<1> QED
  BY <1>1, <1>4

\* The slots of a cycle are all different.
LEMMA CycleDistinct ==
  ASSUME segments \in Seq(Segment), NEW m \in Nat, NEW f, NEW q, CycleTo(f, q, m),
         NEW j \in 0 .. m - 1, NEW k \in 0 .. m - 1, j < k
  PROVE  q[j] # q[k]
<1> DEFINE s == q[j][1]
           S == {l \in Nat : j + 1 + l <= m => f[j + 1][s] <= f[j + 1 + l][s]}
<1>1. \A l \in 0 .. m : f[l] \in [Segs -> Nat]
  BY DEF CycleTo
<1>2. \A l \in 0 .. m - 1 :
        /\ q[l][1] \in Segs /\ q[l][2] = f[l][q[l][1]]
        /\ f[l + 1] = [f[l] EXCEPT ![q[l][1]] = @ + 1]
  BY DEF CycleTo, Serves
<1>3. s \in Segs
  BY <1>2
<1> HIDE DEF s
<1>4. f[j + 1][s] = f[j][s] + 1
  <2>1. f[j + 1] = [f[j] EXCEPT ![s] = @ + 1]
    BY <1>2 DEF s
  <2>2. f[j] \in [Segs -> Nat]
    BY <1>1
  <2> QED
    BY <1>3, <2>1, <2>2
<1>5. 0 \in S
  <2>1. j + 1 + 0 = j + 1 /\ j + 1 \in 0 .. m
    OBVIOUS
  <2>2. f[j + 1][s] \in Nat
    BY <1>1, <1>3, <2>1
  <2> QED
    BY <2>1, <2>2
<1>6. ASSUME NEW l \in Nat, l \in S, j + 1 + (l + 1) <= m
      PROVE  f[j + 1][s] <= f[j + 1 + (l + 1)][s]
  <2> DEFINE h == j + 1 + l
  <2>1. h \in 0 .. m - 1 /\ h + 1 = j + 1 + (l + 1) /\ h <= m /\ h \in 0 .. m
        /\ j + 1 \in 0 .. m
    <3>1. j + 1 + (l + 1) <= m /\ l \in Nat /\ j \in Nat
      BY <1>6
    <3> HIDE DEF S
    <3> QED
      BY <3>1
  <2>2. f[j + 1][s] <= f[h][s]
    BY <1>6, <2>1
  <2> HIDE DEF h
  <2>3. f[h][s] \in Nat /\ f[j + 1][s] \in Nat /\ f[h] \in [Segs -> Nat]
    BY <1>1, <1>3, <2>1
  <2>4. f[h + 1][s] >= f[h][s] /\ f[h + 1][s] \in Nat
    <3> DEFINE u == q[h][1]
    <3>1. f[h + 1] = [f[h] EXCEPT ![u] = @ + 1] /\ u \in Segs
      BY <1>2, <2>1
    <3> HIDE DEF u
    <3> QED
      BY <1>3, <2>3, <3>1
  <2> QED
    BY <2>1, <2>2, <2>3, <2>4
<1>7. Nat \subseteq S
  <2>1. ASSUME NEW l \in Nat, l \in S PROVE l + 1 \in S
    <3>1. j + 1 + (l + 1) <= m => f[j + 1][s] <= f[j + 1 + (l + 1)][s]
      BY <1>6, <2>1
    <3>2. l + 1 \in Nat
      OBVIOUS
    <3> QED
      BY <3>1, <3>2
  <2> HIDE DEF S
  <2> QED
    BY <1>5, <2>1, SetInduction
<1>8. f[j + 1][s] <= f[k][s]
  <2>1. k - (j + 1) \in Nat /\ j + 1 + (k - (j + 1)) = k /\ k <= m
    OBVIOUS
  <2> QED
    BY <1>7, <2>1
<1>9. CASE q[j] = q[k]
  <2>1. q[j][2] = f[j][s] /\ q[k][2] = f[k][s]
    BY <1>2, <1>9 DEF s
  <2>2. f[j][s] \in Nat /\ f[k][s] \in Nat
    BY <1>1, <1>3
  <2> QED
    BY <1>4, <1>8, <1>9, <2>1, <2>2
<1> QED
  BY <1>9

----------------------------------------------------------------------------
(* A sweep *)

\* The answers of this cycle so far.
Answers == IF pc \in {"idle", "head"} THEN cursor ELSE scan.start

\* Where the m-th of the last len answers stands in its cycle, when this one has
\* given k: an answer of the cycle before stands where this one has yet to come.
Position(k, len, m) ==
  LET p == k + m - 1 - len IN IF p >= 0 THEN p ELSE p + Total

\* A cycle goes as every other, and the last answers are those of one.
SweepAt(f, q) ==
  /\ Answers \in 0 .. Total
  /\ pc = "scan" => cursor = scan.start + 1
  /\ \A s \in Segs : f[Answers][s] = AtMost(current[s], segments[s].total)
  /\ pc = "scan" => \A j \in 0 .. scan.i - 1 : Exhausted(Turn(scan.start, j))
  /\ pc = "recycle" => \A s \in Segs : Exhausted(s)
  /\ \A m \in 1 .. Len(out) : out[m].slot = q[Position(Answers, Len(out), m)]

SweepInv == \A f, q : CycleTo(f, q, Total) => SweepAt(f, q)

\* Every step of pop() goes on in the order of the cycle.
LEMMA SweepStep ==
  ASSUME PoolInv, DrawnInv, NEW f, NEW q, CycleTo(f, q, Total), SweepAt(f, q),
         [IpNext]_ipVars
  PROVE  SweepAt(f, q)'
<1>1. segments' = segments
  BY DEF IpNext, Call, LoopHead, Serve, Skip, Recycle, ipVars
<1>2. Segs' = Segs /\ Slots' = Slots /\ Total' = Total
  BY <1>1 DEF Segs, Slots, SlotsOf, Total
<1>3. /\ \A k, i : Turn(k, i)' = Turn(k, i)
      /\ \A k, len, m : Position(k, len, m)' = Position(k, len, m)
  BY <1>1, <1>2 DEF Turn, Position
<1>4. /\ segments \in Seq(Segment) /\ Total \in Nat
      /\ \A s \in Segs : segments[s].total \in Nat
      /\ current \in [Segs -> Nat] /\ cursor \in Nat
      /\ scan.start \in Nat /\ scan.i \in Nat
      /\ out \in Seq(Entry) /\ Len(out) \in 0 .. Total
  BY SlotFacts, SegmentFacts DEF PoolInv, DrawnInv, Entry
<1>5. \A k \in 0 .. Total : f[k] \in [Segs -> Nat]
  BY DEF CycleTo
<1>6. CASE Call \/ UNCHANGED ipVars
  <2>1. /\ Answers' = Answers /\ UNCHANGED <<segments, current, scan, out, cursor>>
        /\ pc' # "head" => pc' = pc
    BY <1>6 DEF Call, Answers, ipVars, poolVars
  <2>2. pc' = "scan" => pc = "scan"
    BY <1>6, <2>1 DEF Call, ipVars
  <2>3. pc' = "recycle" => pc = "recycle"
    BY <1>6, <2>1 DEF Call, ipVars
  <2> QED
    BY <1>2, <1>3, <2>1, <2>2, <2>3 DEF SweepAt, Exhausted, HasSlot
<1>7. CASE LoopHead
  <2>1. /\ pc = "head" /\ Answers = cursor
        /\ UNCHANGED <<segments, current, out>>
    BY <1>7 DEF LoopHead, Answers
  <2>2. CASE active = 0
    <3>1. pc' = "idle" /\ cursor' = cursor /\ Answers' = Answers
      BY <1>7, <2>1, <2>2 DEF LoopHead, Answers
    <3> QED
      BY <1>2, <1>3, <2>1, <3>1 DEF SweepAt
  <2>3. CASE active # 0
    <3>1. pc' = "scan" /\ scan' = [start |-> cursor, i |-> 0] /\ cursor' = cursor + 1
      BY <1>7, <2>3 DEF LoopHead
    <3>2. Answers' = Answers /\ scan'.i = 0 /\ scan'.start = cursor
      BY <2>1, <3>1 DEF Answers
    <3>3. 0 .. scan'.i - 1 = {}
      BY <3>2
    <3> QED
      BY <1>2, <1>3, <2>1, <3>1, <3>2, <3>3 DEF SweepAt
  <2> QED
    BY <2>2, <2>3
<1>8. CASE Serve
  <2> DEFINE k == scan.start
             p == Probed
             c == current[Probed]
  <2>1. /\ pc = "scan" /\ HasSlot(p) /\ pc' = "idle" /\ cursor' = cursor
        /\ current' = [current EXCEPT ![p] = @ + 1]
    BY <1>8 DEF Serve
  <2>2. Answers = k /\ Answers' = k + 1 /\ k \in 0 .. Total
    BY <2>1 DEF Answers, SweepAt
  <2>3. p \in Segs /\ c < segments[p].total /\ segments # <<>> /\ c \in Nat
    BY <1>4, <2>1, ProbedFacts DEF HasSlot
  <2>4. /\ p = Turn(k, scan.i) /\ scan.i \in 0 .. Len(segments) - 1
        /\ \A j \in 0 .. scan.i - 1 : Turn(k, j) \in Segs /\ Exhausted(Turn(k, j))
    <3>1. p = Turn(k, scan.i)
      BY DEF Probed, Turn
    <3>2. scan.i \in 0 .. Len(segments) - 1
      BY <1>4, <2>1, SegmentFacts DEF PoolInv
    <3>3. ASSUME NEW j \in 0 .. scan.i - 1 PROVE Turn(k, j) \in Segs
      <4>1. j \in Nat /\ k \in Nat
        BY <1>4
      <4> HIDE DEF k
      <4> QED
        BY <1>4, <2>3, <4>1, TurnFacts
    <3> QED
      BY <2>1, <3>1, <3>2, <3>3 DEF SweepAt
  <2>5. \A s \in Segs : f[k][s] = AtMost(current[s], segments[s].total)
    BY <2>2 DEF SweepAt
  <2>6. \A s \in Segs : Room(f[k], s) <=> ~Exhausted(s)
    BY <1>4, <2>5 DEF Room, Exhausted, HasSlot, AtMost
  <2>7. f[k][p] = c
    BY <1>4, <2>3, <2>5 DEF AtMost
  <2>8. k < Total
    <3>1. Room(f[k], p)
      BY <2>1, <2>3, <2>6 DEF Exhausted
    <3> QED
      BY <1>4, <2>2, <2>3, <3>1, RoomLeft
  <2>9. Serves(f[k], k, q[k]) /\ f[k + 1] = [f[k] EXCEPT ![q[k][1]] = @ + 1]
    <3>1. k \in 0 .. Total - 1
      BY <1>4, <2>2, <2>8
    <3> HIDE DEF k
    <3> QED
      BY <3>1 DEF CycleTo
  <2>10. Serves(f[k], k, <<p, c>>)
    <3>1. Room(f[k], Turn(k, scan.i)) /\ \A j \in 0 .. scan.i - 1 : ~Room(f[k], Turn(k, j))
      BY <2>1, <2>3, <2>4, <2>6 DEF Exhausted
    <3>2. <<p, c>> \in Segs \X Nat /\ <<p, c>>[1] = p /\ <<p, c>>[2] = c
      BY <2>3
    <3> HIDE DEF k, p, c
    <3> QED
      BY <2>4, <2>7, <3>1, <3>2 DEF Serves
  <2>11. q[k] = <<p, c>>
    <3> HIDE DEF k, p, c
    <3> QED
      BY <1>4, <2>9, <2>10, ServesOne
  <2>12. \A s \in Segs : f[k + 1][s] = AtMost(current'[s], segments[s].total)
    <3> HIDE DEF k, p, c
    <3> TAKE s \in Segs
    <3>1. f[k + 1] = [f[k] EXCEPT ![p] = @ + 1]
      BY <2>9, <2>11
    <3>2. f[k] \in [Segs -> Nat]
      BY <1>5, <2>2
    <3>3. CASE s = p
      <4>1. f[k + 1][s] = c + 1
        BY <2>3, <2>7, <3>1, <3>2, <3>3
      <4>2. current'[s] = c + 1
        BY <1>4, <2>1, <2>3, <3>3 DEF c, p
      <4> QED
        BY <1>4, <2>3, <3>3, <4>1, <4>2 DEF AtMost
    <3>4. CASE s # p
      <4>1. f[k + 1][s] = f[k][s] /\ current'[s] = current[s]
        BY <1>4, <2>1, <2>3, <3>1, <3>2, <3>4
      <4> QED
        BY <2>5, <4>1
    <3> QED
      BY <3>3, <3>4
  <2>13. PICK a \in Int : out' = Served(p, c, a) /\ <<p, c>> \in Slots
    BY <1>8, ServeAppends
  <2> DEFINE shift == Len(out) + 1 - Len(out')
  <2>14. /\ out' \in Seq(Entry) /\ Len(out') \in 1 .. Total /\ shift \in {0, 1}
         /\ out'[Len(out')] = [slot |-> <<p, c>>, addr |-> a]
         /\ \A m \in 1 .. Len(out') - 1 :
              m + shift \in DOMAIN out /\ out'[m] = out[m + shift]
    <3> HIDE DEF k, p, c
    <3> QED
      BY <1>4, <2>13, WindowMoves
  <2>15. \A m \in 1 .. Len(out') : out'[m].slot = q[Position(k + 1, Len(out'), m)]
    <3> HIDE DEF k, p, c
    <3> TAKE m \in 1 .. Len(out')
    <3>1. CASE m = Len(out')
      <4>1. Position(k + 1, Len(out'), m) = k
        BY <1>4, <2>2, <2>14, <3>1 DEF Position
      <4>2. out'[m].slot = <<p, c>>
        BY <2>14, <3>1
      <4> QED
        BY <2>11, <4>1, <4>2
    <3>2. CASE m # Len(out')
      <4>1. m \in 1 .. Len(out') - 1
        BY <2>14, <3>2
      <4>2. m + shift \in 1 .. Len(out) /\ out'[m] = out[m + shift]
        BY <1>4, <2>14, <4>1
      <4>3. Position(k + 1, Len(out'), m) = Position(k, Len(out), m + shift)
        BY <1>4, <2>2, <2>14, <4>1, SMTT(40) DEF Position
      <4>4. out[m + shift].slot = q[Position(k, Len(out), m + shift)]
        BY <2>2, <4>2 DEF SweepAt
      <4> QED
        BY <4>2, <4>3, <4>4
    <3> QED
      BY <3>1, <3>2
  <2>16. k + 1 \in 0 .. Total
    BY <1>4, <2>2, <2>8
  <2> HIDE DEF k, p, c
  <2> QED
    BY <1>1, <1>2, <1>3, <2>1, <2>2, <2>12, <2>15, <2>16 DEF SweepAt
<1>9. CASE Skip
  <2>1. /\ pc = "scan" /\ ~HasSlot(Probed) /\ NextSegment
        /\ current' = [current EXCEPT ![Probed] = @ + 1]
        /\ UNCHANGED <<segments, cursor, out>>
    BY <1>9 DEF Skip
  <2> DEFINE k == scan.start
             p == Probed
  <2>2. p \in Segs /\ segments # <<>> /\ Len(segments) \in Nat \ {0}
    BY <2>1, ProbedFacts
  <2>3. /\ pc' \in {"scan", "recycle"} /\ scan'.start = k
        /\ pc' = "scan" => scan'.i = scan.i + 1
        /\ pc' = "recycle" => scan.i + 1 >= Len(segments)
    BY <1>4, <2>1, <2>2 DEF NextSegment, PoolInv
  <2>4. Answers = k /\ Answers' = k
    BY <2>1, <2>3 DEF Answers
  <2>5. \A s \in Segs : current'[s] >= current[s] /\ (s # p => current'[s] = current[s])
    <3>1. current' = [current EXCEPT ![p] = @ + 1]
      BY <2>1
    <3> HIDE DEF p
    <3> QED
      BY <1>4, <2>2, <3>1
  <2>6. \A s \in Segs : Exhausted(s) => Exhausted(s)'
    BY <1>1, <1>4, <2>1, <2>5 DEF Exhausted, HasSlot
  <2>7. \A j \in 0 .. scan.i : Turn(k, j) \in Segs /\ Exhausted(Turn(k, j))
    <3> TAKE j \in 0 .. scan.i
    <3>1. Turn(k, j) \in Segs
      <4>1. j \in Nat /\ k \in Nat
        BY <1>4
      <4> HIDE DEF k, p
      <4> QED
        BY <1>4, <2>2, <4>1, TurnFacts
    <3>2. CASE j = scan.i
      <4>1. Turn(k, j) = p
        BY <3>2 DEF Probed, Turn
      <4> QED
        BY <2>1, <3>1, <4>1 DEF Exhausted
    <3>3. CASE j # scan.i
      <4>1. j \in 0 .. scan.i - 1
        BY <1>4, <3>3
      <4> QED
        BY <2>1, <3>1, <4>1 DEF SweepAt
    <3> QED
      BY <3>2, <3>3
  <2>8. \A s \in Segs : f[k][s] = AtMost(current'[s], segments[s].total)
    <3> TAKE s \in Segs
    <3>1. f[k][s] = AtMost(current[s], segments[s].total)
      BY <2>4 DEF SweepAt
    <3>2. CASE s = p
      <4>1. current[s] >= segments[s].total
        BY <1>4, <2>1, <2>2, <3>2 DEF HasSlot
      <4>2. current'[s] >= current[s] /\ current'[s] \in Nat
        <5>1. current' = [current EXCEPT ![p] = @ + 1]
          BY <2>1
        <5> HIDE DEF p
        <5> QED
          BY <1>4, <2>2, <5>1
      <4> QED
        BY <1>4, <3>1, <4>1, <4>2 DEF AtMost
    <3>3. CASE s # p
      BY <2>5, <3>1, <3>3
    <3> QED
      BY <3>2, <3>3
  <2>9. pc' = "scan" => \A j \in 0 .. scan'.i - 1 : Exhausted(Turn(k, j))'
    <3> SUFFICES ASSUME pc' = "scan", NEW j \in 0 .. scan'.i - 1
                 PROVE  Exhausted(Turn(k, j))'
      OBVIOUS
    <3>1. j \in 0 .. scan.i
      BY <1>4, <2>3
    <3>2. Turn(k, j) \in Segs /\ Exhausted(Turn(k, j))
      BY <2>7, <3>1
    <3>3. Exhausted(Turn(k, j))' <=> ~ (current'[Turn(k, j)] < segments[Turn(k, j)].total)
      BY <1>1, <2>3 DEF Exhausted, HasSlot, Turn
    <3>4. ASSUME NEW t \in Segs, Exhausted(t) PROVE ~ (current'[t] < segments[t].total)
      BY <1>1, <2>6, <3>4 DEF Exhausted, HasSlot
    <3> QED
      BY <3>2, <3>3, <3>4
  <2>10. pc' = "recycle" => \A s \in Segs : Exhausted(s)'
    <3> SUFFICES ASSUME pc' = "recycle", NEW s \in Segs PROVE Exhausted(s)'
      OBVIOUS
    <3>1. PICK j \in 0 .. Len(segments) - 1 : Turn(k, j) = s
      BY <1>4, <2>2, TurnFacts
    <3>2. j \in 0 .. scan.i
      BY <1>4, <2>2, <2>3
    <3> QED
      BY <2>6, <2>7, <3>1, <3>2
  <2> HIDE DEF p
  <2> QED
    BY <1>1, <1>2, <1>3, <2>1, <2>3, <2>4, <2>8, <2>9, <2>10 DEF SweepAt
<1>10. CASE Recycle
  <2>1. /\ pc = "recycle" /\ pc' = "head" /\ cursor' = 0 /\ out' = out
        /\ current' = [s \in Segs |-> 0]
    BY <1>10 DEF Recycle, Rewound, Restart
  <2> DEFINE k == Answers
  <2>2. k \in 0 .. Total /\ Answers' = 0
    BY <2>1 DEF SweepAt, Answers
  <2>3. \A s \in Segs : ~Room(f[k], s)
    <3>1. \A s \in Segs : f[k][s] = AtMost(current[s], segments[s].total) /\ Exhausted(s)
      BY <2>1 DEF SweepAt
    <3> QED
      BY <1>4, <3>1 DEF Room, Exhausted, HasSlot, AtMost
  <2> HIDE DEF k
  <2>4. k = Total
    <3>1. ~ (k < Total)
      BY <1>4, <2>2, <2>3, RoomLeft
    <3> QED
      BY <1>4, <2>2, <3>1
  <2>5. \A s \in Segs : f[0][s] = AtMost(current'[s], segments[s].total)
    <3>1. f[0] = [s \in Segs |-> 0]
      BY DEF CycleTo
    <3> QED
      BY <1>4, <2>1, <3>1 DEF AtMost
  <2>6. \A m \in 1 .. Len(out) : out[m].slot = q[Position(0, Len(out), m)]
    <3> TAKE m \in 1 .. Len(out)
    <3>1. Position(0, Len(out), m) = Position(Total, Len(out), m)
      BY <1>4 DEF Position
    <3> QED
      BY <2>4, <3>1 DEF SweepAt, k
  <2>7. 0 \in 0 .. Total
    BY <1>4
  <2> QED
    BY <1>1, <1>2, <1>3, <2>1, <2>2, <2>5, <2>6, <2>7 DEF SweepAt
<1> QED
  BY <1>6, <1>7, <1>8, <1>9, <1>10 DEF IpNext

\* A new pool stands before the first answer of a cycle.
LEMMA SweepStart ==
  ASSUME IpInit, NEW f, NEW q, CycleTo(f, q, Total)
  PROVE  SweepAt(f, q)
<1>1. segments \in Seq(Segment) /\ \A s \in Segs : segments[s].total \in Nat
  BY PoolStart, SegmentFacts DEF PoolInv
<1>2. Total \in Nat
  BY <1>1, SlotFacts
<1>3. Answers = 0 /\ 0 \in 0 .. Total /\ Len(out) = 0 /\ pc = "idle"
  BY <1>2 DEF IpInit, Answers
<1>4. \A s \in Segs : f[0][s] = 0 /\ current[s] = 0
  BY DEF CycleTo, IpInit
<1> QED
  BY <1>1, <1>3, <1>4 DEF SweepAt, AtMost

\* SweepInv holds from the start and for ever.
LEMMA SweepInvariant == PoolSpec => []SweepInv
<1>1. IpInit => SweepInv
  BY SweepStart DEF SweepInv
<1>2. ASSUME PoolInv, DrawnInv, SweepInv, [IpNext]_ipVars PROVE SweepInv'
  <2> SUFFICES ASSUME NEW f, NEW q, CycleTo(f, q, Total)' PROVE SweepAt(f, q)'
    BY DEF SweepInv
  <2>1. segments' = segments
    BY <1>2 DEF IpNext, Call, LoopHead, Serve, Skip, Recycle, ipVars
  <2>2. CycleTo(f, q, Total)
    <3>1. Segs' = Segs /\ Total' = Total
      BY <2>1 DEF Total, Slots, SlotsOf, Segs
    <3>2. ASSUME NEW c, NEW k, NEW slot PROVE Serves(c, k, slot)' <=> Serves(c, k, slot)
      BY <2>1, <3>1 DEF Serves, Turn, Room
    <3>3. CycleTo(f, q, Total)' <=> CycleTo(f, q, Total)
      BY <3>1, <3>2, Zenon DEF CycleTo
    <3> QED
      BY <3>3
  <2> QED
    BY <1>2, <2>2, SweepStep DEF SweepInv
<1> QED
  BY <1>1, <1>2, PoolInvariant, DrawnInvariant, PTL DEF PoolSpec

\* The scan of an answer probes no segment twice.
LEMMA TurnsDiffer ==
  ASSUME segments \in Seq(Segment), NEW k \in Nat, segments # <<>>,
         NEW i \in 0 .. Len(segments) - 1, NEW j \in 0 .. Len(segments) - 1, i # j
  PROVE  Turn(k, i) # Turn(k, j)
<1> DEFINE n == Len(segments)
           d == k \div n
           r == k % n
<1>1. n \in Nat \ {0} /\ i \in 0 .. n - 1 /\ j \in 0 .. n - 1
  BY SegmentFacts
<1>2. \A h \in Nat : Turn(k, h) = ((k + h) % n) + 1
  BY DEF Turn
<1> HIDE DEF n
<1>3. d \in Nat /\ r \in 0 .. n - 1 /\ k = d * n + r
  <2>1. d \in Nat /\ k % n \in 0 .. n - 1
    BY <1>1
  <2>2. k = n * (k \div n) + (k % n)
    BY <1>1
  <2>3. n * (k \div n) = (k \div n) * n
    BY <1>1, <2>1
  <2> QED
    BY <2>1, <2>2, <2>3
<1> HIDE DEF d, r
<1>4. \A e \in Nat : \A t \in 0 .. n - 1 : (e * n + t) % n = t
  <2> TAKE e \in Nat
  <2> TAKE t \in 0 .. n - 1
  <2> QED
    BY <1>1
<1>5. ASSUME NEW h \in 0 .. n - 1
      PROVE  Turn(k, h) = (IF r + h < n THEN r + h ELSE r + h - n) + 1
  <2>1. Turn(k, h) = ((k + h) % n) + 1 /\ d * n \in Int /\ (d + 1) * n = d * n + n
    BY <1>1, <1>2, <1>3
  <2>2. CASE r + h < n
    <3>1. k + h = d * n + (r + h) /\ r + h \in 0 .. n - 1
      BY <1>1, <1>3, <2>1, <2>2
    <3>2. (d * n + (r + h)) % n = r + h
      BY <1>3, <1>4, <3>1
    <3> QED
      BY <2>1, <2>2, <3>1, <3>2
  <2>3. CASE ~ (r + h < n)
    <3>1. k + h = (d + 1) * n + (r + h - n) /\ r + h - n \in 0 .. n - 1 /\ d + 1 \in Nat
      BY <1>1, <1>3, <2>1, <2>3
    <3>2. ((d + 1) * n + (r + h - n)) % n = r + h - n
      BY <1>4, <3>1
    <3> QED
      BY <2>1, <2>3, <3>1, <3>2
  <2> QED
    BY <2>2, <2>3
<1>6. /\ Turn(k, i) = (IF r + i < n THEN r + i ELSE r + i - n) + 1
      /\ Turn(k, j) = (IF r + j < n THEN r + j ELSE r + j - n) + 1
  BY <1>1, <1>5
<1> QED
  BY <1>1, <1>3, <1>6

\* A cursor moves once in a scan at most, and the scans of a cycle are as many
\* as its answers and one more.
CursorInv ==
  /\ scan.i <= Len(segments)
  /\ pc = "recycle" => cursor = scan.start + 1
  /\ \A s \in Segs : current[s] <= cursor
  /\ pc = "scan" =>
       \A j \in scan.i .. Len(segments) - 1 : current[Turn(scan.start, j)] < cursor

\* What the order of a cycle says of its length.
LEMMA CycleEnds ==
  ASSUME PoolInv, SweepInv
  PROVE  /\ Total \in Nat /\ Answers \in 0 .. Total
         /\ pc = "scan" => cursor = scan.start + 1
<1>1. segments \in Seq(Segment) /\ Total \in Nat
  BY SlotFacts DEF PoolInv
<1>2. PICK f, q : CycleTo(f, q, Total)
  BY <1>1, CycleExists
<1> QED
  BY <1>1, <1>2 DEF SweepInv, SweepAt

\* Every step of pop() keeps CursorInv.
LEMMA CursorStep ==
  ASSUME PoolInv, SweepInv, CursorInv, [IpNext]_ipVars
  PROVE  CursorInv'
<1>1. /\ segments \in Seq(Segment) /\ Segs = 1 .. Len(segments) /\ Len(segments) \in Nat
      /\ current \in [Segs -> Nat] /\ cursor \in Nat
      /\ scan.start \in Nat /\ scan.i \in Nat
  BY SegmentFacts DEF PoolInv
<1>2. segments' = segments /\ Segs' = Segs /\ \A k, j : Turn(k, j)' = Turn(k, j)
  BY DEF IpNext, Call, LoopHead, Serve, Skip, Recycle, ipVars, Segs, Turn
<1>3. CASE Call \/ UNCHANGED ipVars
  BY <1>2, <1>3 DEF Call, ipVars, poolVars, CursorInv
<1>4. CASE LoopHead
  <2>1. CASE active = 0
    BY <1>2, <1>4, <2>1 DEF LoopHead, CursorInv
  <2>2. CASE active # 0
    <3>1. /\ pc' = "scan" /\ scan' = [start |-> cursor, i |-> 0] /\ cursor' = cursor + 1
          /\ UNCHANGED <<segments, current>>
      BY <1>4, <2>2 DEF LoopHead
    <3>2. \A s \in Segs : current[s] < cursor + 1
      BY <1>1 DEF CursorInv
    <3>3. ASSUME NEW j \in 0 .. Len(segments) - 1 PROVE Turn(cursor, j) \in Segs
      <4>1. segments # <<>> /\ j \in Nat
        BY <1>1
      <4> QED
        BY <1>1, <4>1, TurnFacts
    <3> QED
      <4>1. scan'.i = 0 /\ scan'.start = cursor /\ scan'.i <= Len(segments)
        BY <1>1, <3>1
      <4>2. \A s \in Segs : current'[s] <= cursor'
        BY <1>1, <3>1, <3>2
      <4>3. \A j \in 0 .. Len(segments) - 1 : current'[Turn(cursor, j)] < cursor'
        BY <3>1, <3>2, <3>3
      <4> QED
        BY <1>2, <3>1, <4>1, <4>2, <4>3 DEF CursorInv
  <2> QED
    BY <2>1, <2>2
<1>5. ASSUME pc = "scan", current' = [current EXCEPT ![Probed] = @ + 1], cursor' = cursor
      PROVE  /\ \A s \in Segs : current'[s] <= cursor'
             /\ \A j \in scan.i + 1 .. Len(segments) - 1 :
                  current'[Turn(scan.start, j)] < cursor'
  <2> DEFINE p == Probed
  <2>1. p \in Segs /\ segments # <<>> /\ scan.i \in 0 .. Len(segments) - 1
    BY <1>1, <1>5, ProbedFacts DEF PoolInv
  <2>2. p = Turn(scan.start, scan.i) /\ current[p] < cursor
    <3>1. p = Turn(scan.start, scan.i)
      BY DEF Probed, Turn
    <3>2. \A j \in scan.i .. Len(segments) - 1 : current[Turn(scan.start, j)] < cursor
      BY <1>5 DEF CursorInv
    <3>3. scan.i \in scan.i .. Len(segments) - 1
      BY <1>1, <2>1
    <3> HIDE DEF p
    <3> QED
      BY <3>1, <3>2, <3>3
  <2>3. current' = [current EXCEPT ![p] = @ + 1]
    BY <1>5
  <2> HIDE DEF p
  <2>4. \A s \in Segs : current'[s] = IF s = p THEN current[s] + 1 ELSE current[s]
    BY <1>1, <2>1, <2>3
  <2>5. ASSUME NEW j \in scan.i + 1 .. Len(segments) - 1
        PROVE  current'[Turn(scan.start, j)] < cursor'
    <3>1. j \in 0 .. Len(segments) - 1 /\ j # scan.i /\ j \in Nat
      BY <1>1, <2>1
    <3>2. Turn(scan.start, j) \in Segs /\ Turn(scan.start, j) # p
      <4>1. Turn(scan.start, j) \in Segs
        BY <1>1, <2>1, <3>1, TurnFacts
      <4>2. Turn(scan.start, j) # Turn(scan.start, scan.i)
        BY <1>1, <2>1, <3>1, TurnsDiffer
      <4> QED
        BY <2>2, <4>1, <4>2
    <3>3. current[Turn(scan.start, j)] < cursor
      BY <1>1, <1>5, <3>1 DEF CursorInv
    <3> QED
      BY <1>5, <2>4, <3>2, <3>3
  <2> QED
    BY <1>1, <1>5, <2>1, <2>2, <2>4, <2>5 DEF CursorInv
<1>6. CASE Serve
  <2>1. /\ pc = "scan" /\ current' = [current EXCEPT ![Probed] = @ + 1]
        /\ cursor' = cursor /\ pc' = "idle" /\ scan' = scan
    BY <1>6 DEF Serve
  <2> QED
    BY <1>2, <1>5, <2>1 DEF CursorInv
<1>7. CASE Skip
  <2>1. /\ pc = "scan" /\ current' = [current EXCEPT ![Probed] = @ + 1]
        /\ cursor' = cursor /\ NextSegment
    BY <1>7 DEF Skip
  <2>2. /\ pc' \in {"scan", "recycle"} /\ scan'.start = scan.start
        /\ pc' = "scan" => scan'.i = scan.i + 1
        /\ scan'.i <= Len(segments)
    BY <1>1, <2>1 DEF NextSegment, PoolInv, CursorInv
  <2>3. cursor' = scan'.start + 1
    BY <2>1, <2>2, CycleEnds
  <2> QED
    BY <1>2, <1>5, <2>1, <2>2, <2>3 DEF CursorInv
<1>8. CASE Recycle
  BY <1>2, <1>8 DEF Recycle, Rewound, Restart, CursorInv
<1> QED
  BY <1>3, <1>4, <1>6, <1>7, <1>8 DEF IpNext

\* No cursor outgrows a cycle, whatever the segments and however unequal.
LEMMA PoolTyped == PoolSpec => []IpTypeOK
<1>1. IpInit => CursorInv
  <2> SUFFICES ASSUME IpInit PROVE CursorInv
    OBVIOUS
  <2>1. Len(segments) \in Nat
    BY PoolStart, SegmentFacts DEF PoolInv
  <2> QED
    BY <2>1 DEF IpInit, CursorInv
<1>2. PoolInv /\ SweepInv /\ CursorInv /\ [IpNext]_ipVars => CursorInv'
  BY CursorStep
<1>3. ASSUME PoolInv, DrawnInv, SweepInv, CursorInv PROVE IpTypeOK
  <2>1. /\ Total \in Nat /\ Answers \in 0 .. Total
        /\ pc = "scan" => cursor = scan.start + 1
    BY <1>3, CycleEnds
  <2>2. cursor \in 0 .. Total + 1
    BY <1>3, <2>1 DEF Answers, PoolInv, CursorInv
  <2>3. current \in [Segs -> 0 .. Total + 1]
    BY <1>3, <2>1, <2>2 DEF PoolInv, CursorInv
  <2>4. active \in 0 .. Len(segments)
    <3>1. IsFiniteSet(Segs) /\ Cardinality(Segs) = Len(segments) /\ Len(segments) \in Nat
      BY <1>3, SegmentFacts DEF PoolInv
    <3>2. Segs \ notified \subseteq Segs
      OBVIOUS
    <3>3. Cardinality(Segs \ notified) \in Nat /\ Cardinality(Segs \ notified) <= Len(segments)
      BY <3>1, <3>2, FS_Subset, FS_CardinalityType
    <3> QED
      BY <1>3, <3>1, <3>3 DEF PoolInv
  <2>5. scan.i \in 0 .. Len(segments)
    <3>1. scan.i \in Nat /\ Len(segments) \in Nat
      BY <1>3, SegmentFacts DEF PoolInv
    <3> QED
      BY <1>3, <3>1 DEF CursorInv
  <2>6. notified \subseteq Segs /\ pc \in {"idle", "head", "scan", "recycle"}
        /\ Len(out) <= Total
    BY <1>3 DEF PoolInv, DrawnInv
  <2> QED
    BY <2>2, <2>3, <2>4, <2>5, <2>6 DEF IpTypeOK
<1> QED
  BY <1>1, <1>2, <1>3, PoolInvariant, DrawnInvariant, SweepInvariant, PTL DEF PoolSpec

\* For any list of sources and any widths: any Total consecutive answers of pop()
\* serve every slot once, wherever the sweep starts and however it straddles a
\* recycling; every cycle goes the way of the one before (ip.rs:294-321,
\* httping.rs:214-233).
THEOREM SweepsCoverAll == PoolSpec => []SweepCoversAll
<1>1. ASSUME PoolInv, DrawnInv, SweepInv PROVE SweepCoversAll
  <2> SUFFICES ASSUME Len(out) = Total, NEW m \in DOMAIN out, NEW n \in DOMAIN out,
                      m # n
               PROVE  out[m].slot # out[n].slot
    BY DEF SweepCoversAll
  <2>1. segments \in Seq(Segment) /\ Total \in Nat /\ DOMAIN out = 1 .. Len(out)
    BY <1>1, SlotFacts DEF PoolInv, DrawnInv
  <2>2. PICK f, q : CycleTo(f, q, Total)
    BY <2>1, CycleExists
  <2>3. SweepAt(f, q)
    BY <1>1, <2>2 DEF SweepInv
  <2> DEFINE a == Position(Answers, Len(out), m)
             b == Position(Answers, Len(out), n)
  <2>4. a \in 0 .. Total - 1 /\ b \in 0 .. Total - 1 /\ a # b
    <3> DEFINE k == Answers
    <3>1. k \in 0 .. Total /\ m \in 1 .. Total /\ n \in 1 .. Total
      BY <2>1, <2>3 DEF SweepAt
    <3> HIDE DEF k
    <3>2. /\ a = IF k + m - 1 - Total >= 0 THEN k + m - 1 - Total ELSE k + m - 1
          /\ b = IF k + n - 1 - Total >= 0 THEN k + n - 1 - Total ELSE k + n - 1
      BY <2>1, <3>1 DEF Position, k
    <3> DEFINE t == Total
    <3>3. t \in Nat /\ k \in 0 .. t /\ m \in 1 .. t /\ n \in 1 .. t
      BY <2>1, <3>1
    <3>4. /\ a = IF k + m - 1 - t >= 0 THEN k + m - 1 - t ELSE k + m - 1
          /\ b = IF k + n - 1 - t >= 0 THEN k + n - 1 - t ELSE k + n - 1
      BY <3>2
    <3>5. m # n
      OBVIOUS
    <3> HIDE DEF a, b, t
    <3>6. ASSUME NEW x, NEW y \in 1 .. t,
                 x = IF k + y - 1 - t >= 0 THEN k + y - 1 - t ELSE k + y - 1
          PROVE  x \in 0 .. t - 1
      <4>1. CASE k + y - 1 - t >= 0
        BY <3>3, <3>6, <4>1
      <4>2. CASE ~ (k + y - 1 - t >= 0)
        BY <3>3, <3>6, <4>2
      <4> QED
        BY <4>1, <4>2
    <3>7. a \in 0 .. t - 1
      BY <3>3, <3>4, <3>6
    <3>8. b \in 0 .. t - 1
      BY <3>3, <3>4, <3>6
    <3>9. a # b
      BY <3>3, <3>4, <3>5, SMTT(40)
    <3> QED
      BY <3>7, <3>8, <3>9 DEF t
  <2>5. out[m].slot = q[a] /\ out[n].slot = q[b]
    BY <2>1, <2>3 DEF SweepAt
  <2> HIDE DEF a, b
  <2>6. a < b \/ b < a
    BY <2>4
  <2> QED
    BY <2>1, <2>2, <2>4, <2>5, <2>6, CycleDistinct
<1> QED
  BY <1>1, PoolInvariant, DrawnInvariant, SweepInvariant, PTL

(***************************************************************************)
(* Settings.  A setting agrees with the number last given for it, unless   *)
(* that was undone; so does what a request has read, unless it is old.     *)
(***************************************************************************)

\* A count is forced into its bounds, a port never leaves its type.
InBounds(k, stored) == stored \in IF k = "count" THEN 1 .. MaxCount ELSE CanHold("port")

Agrees(k, stored, given) ==
  IF k = "count" THEN given >= 0 => stored = Clamped(given)
  ELSE given \in CanHold("port") => stored = given

Agree(config, given, but) ==
  /\ config \in [Keys -> Int] /\ given \in [Keys -> Int] /\ but \subseteq Keys
  /\ \A k \in Keys : /\ InBounds(k, config[k])
                     /\ k \in but \/ Agrees(k, config[k], given[k])

SettingsInv ==
  /\ Agree(settings, meant, lost)
  /\ program \in {"none", "server", "app"}
  /\ program = "none" => lost = {} /\ \A r \in Requests : ~read[r].given
  /\ DOMAIN read = Requests
  /\ \A r \in Requests :
       read[r].given => Agree(read[r].settings, meant, read[r].old)

Tokens == {Flag(k) : k \in Keys} \cup Words

\* A token is a flag for a setting, or a word that may be a number.
LEMMA TokenFacts ==
  ASSUME NEW tokens \in Seq(Tokens), NEW i \in 1 .. Len(tokens)
  PROVE  IF tokens[i].flag THEN tokens[i].key \in Keys /\ tokens[i] = Flag(tokens[i].key)
         ELSE tokens[i].num \in Int
<1>1. tokens[i] \in Tokens
  OBVIOUS
<1>2. CASE \E k \in Keys : tokens[i] = Flag(k)
  BY <1>2 DEF Flag
<1>3. CASE \E n \in Int : tokens[i] = Text(n)
  BY <1>3 DEF Text
<1> QED
  BY <1>1, <1>2, <1>3, SettingsAssumption, SMTT(40) DEF Tokens, Words

\* What is stored of a number agrees with it.
LEMMA StoredAgrees ==
  ASSUME NEW k \in Keys, NEW n \in Int
  PROVE  /\ Agrees(k, Stored(k, n), n) /\ Stored(k, n) \in Int
         /\ n \in CanHold(k) => InBounds(k, Stored(k, n))
  BY SettingsAssumption DEF Agrees, Stored, Keys, Clamped, InBounds

\* The defaults are in bounds.
LEMMA DefaultsAgree == Agree(Defaults, Defaults, {})
  BY SettingsAssumption DEF Agree, Agrees, InBounds, Defaults, Keys, Clamped, CanHold

\* The pairs of a command line leave of each setting the last one that can be read.
LEMMA ParsedAgrees ==
  ASSUME NEW tokens \in Seq(Tokens)
  PROVE  Agree(ParsedFrom(tokens), [k \in Keys |-> Given(tokens, k)], {})
<1> DEFINE n == Len(tokens)
           V == [Keys -> Int]
           Then(c, i) == IF tokens[i].flag THEN Parsed(c, PairAt(tokens, i)) ELSE c
           F == [i \in Nat |-> [c \in V |-> IF i \in 1 .. n THEN Then(c, i) ELSE c]]
           Is(f) == f = [i \in 0 .. Len(tokens) |->
                  IF i = 0 THEN Defaults
                  ELSE IF tokens[i].flag THEN Parsed(f[i - 1], PairAt(tokens, i))
                  ELSE f[i - 1]]
           after == CHOOSE f : Is(f)
<1>1. n \in Nat /\ Defaults \in V
  BY SettingsAssumption DEF Defaults
\* One token: a readable pair sets its setting, every other token none.
<1>2. ASSUME NEW c \in V, NEW i \in 1 .. n
      PROVE  /\ Then(c, i) \in V
             /\ \A k \in Keys :
                  Then(c, i)[k] = IF GivenAt(tokens, i, k) THEN Stored(k, tokens[i + 1].num)
                                  ELSE c[k]
  <2>1. CASE ~tokens[i].flag
    <3>1. \A k \in Keys : ~GivenAt(tokens, i, k)
      BY <2>1 DEF GivenAt, Flag
    <3> QED
      BY <2>1, <3>1
  <2>2. CASE tokens[i].flag
    <3> DEFINE key == tokens[i].key
               p == PairAt(tokens, i)
    <3>1. key \in Keys /\ tokens[i] = Flag(key) /\ p.key = key
      BY <2>2, TokenFacts DEF PairAt
    <3>2. Then(c, i) = Parsed(c, p)
      BY <2>2
    <3>3. \A k \in Keys : GivenAt(tokens, i, k) => k = key
      BY <3>1 DEF GivenAt, Flag
    <3>4. CASE GivenAt(tokens, i, key)
      <4>1. /\ p.num = tokens[i + 1].num /\ p.num \in CanHold(key) /\ p.num \in Int
        <5>1. i < n /\ ~tokens[i + 1].flag /\ tokens[i + 1].num \in CanHold(key)
          BY <3>4 DEF GivenAt
        <5>2. i + 1 \in 1 .. n
          BY <1>1, <5>1
        <5>3. tokens[i + 1].num \in Int
          BY <5>1, <5>2, TokenFacts
        <5> QED
          BY <5>1, <5>3 DEF PairAt
      <4> HIDE DEF key, p
      <4>2. Then(c, i) = [c EXCEPT ![key] = Stored(key, p.num)]
        BY <3>1, <3>2, <4>1 DEF Parsed
      <4>3. Stored(key, p.num) \in Int
        BY <3>1, <4>1, StoredAgrees
      <4> HIDE DEF Then
      <4> QED
        BY <3>1, <3>3, <3>4, <4>1, <4>2, <4>3
    <3>5. CASE ~GivenAt(tokens, i, key)
      <4>1. p.num \notin CanHold(key)
        <5>1. -1 \notin CanHold(key)
          BY DEF CanHold
        <5>2. CASE i < n /\ ~tokens[i + 1].flag
          BY <3>1, <3>5, <5>2 DEF GivenAt, PairAt
        <5>3. CASE ~(i < n /\ ~tokens[i + 1].flag)
          <6>1. p.num = -1
            BY <5>3 DEF PairAt
          <6> QED
            BY <5>1, <6>1
        <5> QED
          BY <5>2, <5>3
      <4>2. Then(c, i) = c
        BY <3>1, <3>2, <4>1 DEF Parsed
      <4> HIDE DEF Then, key
      <4> QED
        BY <3>3, <3>5, <4>2
    <3> QED
      BY <3>4, <3>5
  <2> QED
    BY <2>1, <2>2
<1>3. PICK g \in [0 .. n -> V] :
        g[0] = Defaults /\ \A i \in 1 .. n : g[i] = F[i][g[i - 1]]
  <2>1. F \in [Nat -> [V -> V]]
    <3> HIDE DEF V, Then
    <3> QED
      BY <1>2
  <2> HIDE DEF F, n, V
  <2>2. Recursible(V)
    BY RecursionDefines
  <2> QED
    BY <1>1, <2>1, <2>2, ZenonT(60) DEF Recursible
<1>4. ASSUME NEW i \in 1 .. n PROVE g[i] = Then(g[i - 1], i)
  <2>1. i - 1 \in 0 .. n /\ i \in Nat
    BY <1>1
  <2>2. g[i - 1] \in V
    BY <1>3, <2>1
  <2> HIDE DEF V, Then
  <2> QED
    BY <1>3, <2>1, <2>2
<1>5. Is(g)
  <2>1. ASSUME NEW i \in 0 .. Len(tokens)
        PROVE  g[i] = IF i = 0 THEN Defaults ELSE Then(g[i - 1], i)
    <3>1. CASE i = 0
      BY <1>3, <3>1
    <3>2. CASE i # 0
      <4>1. i \in 1 .. n
        BY <1>1, <3>2
      <4> HIDE DEF Then
      <4> QED
        BY <1>4, <3>2, <4>1
    <3> QED
      BY <3>1, <3>2
  <2> QED
    BY <2>1, Zenon
<1>6. Is(after)
  <2> HIDE DEF Is
  <2> QED
    BY <1>5
<1>7. ParsedFrom(tokens) = after[n]
  BY DEF ParsedFrom
<1> HIDE DEF after
<1>8. \A i \in 0 .. n : after[i] = IF i = 0 THEN Defaults ELSE Then(after[i - 1], i)
  BY <1>6, Zenon
<1> HIDE DEF Is, Then, F
<1> DEFINE At(i, k) == {j \in 1 .. i : GivenAt(tokens, j, k)}
           Last(j, i, k) == j \in At(i, k) /\ \A l \in At(i, k) : l <= j
           Sound(i) ==
             /\ after[i] \in V
             /\ \A k \in Keys :
                  /\ At(i, k) = {} => after[i][k] = Defaults[k]
                  /\ At(i, k) # {} => \E j \in 1 .. i : Last(j, i, k)
                  /\ \A j \in 1 .. i :
                       Last(j, i, k) => after[i][k] = Stored(k, tokens[j + 1].num)
\* After i tokens: the last readable pair among them counts.
<1>9. \A i \in 0 .. n : Sound(i)
  <2> DEFINE S == {i \in Nat : i \in 0 .. n => Sound(i)}
  <2>1. 0 \in S
    <3>1. after[0] = Defaults /\ \A k \in Keys : At(0, k) = {}
      BY <1>1, <1>8
    <3> QED
      BY <1>1, <3>1
  <2>2. ASSUME NEW i \in Nat, i \in S, i + 1 \in 0 .. n PROVE Sound(i + 1)
    <3>1. i \in 0 .. n /\ i + 1 \in 1 .. n /\ (i + 1) - 1 = i /\ i + 1 # 0
      BY <1>1, <2>2
    <3>2. Sound(i)
      BY <2>2, <3>1
    <3>3. after[i + 1] = Then(after[i], i + 1)
      BY <1>8, <3>1
    <3> DEFINE z == after[i + 1]
               y == after[i]
    <3>4. /\ z \in V
          /\ \A k \in Keys : z[k] = IF GivenAt(tokens, i + 1, k)
                                    THEN Stored(k, tokens[(i + 1) + 1].num) ELSE y[k]
      <4>1. y \in V
        BY <3>2
      <4> HIDE DEF V, y
      <4> QED
        BY <1>2, <3>1, <3>3, <4>1 DEF y
    <3>5. ASSUME NEW k \in Keys
          PROVE  /\ At(i + 1, k) = {} => z[k] = Defaults[k]
                 /\ At(i + 1, k) # {} => \E j \in 1 .. i + 1 : Last(j, i + 1, k)
                 /\ \A j \in 1 .. i + 1 :
                      Last(j, i + 1, k) => z[k] = Stored(k, tokens[j + 1].num)
      <4>1. /\ At(i, k) = {} => y[k] = Defaults[k]
            /\ At(i, k) # {} => \E j \in 1 .. i : Last(j, i, k)
            /\ \A j \in 1 .. i : Last(j, i, k) => y[k] = Stored(k, tokens[j + 1].num)
        BY <3>2
      <4>2. z[k] = IF GivenAt(tokens, i + 1, k) THEN Stored(k, tokens[(i + 1) + 1].num)
                   ELSE y[k]
        BY <3>4
      <4>3. CASE GivenAt(tokens, i + 1, k)
        <5>1. Last(i + 1, i + 1, k)
          BY <4>3
        <5>2. \A j \in 1 .. i + 1 : Last(j, i + 1, k) => j = i + 1
          BY <5>1
        <5> HIDE DEF z, y
        <5>3. i + 1 \in 1 .. i + 1 /\ At(i + 1, k) # {}
          BY <5>1
        <5> HIDE DEF Last, At
        <5> QED
          BY <4>2, <4>3, <5>1, <5>2, <5>3
      <4>4. CASE ~GivenAt(tokens, i + 1, k)
        <5>1. At(i + 1, k) = At(i, k)
          BY <4>4
        <5>2. \A j \in 1 .. i + 1 : Last(j, i + 1, k) => j \in 1 .. i /\ Last(j, i, k)
          BY <5>1
        <5>3. \A j \in 1 .. i : Last(j, i, k) => Last(j, i + 1, k)
          BY <5>1
        <5>4. 1 .. i \subseteq 1 .. i + 1
          OBVIOUS
        <5> HIDE DEF z, y, Last, At
        <5> QED
          BY <4>1, <4>2, <4>4, <5>1, <5>2, <5>3, <5>4
      <4> QED
        BY <4>3, <4>4
    <3> HIDE DEF V, At, Last
    <3> QED
      BY <3>4, <3>5
  <2>3. Nat \subseteq S
    <3>1. \A i \in Nat : i \in S => i + 1 \in S
      <4> HIDE DEF Sound
      <4> QED
        BY <2>2
    <3> HIDE DEF S
    <3> QED
      BY <2>1, <3>1, SetInduction
  <2> HIDE DEF Sound
  <2> QED
    BY <2>3
<1> DEFINE c == ParsedFrom(tokens)
<1>10. Sound(n) /\ c = after[n] /\ c \in V
  <2>1. n \in 0 .. n
    BY <1>1
  <2>2. after[n] \in V
    BY <1>9, <2>1
  <2> HIDE DEF Sound, n
  <2> QED
    BY <1>7, <1>9, <2>1, <2>2 DEF c
<1>11. ASSUME NEW k \in Keys
       PROVE  /\ Given(tokens, k) \in Int /\ Agrees(k, c[k], Given(tokens, k))
              /\ InBounds(k, c[k])
  <2> DEFINE at == {i \in 1 .. Len(tokens) : GivenAt(tokens, i, k)}
  <2>1. /\ at = {} => c[k] = Defaults[k]
        /\ at # {} => \E j \in 1 .. n : Last(j, n, k)
        /\ \A j \in 1 .. n : Last(j, n, k) => c[k] = Stored(k, tokens[j + 1].num)
    BY <1>10
  <2>2. CASE at = {}
    <3>1. Given(tokens, k) = Defaults[k]
      BY <2>2 DEF Given
    <3>2. Agrees(k, Defaults[k], Defaults[k]) /\ InBounds(k, Defaults[k])
      BY DefaultsAgree DEF Agree
    <3> QED
      BY <1>1, <2>1, <2>2, <3>1, <3>2
  <2>3. CASE at # {}
    <3> DEFINE j == CHOOSE i \in at : \A l \in at : l <= i
    <3>1. j \in at /\ \A l \in at : l <= j
      <4>1. \E i \in at : \A l \in at : l <= i
        BY <2>1, <2>3
      <4> QED
        BY <4>1
    <3>2. Given(tokens, k) = tokens[1 + j].num
      BY <2>3 DEF Given
    <3> HIDE DEF j
    <3>3. j \in 1 .. n /\ Last(j, n, k) /\ 1 + j = j + 1
      BY <3>1
    <3>4. c[k] = Stored(k, tokens[j + 1].num)
      BY <2>1, <3>3
    <3>5. tokens[j + 1].num \in Int /\ tokens[j + 1].num \in CanHold(k)
      <4>1. j < n /\ ~tokens[j + 1].flag /\ tokens[j + 1].num \in CanHold(k)
        BY <3>1 DEF GivenAt
      <4>2. j + 1 \in 1 .. n
        BY <1>1, <3>3, <4>1
      <4> QED
        BY <4>1, <4>2, TokenFacts
    <3> QED
      BY <3>2, <3>3, <3>4, <3>5, StoredAgrees
  <2> QED
    BY <2>2, <2>3
<1> HIDE DEF c
<1> QED
  BY <1>10, <1>11 DEF Agree, c

\* A wider word holds what a narrower one does.
LEMMA PowerGrows ==
  ASSUME NEW m \in Nat, NEW n \in Nat, m <= n
  PROVE  2 ^ m <= 2 ^ n
<1>1. /\ IsFiniteSet(1 .. m) /\ Cardinality(1 .. m) = m
      /\ IsFiniteSet(1 .. n) /\ Cardinality(1 .. n) = n
  BY FS_Interval
<1>2. /\ Cardinality(SUBSET (1 .. m)) = 2 ^ m
      /\ Cardinality(SUBSET (1 .. n)) = 2 ^ n
      /\ IsFiniteSet(SUBSET (1 .. n))
  BY <1>1, FS_SUBSET
<1>3. SUBSET (1 .. m) \subseteq SUBSET (1 .. n)
  OBVIOUS
<1> QED
  BY <1>2, <1>3, FS_Subset

\* A cast leaves a number that is in range, and makes one of any other.
LEMMA CastKeeps ==
  ASSUME NEW k \in Keys, NEW n \in Ints
  PROVE  /\ Cast(k, n) \in CanHold(k)
         /\ (IF k = "count" THEN n >= 0 ELSE n \in CanHold("port")) => Cast(k, n) = n
<1> DEFINE size == 2 ^ (IF k = "port" THEN PortBits ELSE SizeBits)
           half == 2 ^ (IntBits - 1)
<1>1. /\ IntBits - 1 \in Nat /\ SizeBits \in Nat /\ PortBits \in Nat
      /\ IntBits - 1 <= SizeBits
  BY SettingsAssumption
<1>2. /\ half \in Nat \ {0} /\ size \in Nat \ {0}
      /\ half <= 2 ^ SizeBits
  BY <1>1, PowerIsPositive, PowerGrows
<1>3. Cast(k, n) = n % size /\ CanHold(k) = 0 .. size - 1 /\ n \in -half .. half - 1
  BY DEF Cast, CanHold, Ints
<1>4. k # "port" => half <= size
  BY <1>2
<1>5. k = "count" \/ k = "port"
  BY DEF Keys
<1> HIDE DEF size, half
<1>6. n \in Int /\ n % size \in 0 .. size - 1
  BY <1>2, <1>3
<1>7. n \in 0 .. size - 1 => n % size = n
  BY <1>2, <1>6
<1>8. (IF k = "count" THEN n >= 0 ELSE n \in CanHold("port")) => n \in 0 .. size - 1
  BY <1>2, <1>3, <1>4, <1>5, <1>6
<1> QED
  BY <1>3, <1>6, <1>7, <1>8

\* Every step keeps SettingsInv.
LEMMA SettingsStep ==
  ASSUME SettingsInv, [SettingsNext]_settingsVars
  PROVE  SettingsInv'
<1>1. CASE StartApp \/ UNCHANGED settingsVars
  BY <1>1 DEF StartApp, settingsVars, SettingsInv
<1>2. ASSUME NEW tokens \in CommandLines, StartServer(tokens) PROVE SettingsInv'
  <2>1. PICK n \in 0 .. MaxTokens : tokens \in [1 .. n -> Tokens]
    BY <1>2 DEF CommandLines, Tokens
  <2>2. n \in Nat
    BY SettingsAssumption
  <2>3. tokens \in Seq(Tokens)
    <3> HIDE DEF Tokens
    <3> QED
      BY <2>1, <2>2
  <2>4. /\ Agree(settings', meant', {}) /\ program = "none" /\ program' = "server"
        /\ UNCHANGED <<read, lost>>
    BY <1>2, <2>3, ParsedAgrees DEF StartServer
  <2>5. /\ lost = {} /\ DOMAIN read = Requests
        /\ \A r \in Requests : ~read[r].given
    BY <2>4 DEF SettingsInv
  <2> QED
    BY <2>4, <2>5 DEF SettingsInv
<1>3. ASSUME NEW r \in Requests, ReadSettings(r) PROVE SettingsInv'
  <2>1. /\ UNCHANGED <<settings, program, meant, lost>> /\ program # "none"
        /\ read' = [read EXCEPT ![r] = [given |-> TRUE, settings |-> settings, old |-> lost]]
    BY <1>3 DEF ReadSettings
  <2>2. DOMAIN read' = Requests /\ Agree(settings, meant, lost)
    BY <2>1 DEF SettingsInv
  <2>3. ASSUME NEW q \in Requests, read'[q].given
        PROVE  Agree(read'[q].settings, meant, read'[q].old)
    <3>1. CASE q = r
      <4>1. read'[q].settings = settings /\ read'[q].old = lost
        BY <2>1, <3>1 DEF SettingsInv
      <4> QED
        BY <2>2, <4>1
    <3>2. CASE q # r
      <4>1. read'[q] = read[q]
        BY <2>1, <3>2 DEF SettingsInv
      <4> QED
        BY <2>3, <4>1 DEF SettingsInv
    <3> QED
      BY <3>1, <3>2
  <2> QED
    BY <2>1, <2>2, <2>3 DEF SettingsInv
<1>4. ASSUME NEW r \in Requests, NEW o \in Overrides(Numbers), NEW converted,
             UpdateConfig(r, o, converted), DOMAIN converted = DOMAIN o,
             DOMAIN o \subseteq Keys, program # "none",
             \A k \in DOMAIN o : o[k] \in Int /\ converted[k] \in CanHold(k),
             \A k \in DOMAIN o :
               (IF k = "count" THEN o[k] >= 0 ELSE o[k] \in CanHold("port"))
                 => converted[k] = o[k]
      PROVE  SettingsInv'
  <2>1. /\ settings' = Overridden(read[r].settings, converted)
        /\ meant' = [k \in Keys |-> IF k \in DOMAIN o THEN o[k] ELSE meant[k]]
        /\ lost' = read[r].old \ DOMAIN o
        /\ read' = [q \in Requests |-> IF q = r THEN Nothing ELSE Outdated(q, DOMAIN o)]
        /\ Agree(read[r].settings, meant, read[r].old)
    BY <1>4 DEF UpdateConfig, SettingsInv
  <2>2. /\ meant' \in [Keys -> Int] /\ DOMAIN settings' = Keys /\ program' = program
        /\ settings' = [k \in Keys |-> settings'[k]]
        /\ lost' \subseteq Keys
    BY <1>4, <2>1 DEF Agree, Overridden, UpdateConfig
  <2>3. ASSUME NEW k \in Keys
        PROVE  /\ k \in lost' \/ Agrees(k, settings'[k], meant'[k])
               /\ InBounds(k, settings'[k]) /\ settings'[k] \in Int
    <3>1. CASE k \in DOMAIN o
      <4>1. settings'[k] = Stored(k, converted[k]) /\ meant'[k] = o[k]
        BY <1>4, <2>1, <3>1 DEF Overridden
      <4>2. /\ Agrees(k, Stored(k, converted[k]), converted[k])
            /\ InBounds(k, Stored(k, converted[k])) /\ Stored(k, converted[k]) \in Int
        <5>1. converted[k] \in CanHold(k) /\ converted[k] \in Int
          BY <1>4, <3>1 DEF CanHold
        <5> QED
          BY <5>1, StoredAgrees
      <4> QED
        BY <1>4, <3>1, <4>1, <4>2 DEF Agrees
    <3>2. CASE k \notin DOMAIN o
      <4>1. settings'[k] = read[r].settings[k] /\ meant'[k] = meant[k]
        BY <1>4, <2>1, <3>2 DEF Overridden
      <4>2. k \in lost' <=> k \in read[r].old
        BY <2>1, <3>2
      <4> QED
        BY <2>1, <4>1, <4>2 DEF Agree
    <3> QED
      BY <3>1, <3>2
  <2>4. ASSUME NEW q \in Requests, read'[q].given
        PROVE  Agree(read'[q].settings, meant', read'[q].old)
    <3>1. q # r /\ read'[q] = Outdated(q, DOMAIN o)
      BY <2>1, <2>4 DEF Nothing
    <3>2. read[q].given /\ read'[q] = [read[q] EXCEPT !.old = @ \cup DOMAIN o]
      BY <2>4, <3>1 DEF Outdated, Nothing
    <3>3. /\ read'[q].settings = read[q].settings
          /\ read'[q].old = read[q].old \cup DOMAIN o
      BY <3>2 DEF SettingsInv
    <3>4. Agree(read[q].settings, meant, read[q].old)
      BY <3>2 DEF SettingsInv
    <3>5. \A k \in Keys \ DOMAIN o : meant'[k] = meant[k]
      BY <2>1
    <3> QED
      BY <1>4, <2>2, <3>3, <3>4, <3>5 DEF Agree
  <2>5. DOMAIN read' = Requests
    BY <2>1
  <2> QED
    BY <1>4, <2>2, <2>3, <2>4, <2>5 DEF SettingsInv, Agree
<1>5. ASSUME NEW o \in Overrides(Numbers)
      PROVE  DOMAIN o \subseteq Keys /\ \A k \in DOMAIN o : o[k] \in Int
  <2>1. PICK ks \in SUBSET Keys : o \in [ks -> Numbers]
    BY <1>5 DEF Overrides
  <2> QED
    BY <2>1, SettingsAssumption
<1>6. ASSUME NEW r \in Requests, NEW o \in Overrides(Numbers), WebRequest(r, o)
      PROVE  SettingsInv'
  <2>1. /\ UpdateConfig(r, o, o) /\ program # "none"
        /\ \A k \in DOMAIN o : o[k] \in CanHold(k)
    BY <1>6 DEF WebRequest
  <2> QED
    BY <1>4, <1>5, <2>1
<1>7. ASSUME NEW r \in Requests, NEW o \in Overrides(Numbers), AppRequest(r, o)
      PROVE  SettingsInv'
  <2> DEFINE converted == [k \in DOMAIN o |-> Cast(k, o[k])]
  <2>1. /\ UpdateConfig(r, o, converted) /\ program # "none"
        /\ \A k \in DOMAIN o : o[k] \in Ints
    BY <1>7 DEF AppRequest
  <2>2. DOMAIN converted = DOMAIN o /\ \A k \in DOMAIN o : converted[k] = Cast(k, o[k])
    OBVIOUS
  <2> HIDE DEF converted
  <2>3. \A k \in DOMAIN o :
          /\ o[k] \in Int /\ converted[k] \in CanHold(k)
          /\ (IF k = "count" THEN o[k] >= 0 ELSE o[k] \in CanHold("port"))
               => converted[k] = o[k]
    BY <1>5, <2>1, <2>2, CastKeeps
  <2> QED
    BY <1>4, <1>5, <2>1, <2>2, <2>3
<1> QED
  BY <1>1, <1>2, <1>3, <1>6, <1>7 DEF SettingsNext

\* SettingsInv holds from the start and for ever.
LEMMA SettingsInvariant == SettingsSpec => []SettingsInv
<1>1. SettingsInit => SettingsInv
  BY DefaultsAgree DEF SettingsInit, SettingsInv, Nothing
<1> QED
  BY <1>1, SettingsStep, PTL DEF SettingsSpec

\* What is stored of a count is in bounds, and of a port what its type can hold.
LEMMA SettingsTyped ==
  ASSUME SettingsInv
  PROVE  SettingsTypeOK
<1>1. /\ settings["count"] \in 1 .. MaxCount /\ settings["port"] \in CanHold("port")
      /\ settings \in [Keys -> Int]
  BY DEF SettingsInv, Agree, InBounds, Keys
<1>2. settings = [count |-> settings["count"], port |-> settings["port"]]
  BY <1>1 DEF Keys
<1>3. settings \in [count : 1 .. MaxCount, port : CanHold("port")]
  BY <1>1, <1>2
<1> QED
  BY <1>3 DEF SettingsInv, Agree, SettingsTypeOK

\* A number forced into bounds is the nearest one there is.
LEMMA ClampedIsNearest ==
  ASSUME NEW n \in Int
  PROVE  Clamped(n) \in Nearest(n)
  BY SettingsAssumption DEF Clamped, Nearest, Distance

\* For command lines of any length, any number of overlapping requests and any
\* widths: what is stored of a setting is the last number given for it, the
\* nearest one in bounds, unless a request that had read before has undone it
\* (args.rs:34-146, service.rs:183-200, handlers.rs:23-27).
THEOREM SettingsAgree == SettingsSpec => []EntriesAgree
<1>1. ASSUME SettingsInv PROVE EntriesAgree
  <2>1. /\ meant \in [Keys -> Int] /\ "count" \in Keys /\ "port" \in Keys
        /\ \A k \in Keys : k \in lost \/ Agrees(k, settings[k], meant[k])
    BY <1>1 DEF SettingsInv, Agree, Keys
  <2>2. "count" \notin lost /\ meant.count >= 0 => settings.count = Clamped(meant.count)
    BY <2>1 DEF Agrees
  <2>3. "port" \notin lost /\ meant.port \in CanHold("port") => settings.port = meant.port
    BY <2>1 DEF Agrees
  <2> QED
    BY <2>1, <2>2, <2>3, ClampedIsNearest DEF EntriesAgree
<1> QED
  BY <1>1, SettingsInvariant, PTL

(***************************************************************************)
(* The composition.                                                        *)
(***************************************************************************)

\* A behaviour of the composition is one of every part: the others rest while one
\* moves.
LEMMA PartsAlone ==
  Spec => PoolSpec /\ AcceptSpec /\ LockSpec /\ SpliceSpec /\ StreamSpec /\ SettingsSpec
<1>1. Init => /\ IpInit /\ AcceptInit /\ LockInit
              /\ SpliceInit /\ StreamInit /\ SettingsInit
  BY DEF Init
<1>2. [Next]_partsVars =>
        /\ [IpNext]_ipVars /\ [AcceptNext]_acceptVars /\ [LockNext]_lockVars
        /\ [SpliceNext]_spliceVars /\ [StreamNext]_streamVars
        /\ [SettingsNext]_settingsVars
  BY DEF Next, OthersRest, partsVars
<1> QED
  BY <1>1, <1>2, PTL
     DEF Spec, PoolSpec, AcceptSpec, LockSpec, SpliceSpec, StreamSpec, SettingsSpec

\* Every variable of every part keeps its type: no more attempts to stream are made
\* than Generations names, the cursors of the pool stay within one count of what
\* there is, and a setting never leaves what its type can hold.
THEOREM PartsTypes == Spec => []PartsTypeOK
<1>1. SpliceInv => SpliceTypeOK
  BY DEF SpliceInv
<1>2. StreakInv => AcceptTypeOK
  BY DEF StreakInv
<1>3. IpTypeOK /\ AcceptTypeOK /\ SpliceTypeOK /\ StreamTypeOK /\ SettingsTypeOK
        => PartsTypeOK
  BY DEF PartsTypeOK
<1> QED
  BY <1>1, <1>2, <1>3, PartsAlone, SpliceInvariant, StreakInvariant, PoolTyped,
     StreamTyped, SettingsInvariant, SettingsTyped, PTL
=============================================================================
