------------------------- MODULE CancelToken_proofs -------------------------
(* No wait on the token is lost, for any number of callers and loops. *)
EXTENDS CancelToken, TLAPS

\* NoSleeper and the typing it needs are inductive together.
CancelInv == TypeOK /\ NoSleeper

\* Between the flag and the notification the token owes every registered
\* future a wakeup, and a future is registered before the flag is read.
LEMMA CancelInvariant == Spec => []CancelInv
<1>1. Init => CancelInv
  BY DEF Init, CancelInv, TypeOK, NoSleeper
<1>2. CancelInv /\ [Next]_vars => CancelInv'
  <2> SUFFICES ASSUME CancelInv, [Next]_vars PROVE CancelInv'
    OBVIOUS
  <2> USE DEF CancelInv, TypeOK, NoSleeper
  <2>1. ASSUME NEW c \in Cancellers, SetFlag(c) PROVE CancelInv'
    BY <2>1 DEF SetFlag, WasSet
  <2>2. ASSUME NEW c \in Cancellers, NotifyWaiters(c) PROVE CancelInv'
    BY <2>2 DEF NotifyWaiters, Registered
  <2>3. ASSUME NEW w \in Waiters, CreateFuture(w) PROVE CancelInv'
    BY <2>3 DEF CreateFuture
  <2>4. ASSUME NEW w \in Waiters, CheckFlag(w) PROVE CancelInv'
    BY <2>4 DEF CheckFlag
  <2>5. ASSUME NEW w \in Waiters, Poll(w) PROVE CancelInv'
    BY <2>5 DEF Poll
  <2>6. ASSUME NEW w \in Waiters, Drop(w) PROVE CancelInv'
    BY <2>6 DEF Drop
  <2>7. CASE UNCHANGED vars
    BY <2>7 DEF vars
  <2> QED
    BY <2>1, <2>2, <2>3, <2>4, <2>5, <2>6, <2>7 DEF Next
<1> QED
  BY <1>1, <1>2, PTL DEF Spec

\* No wait on the token is lost (cancel.rs:33-42).
THEOREM NoWaitLost == Spec => []NoSleeper
  BY CancelInvariant, PTL DEF CancelInv
=============================================================================
