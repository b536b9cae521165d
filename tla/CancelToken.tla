---------------------------- MODULE CancelToken ----------------------------
(***************************************************************************)
(* The cancellation token every background loop selects on                 *)
(* (src/core/cancel.rs): a flag and a tokio Notify.  notify_waiters wakes  *)
(* the futures that exist when it is called and leaves nothing behind for  *)
(* later ones, so a wait is safe only by the order of its own steps.       *)
(***************************************************************************)
CONSTANTS Cancellers, Waiters

VARIABLES
  cancelled,  \* Inner::cancelled
  cpc,        \* a call of cancel(): idle, about to notify, done
  wpc,        \* a call of cancelled(): idle, future created, flag checked,
              \* parked on the future, returned
  woken       \* the waiters whose future notify_waiters has completed

vars == <<cancelled, cpc, wpc, woken>>

Init ==
  /\ cancelled = FALSE
  /\ cpc = [c \in Cancellers |-> "idle"]
  /\ wpc = [w \in Waiters |-> "idle"]
  /\ woken = {}

\* swap() returned true: another call has cancelled the token.
WasSet == cancelled

\* cancel(): only the call that sets the flag notifies.
SetFlag(c) ==
  /\ cpc[c] = "idle"
  /\ cpc' = [cpc EXCEPT ![c] = IF WasSet THEN "done" ELSE "notify"]
  /\ cancelled' = TRUE
  /\ UNCHANGED <<wpc, woken>>

\* Mutant: a future counts only once it is polled.
Polled == {w \in Waiters : wpc[w] = "parked"}
\* Notify::notified() takes part from its creation.
Registered == {w \in Waiters : wpc[w] \in {"created", "checked", "parked"}}

NotifyWaiters(c) ==
  /\ cpc[c] = "notify"
  /\ cpc' = [cpc EXCEPT ![c] = "done"]
  /\ woken' = woken \cup Registered
  /\ UNCHANGED <<cancelled, wpc>>

\* cancelled(): the future is created ...
CreateFuture(w) ==
  /\ wpc[w] = "idle"
  /\ wpc' = [wpc EXCEPT ![w] = "created"]
  /\ UNCHANGED <<cancelled, cpc, woken>>

\* ... then the flag is read ...
CheckFlag(w) ==
  /\ wpc[w] = "created"
  /\ wpc' = [wpc EXCEPT ![w] = IF cancelled THEN "returned" ELSE "checked"]
  /\ UNCHANGED <<cancelled, cpc, woken>>

\* ... and only then is the future awaited: polled at once, and again when it
\* is woken.
Poll(w) ==
  /\ wpc[w] = "checked" \/ (wpc[w] = "parked" /\ w \in woken)
  /\ wpc' = [wpc EXCEPT ![w] = IF w \in woken THEN "returned" ELSE "parked"]
  /\ UNCHANGED <<cancelled, cpc, woken>>

\* Another branch of the select! wins: the future is dropped and the loop
\* comes back with a new one.
Drop(w) ==
  /\ wpc[w] \in {"created", "checked", "parked"}
  /\ wpc' = [wpc EXCEPT ![w] = "idle"]
  /\ woken' = woken \ {w}
  /\ UNCHANGED <<cancelled, cpc>>

Next ==
  \/ \E c \in Cancellers : SetFlag(c) \/ NotifyWaiters(c)
  \/ \E w \in Waiters : CreateFuture(w) \/ CheckFlag(w) \/ Poll(w) \/ Drop(w)

Spec == Init /\ [][Next]_vars

----------------------------------------------------------------------------
(* Properties *)

TypeOK ==
  /\ cancelled \in BOOLEAN
  /\ cpc \in [Cancellers -> {"idle", "notify", "done"}]
  /\ wpc \in [Waiters -> {"idle", "created", "checked", "parked", "returned"}]
  /\ woken \subseteq Waiters

\* A loop that waits on a cancelled token has been woken, or the call that
\* cancelled it is about to wake it (cancel.rs:39).
NoSleeper ==
  \A w \in Waiters :
    wpc[w] \in {"checked", "parked"} /\ cancelled =>
      w \in woken \/ \E c \in Cancellers : cpc[c] = "notify"
=============================================================================
