---------------------------- MODULE AcceptErrors ----------------------------
(***************************************************************************)
(* How the accept loop bears with failing accepts                          *)
(* (src/core/accept_error.rs and the error arm of run_forward): back off   *)
(* longer and longer, forget the failures after a success or a quiet       *)
(* spell, give up when one spell of failures has lasted too long.  Time is *)
(* a discrete clock; a streak is kept as ages, which a tick makes grow.    *)
(***************************************************************************)
EXTENDS Integers

CONSTANTS
  RetryBase, BackoffBase, BackoffMax, MaxShift,
  EscalateAfter,
  Window          \* FAILURE_RECOVERY_WINDOW

ASSUME AcceptAssumption ==
  /\ RetryBase \in Nat \ {0} /\ BackoffBase \in Nat \ {0}
  /\ BackoffMax \in Nat \ {0} /\ MaxShift \in Nat
  /\ EscalateAfter \in Nat \ {0} /\ Window \in Nat \ {0}

None == -1
Lesser(a, b) == IF a <= b THEN a ELSE b

\* Ages beyond this one are not told apart (bound).
Horizon == EscalateAfter + Window + 1

VARIABLES
  loop,      \* "accepting", "backoff", "escalated" or "ended"
  start,     \* FailureStreak::start, as the age of that instant; None
  last,      \* FailureStreak::last, likewise
  count,     \* FailureStreak::count, up to the highest shift
  delay,     \* what is left of the backoff
  granted,   \* the whole of that backoff
  failures   \* history: the ages of the failures since the last success

streak == <<start, last, count>>
acceptVars == <<loop, streak, delay, granted, failures>>

AcceptInit ==
  /\ loop = "accepting"
  /\ start = None /\ last = None /\ count = 0
  /\ delay = 0 /\ granted = 0
  /\ failures = {}

Aged(t) == IF t = None THEN None ELSE Lesser(t + 1, Horizon)

\* Time passes while accept() or the backoff is awaited.
Tick ==
  /\ loop = "accepting" \/ (loop = "backoff" /\ delay > 0)
  /\ start' = Aged(start) /\ last' = Aged(last)
  /\ failures' = {Aged(f) : f \in failures} \ {Horizon}
  /\ delay' = IF loop = "backoff" THEN delay - 1 ELSE 0
  /\ UNCHANGED <<loop, count, granted>>

BackoffElapsed ==
  /\ loop = "backoff" /\ delay = 0
  /\ loop' = "accepting"
  /\ UNCHANGED <<streak, delay, granted, failures>>

\* Mutant: clear() forgets the start of the streak only.
ClearedStart == last
\* clear()
Cleared == None

Accepted ==
  /\ loop = "accepting"
  /\ start' = None /\ last' = Cleared /\ count' = 0
  /\ failures' = {}
  /\ UNCHANGED <<loop, delay, granted>>

\* Mutant: a streak goes on however long the quiet spell was.
AnyGap == last # None
\* record(): the failure belongs to the streak when the last one is recent.
Continued == last # None /\ last <= Window

\* FailureSample
Elapsed == IF Continued THEN (IF start = None THEN 0 ELSE start) ELSE 0
\* Mutant: a new streak inherits the count.
PriorKept == count
Prior == IF Continued THEN count ELSE 0

\* Mutant: the delay doubles without a ceiling.
Unbounded(base, shift) == base * 2 ^ shift
\* backoff_delay
Ceiled(base, shift) == Lesser(base * 2 ^ shift, BackoffMax)
BackoffDelay(action) ==
  Ceiled(IF action = "Backoff" THEN BackoffBase ELSE RetryBase,
         Lesser(Prior, MaxShift))

\* classify() found the error transient.
FailsFor(action) ==
  /\ loop = "accepting"
  /\ start' = IF Continued THEN start ELSE 0
  /\ last' = 0
  /\ count' = Lesser(Prior + 1, MaxShift + 1)
  /\ failures' = failures \cup {0}
  /\ IF Elapsed >= EscalateAfter
       THEN loop' = "escalated" /\ UNCHANGED <<delay, granted>>
       ELSE /\ loop' = "backoff"
            /\ delay' = BackoffDelay(action) /\ granted' = BackoffDelay(action)

\* A broken listener, or the cancellation of the service, ends the loop at once.
FatalOrCancelled ==
  /\ loop \in {"accepting", "backoff"}
  /\ loop' = "ended"
  /\ UNCHANGED <<streak, delay, granted, failures>>

AcceptNext ==
  \/ Tick \/ BackoffElapsed \/ Accepted \/ FatalOrCancelled
  \/ \E action \in {"Retry", "Backoff"} : FailsFor(action)

AcceptSpec == AcceptInit /\ [][AcceptNext]_acceptVars

----------------------------------------------------------------------------
(* Properties *)

Ages == 0 .. Horizon

AcceptTypeOK ==
  /\ loop \in {"accepting", "backoff", "escalated", "ended"}
  /\ start \in Ages \cup {None} /\ last \in Ages \cup {None}
  /\ count \in 0 .. MaxShift + 1
  /\ delay \in 0 .. BackoffMax /\ granted \in 0 .. BackoffMax
  /\ failures \subseteq Ages

\* A failure has just been recorded.
JustFailed ==
  0 \in failures /\ (loop = "escalated" \/ (loop = "backoff" /\ delay = granted))

\* Failures have been reported for EscalateAfter, none more than Window after
\* the one before it, and nothing was accepted in between.
Persistent ==
  \E f \in failures :
    /\ f >= EscalateAfter
    /\ \A g \in failures :
         g \in 1 .. f => \E h \in failures : h < g /\ g - h <= Window

\* The loop gives up exactly when the failures have been persistent: neither a
\* success nor a quiet spell is bridged, and no persistent failure is missed
\* (accept_error.rs:24-30, 49-75; forward.rs:428-436).
EscalatesExactly ==
  JustFailed => (loop = "escalated" <=> Persistent)

\* A backoff starts from its base again once the streak has ended, whatever the
\* streak before it had reached (accept_error.rs:50-51).
BackoffRestarts ==
  JustFailed /\ (\A f \in failures \ {0} : f > Window) =>
    granted <= Lesser(IF BackoffBase > RetryBase THEN BackoffBase ELSE RetryBase,
                      BackoffMax)

\* The streak that record() keeps failure by failure is the one its definition
\* gives: for the escalation and for the backoff (accept_error.rs:44-66).
StreakExact == EscalatesExactly /\ BackoffRestarts
=============================================================================
