---------------------------- MODULE StickySlots ----------------------------
(***************************************************************************)
(* The sticky slots of the balancer (src/core/loadbalancer.rs): the few    *)
(* backends new connections are sent to, refreshed by the maintainer once  *)
(* a second, and select(), which every connection calls.  What other tasks *)
(* do to the queues and to the state of a backend is taken from            *)
(* BackendPools in coarser steps: a mark may come late, when its backend   *)
(* has left the queues.                                                    *)
(* Time is counted in passes of the maintainer; a slot keeps ages.  Queues *)
(* are sets: the first of several equals is any of them.  select() is one  *)
(* step: it changes an access time and a count of connections only, and    *)
(* what it finds when the queues change under it, another moment gives too.*)
(***************************************************************************)
EXTENDS Integers, FiniteSets, Sequences

CONSTANTS
  Backends,        \* identities of Backend objects
  AddrOf,          \* the address of each
  Handlers,        \* connection tasks
  MaxSlots,        \* the "max_sticky_slots" setting
  BaseInterval, Increment,  \* Config::sticky_base_interval, sticky_increment_interval
  Ttl,             \* Config::sticky_slot_ttl
  ExpandInterval,  \* Config::sticky_slot_expand_interval
  MaxGap           \* bound: ticks missed before a pass, plus one

None == "none"

ASSUME StickyAssumption ==
  /\ None \notin Backends
  /\ MaxSlots \in Nat \ {0} /\ MaxGap \in Nat \ {0}
  /\ BaseInterval \in Nat \ {0} /\ Increment \in Nat
  /\ Ttl \in Nat \ {0} /\ ExpandInterval \in Nat \ {0}
  /\ IsFiniteSet(Handlers)

VARIABLES
  primary, backup,  \* BalancerInner
  st,               \* Backend::state; "unsampled" is warming without a sample
  slots,            \* sticky_slots
  sinceExpand,      \* the age of last_expand_ms, up to ExpandInterval
  held,             \* the backend a connection uses
  revived,          \* history: became selectable after they left the queues
  stranded          \* history: passes with a queue to serve and no usable slot

queueVars == <<primary, backup>>
slotVars == <<slots, sinceExpand>>
vars == <<queueVars, st, slotVars, held, revived, stranded>>

Queued == primary \cup backup
Served == IF primary # {} THEN primary ELSE backup
\* Backend::is_selectable
Selectable(b) == st[b] \in {"active", "warming"}
Usable == {i \in DOMAIN slots : Selectable(slots[i].backend)}
\* Whose state can matter to the balancer: a backend only a connection still
\* holds can come back neither to the queues nor to the slots.
Known == Queued \cup {slots[i].backend : i \in DOMAIN slots}
\* Backend::connections
Load(b) == Cardinality({h \in Handlers : held[h] = b})

Init ==
  /\ primary = {} /\ backup = {}
  /\ st = [b \in Backends |-> "removed"]
  /\ slots = <<>> /\ sinceExpand = 0
  /\ held = [h \in Handlers |-> None]
  /\ revived = {} /\ stranded = 0

Lesser(m, n) == IF m < n THEN m ELSE n

\* The state of a backend is kept while it can matter; outside the queues
\* isolated and removed say the same.
KeepKnown(states) ==
  LET known == Known'
      queued == Queued'
  IN  /\ st' = [b \in Backends |->
                 IF b \in queued \/ (b \in known /\ states[b] # "isolated")
                   THEN states[b] ELSE "removed"]
      /\ revived' = revived \cap known

\* History: the passes since the slots have left the served queue unused.
Stranded == Usable = {} /\ \E b \in Served : Selectable(b)
CountStranded(gap) ==
  stranded' = IF Stranded /\ Stranded' THEN Lesser(stranded + gap, Ttl) ELSE 0

----------------------------------------------------------------------------
(* select() *)

\* select_by_connection: the less loaded of two; a single one is taken as it is.
LighterOfTwo(s, load) ==
  {x \in s : s = {x} \/ \E y \in s \ {x} : load[x] <= load[y]}

SelectFromSlots(h) ==
  /\ held[h] = None /\ Usable # {}
  /\ LET load == [i \in Usable |-> Load(slots[i].backend)] IN
     \E i \in LighterOfTwo(Usable, load) :
       /\ held' = [held EXCEPT ![h] = slots[i].backend]
       /\ slots' = [slots EXCEPT ![i].idle = 0]
  /\ UNCHANGED <<queueVars, st, sinceExpand, revived>>

\* select_from_pool, when no slot is usable: selectable ones first, isolated ones
\* otherwise; None when the served queue has neither.
SelectFromPool(h) ==
  /\ held[h] = None /\ Usable = {}
  /\ LET selectable == {b \in Served : Selectable(b)}
         isolated == {b \in Served : st[b] = "isolated"}
         candidates == IF selectable # {} THEN selectable ELSE isolated
         load == [b \in candidates |-> Load(b)]
     IN  \E b \in LighterOfTwo(candidates, load) : held' = [held EXCEPT ![h] = b]
  /\ UNCHANGED <<queueVars, st, slotVars, revived>>

Release(h) ==
  /\ held[h] # None
  /\ held' = [held EXCEPT ![h] = None]
  /\ UNCHANGED <<queueVars, st, slotVars, revived>>

----------------------------------------------------------------------------
(* A pass of the maintainer *)

Addrs(ss) == {AddrOf[ss[i].backend] : i \in DOMAIN ss}

\* get_active_unused: the least loaded of the queue whose address is not used.
ActiveUnused(used) ==
  LET unused == {b \in Served : Selectable(b) /\ AddrOf[b] \notin used}
  IN  {b \in unused : \A c \in unused : Load(b) <= Load(c)}

Aged(s, gap) == [s EXCEPT !.age = Lesser(@ + gap, s.interval),
                          !.idle = Lesser(@ + gap, Ttl)]

\* Mutant: access times of another clock never expire a slot.
NeverExpired(s) == FALSE
\* slot_expired
Expired(s) == s.idle >= Ttl

\* retain: a warming backend without a sample keeps its slot.
Retained(s) == st[s.backend] \notin {"isolated", "removed"} /\ ~Expired(s)
Kept(ss) ==
  LET kept[i \in 0..Len(ss)] ==
        IF i = 0 THEN <<>>
        ELSE IF Retained(ss[i]) THEN Append(kept[i - 1], ss[i]) ELSE kept[i - 1]
  IN  kept[Len(ss)]

\* Mutant: a slot that takes another backend does not mark its address used.
UsedForgotten(used, b) == used
UsedAfter(used, b) == used \cup {AddrOf[b]}

Overdue(s) == s.age >= s.interval

\* One round of the loop over overdue slots; an address that was replaced stays
\* used for the rest of the pass.
Rotated(o, i) ==
  IF ~Overdue(o.slots[i]) \/ ActiveUnused(o.used) = {} THEN {o}
  ELSE {[slots |-> [o.slots EXCEPT ![i].backend = b, ![i].age = 0],
         used |-> UsedAfter(o.used, b)] : b \in ActiveUnused(o.used)}

Rotations(ss) ==
  LET rounds[i \in 0..Len(ss)] ==
        IF i = 0 THEN {[slots |-> ss, used |-> Addrs(ss)]}
        ELSE UNION {Rotated(o, i) : o \in rounds[i - 1]}
  IN  {o.slots : o \in rounds[Len(ss)]}

TotalLoad(ss) ==
  Cardinality({p \in (DOMAIN ss) \X Handlers : held[p[2]] = ss[p[1]].backend})

\* Mutant: a slot too many.
ShouldExpandInclusive(ss, since) ==
  \/ ss = <<>>
  \/ Len(ss) <= MaxSlots /\ since >= ExpandInterval
\* should_expand
ShouldExpand(ss, since) ==
  \/ ss = <<>>
  \/ /\ Len(ss) < MaxSlots
     /\ since >= ExpandInterval \/ Len(ss) * Len(ss) < TotalLoad(ss)

NewSlot(b, n) ==
  [backend |-> b, age |-> 0, idle |-> 0, interval |-> BaseInterval + n * Increment]

\* maintain_sticky_slots, gap ticks after the pass before; with both queues
\* empty the pass does nothing but time goes by.
Maintain(gap) ==
  LET aged == [i \in DOMAIN slots |-> Aged(slots[i], gap)]
      since == Lesser(sinceExpand + gap, ExpandInterval)
  IN  /\ IF Served = {} THEN slots' = aged /\ sinceExpand' = since
         ELSE \E ss \in Rotations(Kept(aged)) :
                IF ShouldExpand(ss, since) /\ ActiveUnused(Addrs(ss)) # {}
                  THEN /\ \E b \in ActiveUnused(Addrs(ss)) :
                            slots' = Append(ss, NewSlot(b, Len(ss)))
                       /\ sinceExpand' = 0
                  ELSE slots' = ss /\ sinceExpand' = since
      /\ UNCHANGED <<queueVars, held>>
      /\ KeepKnown(st)

----------------------------------------------------------------------------
(* The queues, in the steps of BackendPools *)

\* add_to_list: a new object, for an address no queued one has.
Collect(b) ==
  /\ b \notin Known /\ Load(b) = 0 /\ AddrOf[b] \notin {AddrOf[c] : c \in Queued}
  /\ \/ primary' = primary \cup {b} /\ UNCHANGED backup
     \/ backup' = backup \cup {b} /\ UNCHANGED primary
  /\ st' = [st EXCEPT ![b] = "warming"]
  /\ UNCHANGED <<slotVars, held, revived>>

\* The end of a backend's warming, or mark_active by a health round: that round
\* read "isolated" before, whatever the state has become since.
MarkActive(b) ==
  /\ b \in Known /\ st[b] # "active"
  /\ b \notin Queued => st[b] \in {"isolated", "removed"}
  /\ st' = [st EXCEPT ![b] = "active"]
  /\ revived' = IF b \in Queued THEN revived ELSE revived \cup {b}
  /\ UNCHANGED <<queueVars, slotVars, held>>

\* mark_isolated or mark_removed, by a round or by a connection.
MarkDown(b, m) ==
  /\ b \in Known /\ st[b] # m /\ (b \notin Queued => m = "removed")
  /\ UNCHANGED <<queueVars, slotVars, held>>
  /\ KeepKnown([st EXCEPT ![b] = m])

\* Backend::record gives a warming backend a sample again.
Record(b) ==
  /\ b \in Known /\ st[b] = "unsampled"
  /\ st' = [st EXCEPT ![b] = "warming"]
  /\ revived' = IF b \in Queued THEN revived ELSE revived \cup {b}
  /\ UNCHANGED <<queueVars, slotVars, held>>

\* reset_all_metrics, after the wall clock has jumped.
ResetMetrics ==
  /\ \E b \in Queued : st[b] = "warming"
  /\ st' = [b \in Backends |-> IF b \in Queued /\ st[b] = "warming"
                               THEN "unsampled" ELSE st[b]]
  /\ UNCHANGED <<queueVars, slotVars, held, revived>>

CleanupRemoved ==
  /\ \E b \in Queued : st[b] = "removed"
  /\ primary' = {b \in primary : st[b] # "removed"}
  /\ backup' = {b \in backup : st[b] # "removed"}
  /\ UNCHANGED <<slotVars, held>>
  /\ KeepKnown(st)

\* Mutant: a full primary queue gives up any of its backends.
AnyPrimary == primary
Evictable == {b \in primary : ~Selectable(b)}

\* try_deactivate brings a selectable backup in, for an unusable primary when
\* the primary queue is full.
Promote(b) ==
  /\ b \in backup /\ Selectable(b)
  /\ backup' = backup \ {b}
  /\ \E evicted \in {{}} \cup {{e} : e \in Evictable} :
       primary' = (primary \ evicted) \cup {b}
  /\ UNCHANGED <<slotVars, held>>
  /\ KeepKnown([st EXCEPT ![b] = "active"])

\* refill_from_backup, one backend at a time.
Refill(b) ==
  /\ b \in backup
  /\ backup' = backup \ {b} /\ primary' = primary \cup {b}
  /\ UNCHANGED <<st, slotVars, held, revived>>

----------------------------------------------------------------------------
Select(h) == SelectFromSlots(h) \/ SelectFromPool(h) \/ Release(h)

Queues ==
  \/ ResetMetrics \/ CleanupRemoved
  \/ \E b \in Backends :
       \/ Collect(b) \/ MarkActive(b) \/ Record(b) \/ Promote(b) \/ Refill(b)
       \/ \E m \in {"isolated", "removed"} : MarkDown(b, m)

Next ==
  \/ (Queues \/ \E h \in Handlers : Select(h)) /\ CountStranded(0)
  \/ \E gap \in 1..MaxGap : Maintain(gap) /\ CountStranded(gap)

Spec == Init /\ [][Next]_vars

----------------------------------------------------------------------------
(* Properties *)

\* The slots, never more than the setting allows, hold states and ages in range.
TypeOK ==
  /\ primary \subseteq Backends /\ backup \subseteq Backends
  /\ st \in [Backends -> {"unsampled", "warming", "active", "isolated", "removed"}]
  /\ Len(slots) <= MaxSlots
  /\ \A i \in DOMAIN slots :
       /\ slots[i].backend \in Backends
       /\ slots[i].age \in 0..slots[i].interval
       /\ slots[i].idle \in 0..Ttl
  /\ sinceExpand \in 0..ExpandInterval
  /\ held \in [Handlers -> Backends \cup {None}]
  /\ revived \subseteq Backends /\ stranded \in 0..Ttl

\* No two slots send connections to one address, although slots outlive the
\* queues and several rotate in one pass, in which an address given up by one
\* slot stays used for the others (loadbalancer.rs:376-387).
SlotsDistinct ==
  \A i, j \in DOMAIN slots :
    AddrOf[slots[i].backend] = AddrOf[slots[j].backend] => i = j

\* A usable slot holds a backend of the queues, unless that backend was revived
\* by a late mark or sample after it had left them (loadbalancer.rs:886).
StraysRevived ==
  \A i \in Usable : slots[i].backend \in Queued \cup revived

\* Slots that have all become unusable keep a queue that could serve waiting for
\* less than the time to live: they expire, rotate or are added to
\* (loadbalancer.rs:231, 364-399).
StrandedBriefly == stranded < Ttl
=============================================================================
