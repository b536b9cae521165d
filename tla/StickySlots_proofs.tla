------------------------ MODULE StickySlots_proofs ------------------------
(***************************************************************************)
(* Theorems about the sticky slots: for any backends, any addresses and    *)
(* any settings.  Two loops of the maintainer are recursive functions of   *)
(* the model; module Recursion says why they have the values that their    *)
(* equations give.                                                         *)
(***************************************************************************)
EXTENDS StickySlots, Recursion, FiniteSetTheorems, TLAPS

----------------------------------------------------------------------------
(* What the loops of a pass compute *)

\* A slot as the code can build one.
Slot ==
  {s \in [backend : Backends, age : Nat, idle : 0 .. Ttl, interval : Nat] :
     s.age <= s.interval}

\* No two slots of one address.
Distinct(ss) ==
  \A i, j \in DOMAIN ss :
    AddrOf[ss[i].backend] = AddrOf[ss[j].backend] => i = j

\* The recursive function of Kept, as equations.
LEMMA KeptEquations ==
  ASSUME NEW ss \in Seq(Slot)
  PROVE  \E f \in [0 .. Len(ss) -> Seq(Slot)] :
           /\ f[0] = <<>> /\ Kept(ss) = f[Len(ss)]
           /\ \A i \in 1 .. Len(ss) :
                f[i] = IF Retained(ss[i]) THEN Append(f[i - 1], ss[i]) ELSE f[i - 1]
<1> DEFINE n == Len(ss)
           V == Seq(Slot)
           F == [i \in Nat |-> [q \in V |->
                  IF i \in 1 .. n /\ Retained(ss[i]) THEN Append(q, ss[i]) ELSE q]]
           Is(f) == f = [i \in 0 .. Len(ss) |->
                  IF i = 0 THEN <<>>
                  ELSE IF Retained(ss[i]) THEN Append(f[i - 1], ss[i]) ELSE f[i - 1]]
           kept == CHOOSE f : Is(f)
<1>1. n \in Nat /\ F \in [Nat -> [V -> V]] /\ <<>> \in V
  OBVIOUS
<1>2. \A i \in 1 .. n, q \in V :
        F[i][q] = IF Retained(ss[i]) THEN Append(q, ss[i]) ELSE q
  BY <1>1
<1>3. PICK g \in [0 .. n -> V] : g[0] = <<>> /\ \A i \in 1 .. n : g[i] = F[i][g[i - 1]]
  <2> HIDE DEF F, n, V
  <2>1. Recursible(V)
    BY RecursionDefines
  <2> QED
    BY <1>1, <2>1, ZenonT(60) DEF Recursible
<1> HIDE DEF F
<1>4. ASSUME NEW i \in 1 .. n
      PROVE  g[i] = IF Retained(ss[i]) THEN Append(g[i - 1], ss[i]) ELSE g[i - 1]
  <2>1. i - 1 \in 0 .. n
    BY <1>1
  <2> QED
    BY <1>2, <1>3, <2>1
<1>5. Is(g)
  <2>1. ASSUME NEW i \in 0 .. Len(ss)
        PROVE  g[i] = IF i = 0 THEN <<>>
                      ELSE IF Retained(ss[i]) THEN Append(g[i - 1], ss[i]) ELSE g[i - 1]
    <3>1. CASE i = 0
      BY <1>3, <3>1
    <3>2. CASE i # 0
      <4>1. i \in 1 .. n
        BY <1>1, <3>2
      <4> QED
        BY <1>4, <3>2, <4>1
    <3> QED
      BY <3>1, <3>2
  <2> QED
    BY <2>1, Zenon
<1>6. Is(kept)
  <2> HIDE DEF Is
  <2> QED
    BY <1>5
<1>7. Kept(ss) = kept[n]
  BY DEF Kept
<1> HIDE DEF kept
<1>8. /\ kept[0] = <<>>
      /\ \A i \in 1 .. n :
           kept[i] = IF Retained(ss[i]) THEN Append(kept[i - 1], ss[i]) ELSE kept[i - 1]
  <2>1. \A i \in 0 .. Len(ss) :
          kept[i] = IF i = 0 THEN <<>>
                    ELSE IF Retained(ss[i]) THEN Append(kept[i - 1], ss[i]) ELSE kept[i - 1]
    BY <1>6, Zenon
  <2> QED
    BY <1>1, <2>1
<1> HIDE DEF Is
<1>9. \A i \in 0 .. n : kept[i] = g[i]
  <2> DEFINE S == {i \in Nat : i \in 0 .. n => kept[i] = g[i]}
  <2>1. 0 \in S
    BY <1>3, <1>8
  <2>2. ASSUME NEW i \in Nat, i \in S PROVE i + 1 \in S
    BY <1>4, <1>8, <2>2
  <2>3. Nat \subseteq S
    <3> HIDE DEF S
    <3> QED
      BY <2>1, <2>2, SetInduction
  <2> QED
    BY <2>3
<1>10. /\ g[0] = <<>> /\ Kept(ss) = g[n]
       /\ \A i \in 1 .. n :
            g[i] = IF Retained(ss[i]) THEN Append(g[i - 1], ss[i]) ELSE g[i - 1]
  BY <1>1, <1>3, <1>4, <1>7, <1>9
<1> QED
  BY <1>10

\* retain(): slots of the list before, in its order, that may stay.
LEMMA KeptFacts ==
  ASSUME NEW ss \in Seq(Slot)
  PROVE  /\ Kept(ss) \in Seq(Slot) /\ Len(Kept(ss)) <= Len(ss)
         /\ \A p \in DOMAIN Kept(ss) :
              \E j \in DOMAIN ss : Kept(ss)[p] = ss[j] /\ Retained(ss[j])
         /\ Distinct(ss) => Distinct(Kept(ss))
<1> DEFINE n == Len(ss)
<1>1. PICK f \in [0 .. n -> Seq(Slot)] :
        /\ f[0] = <<>> /\ Kept(ss) = f[n]
        /\ \A i \in 1 .. n :
             f[i] = IF Retained(ss[i]) THEN Append(f[i - 1], ss[i]) ELSE f[i - 1]
  BY KeptEquations
<1> DEFINE Sound(i) ==
             /\ Len(f[i]) <= i
             /\ \A p \in DOMAIN f[i] : \E j \in 1 .. i : f[i][p] = ss[j] /\ Retained(ss[j])
             /\ Distinct(ss) => Distinct(f[i])
           S == {i \in Nat : i \in 0 .. n => Sound(i)}
<1>2. 0 \in S
  BY <1>1 DEF Distinct
<1>3. ASSUME NEW i \in Nat, i \in S, i + 1 \in 0 .. n PROVE Sound(i + 1)
  <2>1. i \in 0 .. n /\ i + 1 \in 1 .. n /\ (i + 1) - 1 = i /\ n \in Nat /\ Sound(i)
    BY <1>3
  <2>2. f[i] \in Seq(Slot) /\ ss[i + 1] \in Slot
    BY <2>1
  <2>3. CASE ~Retained(ss[i + 1])
    <3>1. f[i + 1] = f[i]
      BY <1>1, <2>1, <2>3
    <3> QED
      BY <2>1, <2>2, <3>1
  <2>4. CASE Retained(ss[i + 1])
    <3> DEFINE q == f[i]
               r == f[i + 1]
    <3>1. r = Append(q, ss[i + 1]) /\ q \in Seq(Slot)
      BY <1>1, <2>1, <2>2, <2>4
    <3>2. /\ Len(r) = Len(q) + 1 /\ DOMAIN r = 1 .. Len(q) + 1 /\ DOMAIN q = 1 .. Len(q)
          /\ r[Len(q) + 1] = ss[i + 1] /\ \A p \in DOMAIN q : r[p] = q[p]
      BY <2>2, <3>1
    <3>3. /\ Len(q) <= i
          /\ \A p \in DOMAIN q : \E j \in 1 .. i : q[p] = ss[j] /\ Retained(ss[j])
          /\ Distinct(ss) => Distinct(q)
      BY <2>1
    <3> HIDE DEF q, r
    <3>4. Len(r) <= i + 1
      BY <3>1, <3>2, <3>3
    <3>5. \A p \in DOMAIN r : \E j \in 1 .. i + 1 : r[p] = ss[j] /\ Retained(ss[j])
      BY <2>1, <2>4, <3>1, <3>2, <3>3
    <3>6. ASSUME Distinct(ss) PROVE Distinct(r)
      <4>1. \A p \in DOMAIN q : AddrOf[q[p].backend] # AddrOf[ss[i + 1].backend]
        <5> TAKE p \in DOMAIN q
        <5>1. PICK j \in 1 .. i : q[p] = ss[j]
          BY <3>3
        <5>2. j \in DOMAIN ss /\ i + 1 \in DOMAIN ss /\ j # i + 1
          BY <2>1
        <5> QED
          BY <3>6, <5>1, <5>2 DEF Distinct
      <4> QED
        BY <3>1, <3>2, <3>3, <3>6, <4>1 DEF Distinct
    <3> QED
      BY <3>4, <3>5, <3>6 DEF r
  <2> QED
    BY <2>3, <2>4
<1>4. n \in Nat /\ Sound(n)
  <2> HIDE DEF Sound
  <2>1. Nat \subseteq S
    <3>1. \A i \in Nat : i \in S => i + 1 \in S
      BY <1>3
    <3> HIDE DEF S
    <3> QED
      BY <1>2, <3>1, SetInduction
  <2>2. n \in Nat
    OBVIOUS
  <2> QED
    BY <2>1, <2>2
<1>5. /\ Kept(ss) = f[n] /\ f[n] \in Seq(Slot) /\ DOMAIN ss = 1 .. n
  BY <1>1, <1>4
<1> QED
  BY <1>4, <1>5, SMTT(40)

QueuesOK == primary \subseteq Backends /\ backup \subseteq Backends

\* What the loop over overdue slots has at hand: its slots are those of the list
\* before, or hold a backend that can serve, and their addresses are all used.
Reached(ss) ==
  {o \in [slots : Seq(Slot), used : SUBSET {AddrOf[b] : b \in Backends}] :
     /\ Len(o.slots) = Len(ss)
     /\ \A j \in DOMAIN ss :
          /\ o.slots[j].idle = ss[j].idle
          /\ \/ o.slots[j] = ss[j]
             \/ o.slots[j].backend \in Served /\ Selectable(o.slots[j].backend)
     /\ \A j \in DOMAIN ss : AddrOf[o.slots[j].backend] \in o.used
     /\ Distinct(ss) => Distinct(o.slots)}

\* A round of the loop keeps to it.
LEMMA RotatedReached ==
  ASSUME QueuesOK, NEW ss \in Seq(Slot), NEW o \in Reached(ss), NEW i \in 1 .. Len(ss)
  PROVE  Rotated(o, i) \subseteq Reached(ss)
<1> SUFFICES ASSUME NEW r \in Rotated(o, i) PROVE r \in Reached(ss)
  OBVIOUS
<1>1. CASE r = o
  BY <1>1
<1>2. CASE r # o
  <2>1. PICK b \in ActiveUnused(o.used) :
          r = [slots |-> [o.slots EXCEPT ![i].backend = b, ![i].age = 0],
               used |-> o.used \cup {AddrOf[b]}]
    BY <1>2 DEF Rotated, UsedAfter
  <2>2. /\ b \in Served /\ Selectable(b) /\ AddrOf[b] \notin o.used /\ b \in Backends
    BY DEF ActiveUnused, Served, QueuesOK
  <2>3. /\ o.slots \in Seq(Slot) /\ Len(o.slots) = Len(ss) /\ i \in DOMAIN o.slots
        /\ DOMAIN o.slots = 1 .. Len(ss) /\ DOMAIN ss = 1 .. Len(ss)
        /\ o.slots[i] \in Slot /\ o.used \subseteq {AddrOf[c] : c \in Backends}
    BY DEF Reached
  <2> DEFINE s == [o.slots[i] EXCEPT !.backend = b, !.age = 0]
             q == [o.slots EXCEPT ![i] = s]
  <2>4. r = [slots |-> q, used |-> o.used \cup {AddrOf[b]}]
    BY <2>1, <2>3
  <2>5. s \in Slot /\ s.backend = b /\ s.idle = o.slots[i].idle
    <3>1. /\ o.slots[i] \in [backend : Backends, age : Nat, idle : 0 .. Ttl, interval : Nat]
          /\ o.slots[i].interval \in Nat
      BY <2>3 DEF Slot
    <3>2. /\ s \in [backend : Backends, age : Nat, idle : 0 .. Ttl, interval : Nat]
          /\ s.age = 0 /\ s.interval = o.slots[i].interval
          /\ s.backend = b /\ s.idle = o.slots[i].idle
      BY <2>2, <3>1
    <3> HIDE DEF s
    <3> QED
      BY <3>1, <3>2 DEF Slot
  <2> HIDE DEF s
  <2>6. /\ q \in Seq(Slot) /\ Len(q) = Len(ss) /\ DOMAIN q = 1 .. Len(ss)
        /\ q[i] = s /\ \A j \in 1 .. Len(ss) : j # i => q[j] = o.slots[j]
    BY <2>3, <2>5
  <2> HIDE DEF q
  <2>7. r.slots = q /\ r.used = o.used \cup {AddrOf[b]}
        /\ r \in [slots : Seq(Slot), used : SUBSET {AddrOf[c] : c \in Backends}]
    BY <2>2, <2>3, <2>4, <2>6
  <2>8. \A j \in DOMAIN ss :
          /\ q[j].idle = ss[j].idle
          /\ \/ q[j] = ss[j]
             \/ q[j].backend \in Served /\ Selectable(q[j].backend)
          /\ AddrOf[q[j].backend] \in o.used \cup {AddrOf[b]}
    BY <2>2, <2>3, <2>5, <2>6 DEF Reached
  <2>9. ASSUME Distinct(ss) PROVE Distinct(q)
    <3>1. Distinct(o.slots) /\ \A j \in DOMAIN ss : AddrOf[o.slots[j].backend] \in o.used
      BY <2>9 DEF Reached
    <3> QED
      BY <2>2, <2>3, <2>5, <2>6, <3>1 DEF Distinct
  <2> QED
    BY <2>6, <2>7, <2>8, <2>9 DEF Reached
<1> QED
  BY <1>1, <1>2

\* So does the loop.
LEMMA RotationsReached ==
  ASSUME QueuesOK, NEW ss \in Seq(Slot), NEW new \in Rotations(ss)
  PROVE  \E o \in Reached(ss) : new = o.slots
<1> DEFINE n == Len(ss)
           V == SUBSET Reached(ss)
           start == {[slots |-> ss, used |-> Addrs(ss)]}
           F == [i \in Nat |-> [q \in V |->
                  IF i \in 1 .. n THEN UNION {Rotated(o, i) : o \in q} ELSE q]]
           Is(f) == f = [i \in 0 .. Len(ss) |->
                  IF i = 0 THEN {[slots |-> ss, used |-> Addrs(ss)]}
                  ELSE UNION {Rotated(o, i) : o \in f[i - 1]}]
           rounds == CHOOSE f : Is(f)
<1>1. n \in Nat /\ start \in V
  BY DEF Reached, Addrs, Slot
<1>2. \A i \in 1 .. n, q \in V : UNION {Rotated(o, i) : o \in q} \in V
  BY RotatedReached
<1>3. F \in [Nat -> [V -> V]]
  BY <1>2
<1>4. \A i \in 1 .. n, q \in V : F[i][q] = UNION {Rotated(o, i) : o \in q}
  BY <1>1
<1>5. PICK g \in [0 .. n -> V] : g[0] = start /\ \A i \in 1 .. n : g[i] = F[i][g[i - 1]]
  <2> HIDE DEF F, n, V, start
  <2>1. Recursible(V)
    BY RecursionDefines
  <2> QED
    BY <1>1, <1>3, <2>1, ZenonT(60) DEF Recursible
<1> HIDE DEF F
<1>6. ASSUME NEW i \in 1 .. n
      PROVE  g[i] = UNION {Rotated(o, i) : o \in g[i - 1]}
  <2>1. i - 1 \in 0 .. n
    BY <1>1
  <2> QED
    BY <1>4, <1>5, <2>1
<1>7. Is(g)
  <2>1. ASSUME NEW i \in 0 .. Len(ss)
        PROVE  g[i] = IF i = 0 THEN {[slots |-> ss, used |-> Addrs(ss)]}
                      ELSE UNION {Rotated(o, i) : o \in g[i - 1]}
    <3>1. CASE i = 0
      BY <1>5, <3>1
    <3>2. CASE i # 0
      <4>1. i \in 1 .. n
        BY <1>1, <3>2
      <4> QED
        BY <1>6, <3>2, <4>1
    <3> QED
      BY <3>1, <3>2
  <2> QED
    BY <2>1, Zenon
<1>8. Is(rounds)
  <2> HIDE DEF Is
  <2> QED
    BY <1>7
<1>9. Rotations(ss) = {o.slots : o \in rounds[n]}
  BY DEF Rotations
<1> HIDE DEF rounds
<1>10. \A i \in 0 .. Len(ss) :
         rounds[i] = IF i = 0 THEN {[slots |-> ss, used |-> Addrs(ss)]}
                     ELSE UNION {Rotated(o, i) : o \in rounds[i - 1]}
  BY <1>8, Zenon
<1> HIDE DEF Is
<1>11. rounds[n] \in V
  <2> DEFINE S == {i \in Nat : i \in 0 .. n => rounds[i] \in V}
  <2>1. 0 \in S
    BY <1>1, <1>10
  <2>2. ASSUME NEW i \in Nat, i \in S PROVE i + 1 \in S
    <3> SUFFICES ASSUME i + 1 \in 0 .. n PROVE rounds[i + 1] \in V
      OBVIOUS
    <3>1. i \in 0 .. n /\ i + 1 \in 1 .. n /\ i + 1 # 0 /\ (i + 1) - 1 = i
      BY <1>1
    <3>2. rounds[i] \in V
      BY <2>2, <3>1
    <3>3. rounds[i + 1] = UNION {Rotated(o, i + 1) : o \in rounds[i]}
      BY <1>1, <1>10, <3>1
    <3> HIDE DEF V
    <3> QED
      BY <1>2, <3>1, <3>2, <3>3
  <2>3. Nat \subseteq S
    <3> HIDE DEF S
    <3> QED
      BY <2>1, <2>2, SetInduction
  <2> QED
    BY <1>1, <2>3
<1> QED
  BY <1>9, <1>11

----------------------------------------------------------------------------
(* The inductive invariant *)

\* A selectable backend that the balancer knows has not left the queues, unless
\* it was revived after it had.
StraysKnown ==
  \A b \in Known : Selectable(b) => b \in Queued \cup revived

\* While a queue that could serve waits, no slot is used, so that all expire.
SlotsIdle == \A i \in DOMAIN slots : stranded <= slots[i].idle

StickyInv ==
  /\ QueuesOK
  /\ st \in [Backends -> {"unsampled", "warming", "active", "isolated", "removed"}]
  /\ slots \in Seq(Slot) /\ Len(slots) <= MaxSlots
  /\ sinceExpand \in 0 .. ExpandInterval
  /\ held \in [Handlers -> Backends \cup {None}]
  /\ revived \subseteq Backends
  /\ stranded \in 0 .. Ttl - 1
  /\ Distinct(slots) /\ StraysKnown /\ SlotsIdle

\* Of the backends that could serve and are not used, one has the least load.
LEMMA UnusedFound ==
  ASSUME NEW used, NEW b \in Served, Selectable(b), AddrOf[b] \notin used
  PROVE  ActiveUnused(used) # {}
<1> DEFINE unused == {c \in Served : Selectable(c) /\ AddrOf[c] \notin used}
           loads == {Load(c) : c \in unused}
<1>1. \A c : Load(c) \in Nat
  <2> TAKE c
  <2>1. {h \in Handlers : held[h] = c} \subseteq Handlers
    OBVIOUS
  <2> QED
    BY <2>1, StickyAssumption, FS_Subset, FS_CardinalityType DEF Load
<1>2. b \in unused /\ Load(b) \in loads /\ loads \in SUBSET Nat
  BY <1>1
<1>3. \E n \in loads : \A m \in loads : n <= m
  <2> HIDE DEF loads
  <2> QED
    BY <1>2, LeastOfSet
<1>4. PICK c \in unused : \A d \in unused : Load(c) <= Load(d)
  BY <1>3
<1>5. c \in ActiveUnused(used)
  BY <1>4 DEF ActiveUnused
<1> QED
  BY <1>5

\* Time makes slots of slots.
LEMMA AgedSlots ==
  ASSUME StickyInv, NEW gap \in 1 .. MaxGap
  PROVE  LET aged == [i \in DOMAIN slots |-> Aged(slots[i], gap)] IN
           /\ aged \in Seq(Slot) /\ Len(aged) = Len(slots) /\ Distinct(aged)
           /\ \A i \in DOMAIN slots :
                /\ aged[i].backend = slots[i].backend
                /\ aged[i].idle = Lesser(slots[i].idle + gap, Ttl)
<1>1. /\ slots \in Seq(Slot) /\ Len(slots) \in Nat /\ DOMAIN slots = 1 .. Len(slots)
      /\ gap \in Nat /\ Ttl \in Nat
  BY StickyAssumption DEF StickyInv
<1>2. ASSUME NEW s \in Slot
      PROVE  /\ Aged(s, gap) \in Slot /\ Aged(s, gap).backend = s.backend
             /\ Aged(s, gap).idle = Lesser(s.idle + gap, Ttl)
  <2>1. /\ s \in [backend : Backends, age : Nat, idle : 0 .. Ttl, interval : Nat]
        /\ s.age <= s.interval /\ s.age \in Nat /\ s.interval \in Nat /\ s.idle \in Nat
    BY DEF Slot
  <2>2. /\ Lesser(s.age + gap, s.interval) \in Nat
        /\ Lesser(s.age + gap, s.interval) <= s.interval
        /\ Lesser(s.idle + gap, Ttl) \in 0 .. Ttl
    BY <1>1, <2>1 DEF Lesser
  <2>3. /\ Aged(s, gap) \in [backend : Backends, age : Nat, idle : 0 .. Ttl, interval : Nat]
        /\ Aged(s, gap).backend = s.backend /\ Aged(s, gap).interval = s.interval
        /\ Aged(s, gap).age = Lesser(s.age + gap, s.interval)
        /\ Aged(s, gap).idle = Lesser(s.idle + gap, Ttl)
    BY <2>1, <2>2 DEF Aged
  <2> QED
    BY <2>2, <2>3 DEF Slot
<1> DEFINE aged == [i \in DOMAIN slots |-> Aged(slots[i], gap)]
<1>3. \A i \in DOMAIN slots : slots[i] \in Slot /\ aged[i] = Aged(slots[i], gap)
  BY <1>1
<1>4. aged \in Seq(Slot) /\ Len(aged) = Len(slots) /\ DOMAIN aged = DOMAIN slots
  BY <1>1, <1>2, <1>3
<1> HIDE DEF aged
<1>5. Distinct(aged)
  BY <1>2, <1>3, <1>4 DEF StickyInv, Distinct
<1>6. /\ aged \in Seq(Slot) /\ Len(aged) = Len(slots) /\ Distinct(aged)
      /\ \A i \in DOMAIN slots :
           /\ aged[i].backend = slots[i].backend
           /\ aged[i].idle = Lesser(slots[i].idle + gap, Ttl)
  BY <1>2, <1>3, <1>4, <1>5
<1> QED
  BY <1>6 DEF aged

\* What a pass leaves: a slot holds a backend that can serve, or it is one of
\* before and grown older, though not expired where there is a queue to serve.
\* If any backend can serve, there is a slot.
LEMMA PassFacts ==
  ASSUME StickyInv, NEW gap \in 1 .. MaxGap, Maintain(gap)
  PROVE  /\ slots' \in Seq(Slot) /\ Len(slots') <= MaxSlots /\ Distinct(slots')
         /\ sinceExpand' \in 0 .. ExpandInterval
         /\ \A i \in DOMAIN slots' :
              \/ slots'[i].backend \in Served /\ Selectable(slots'[i].backend)
              \/ \E j \in DOMAIN slots :
                   /\ slots'[i].backend = slots[j].backend
                   /\ slots'[i].idle = Lesser(slots[j].idle + gap, Ttl)
                   /\ Served # {} => slots'[i].idle < Ttl
         /\ (\E b \in Served : Selectable(b)) => slots' # <<>>
<1> DEFINE aged == [i \in DOMAIN slots |-> Aged(slots[i], gap)]
           since == Lesser(sinceExpand + gap, ExpandInterval)
           kept == Kept(aged)
<1>1. /\ aged \in Seq(Slot) /\ Len(aged) = Len(slots) /\ Distinct(aged)
      /\ \A i \in DOMAIN slots :
           /\ aged[i].backend = slots[i].backend
           /\ aged[i].idle = Lesser(slots[i].idle + gap, Ttl)
  BY AgedSlots
<1>2. IF Served = {} THEN slots' = aged /\ sinceExpand' = since
      ELSE \E ss \in Rotations(kept) :
             IF ShouldExpand(ss, since) /\ ActiveUnused(Addrs(ss)) # {}
               THEN /\ \E b \in ActiveUnused(Addrs(ss)) :
                         slots' = Append(ss, NewSlot(b, Len(ss)))
                    /\ sinceExpand' = 0
               ELSE slots' = ss /\ sinceExpand' = since
  BY DEF Maintain
<1> HIDE DEF aged
<1>3. since \in 0 .. ExpandInterval /\ MaxSlots \in Nat \ {0}
  BY StickyAssumption DEF StickyInv, Lesser
<1> HIDE DEF since
<1>4. /\ kept \in Seq(Slot) /\ Len(kept) <= Len(slots) /\ Distinct(kept)
      /\ \A p \in DOMAIN kept :
           \E j \in DOMAIN slots : kept[p] = aged[j] /\ Retained(aged[j])
  <2>1. DOMAIN aged = DOMAIN slots
    BY <1>1 DEF StickyInv
  <2> QED
    BY <1>1, <2>1, KeptFacts
<1> HIDE DEF kept
<1>5. CASE Served = {}
  <2>1. slots' = aged /\ sinceExpand' = since
    BY <1>2, <1>5
  <2>2. DOMAIN aged = DOMAIN slots /\ Len(aged) <= MaxSlots
    BY <1>1 DEF StickyInv
  <2> QED
    BY <1>1, <1>3, <1>5, <2>1, <2>2
<1>6. CASE Served # {}
  <2>1. PICK ss \in Rotations(kept) :
          IF ShouldExpand(ss, since) /\ ActiveUnused(Addrs(ss)) # {}
            THEN /\ \E b \in ActiveUnused(Addrs(ss)) :
                      slots' = Append(ss, NewSlot(b, Len(ss)))
                 /\ sinceExpand' = 0
            ELSE slots' = ss /\ sinceExpand' = since
    BY <1>2, <1>6
  <2>2. PICK o \in Reached(kept) : ss = o.slots
    BY <1>4, RotationsReached DEF StickyInv
  <2>3. /\ ss \in Seq(Slot) /\ Len(ss) = Len(kept) /\ DOMAIN ss = DOMAIN kept
        /\ Distinct(ss)
        /\ \A j \in DOMAIN kept :
             /\ ss[j].idle = kept[j].idle
             /\ \/ ss[j] = kept[j]
                \/ ss[j].backend \in Served /\ Selectable(ss[j].backend)
    BY <1>4, <2>2 DEF Reached
  <2>4. Len(ss) \in Nat /\ DOMAIN ss = 1 .. Len(ss) /\ Len(ss) <= MaxSlots
    BY <1>3, <1>4, <2>3 DEF StickyInv
  <2>5. \A i \in DOMAIN ss :
          \/ ss[i].backend \in Served /\ Selectable(ss[i].backend)
          \/ \E j \in DOMAIN slots :
               /\ ss[i].backend = slots[j].backend
               /\ ss[i].idle = Lesser(slots[j].idle + gap, Ttl)
               /\ ss[i].idle < Ttl
    <3> TAKE i \in DOMAIN ss
    <3>1. CASE ss[i] # kept[i]
      BY <2>3, <3>1
    <3>2. CASE ss[i] = kept[i]
      <4>1. PICK j \in DOMAIN slots : kept[i] = aged[j] /\ Retained(aged[j])
        BY <1>4, <2>3
      <4>2. ss[i].idle \in 0 .. Ttl /\ ~(ss[i].idle >= Ttl) /\ Ttl \in Nat
        BY <2>3, <3>2, <4>1, StickyAssumption DEF Retained, Expired, Slot
      <4> QED
        BY <1>1, <3>2, <4>1, <4>2
    <3> QED
      BY <3>1, <3>2
  <2>6. CASE ShouldExpand(ss, since) /\ ActiveUnused(Addrs(ss)) # {}
    <3>1. PICK b \in ActiveUnused(Addrs(ss)) : slots' = Append(ss, NewSlot(b, Len(ss)))
      BY <2>1, <2>6
    <3> DEFINE s == NewSlot(b, Len(ss))
    <3>2. /\ b \in Served /\ Selectable(b) /\ AddrOf[b] \notin Addrs(ss) /\ b \in Backends
      BY DEF ActiveUnused, Served, QueuesOK, StickyInv
    <3>3. s \in Slot /\ s.backend = b
      <4>1. BaseInterval + Len(ss) * Increment \in Nat /\ Ttl \in Nat
        BY <2>4, StickyAssumption
      <4> QED
        BY <3>2, <4>1 DEF NewSlot, Slot
    <3>4. Len(ss) < MaxSlots
      BY <1>3, <2>4, <2>6 DEF ShouldExpand
    <3> HIDE DEF s
    <3>5. slots' = Append(ss, s)
      BY <3>1 DEF s
    <3>6. /\ slots' \in Seq(Slot) /\ Len(slots') = Len(ss) + 1
          /\ DOMAIN slots' = 1 .. Len(ss) + 1
          /\ slots'[Len(ss) + 1] = s /\ \A i \in DOMAIN ss : slots'[i] = ss[i]
      BY <2>3, <2>4, <3>3, <3>5
    <3>7. Distinct(slots')
      <4>1. \A i \in DOMAIN ss : AddrOf[ss[i].backend] # AddrOf[s.backend]
        BY <3>2, <3>3 DEF Addrs
      <4> QED
        BY <2>3, <2>4, <3>6, <4>1 DEF Distinct
    <3>8. sinceExpand' \in 0 .. ExpandInterval /\ Len(slots') <= MaxSlots /\ slots' # <<>>
      BY <1>3, <2>1, <2>4, <2>6, <3>4, <3>6, StickyAssumption
    <3>9. \A i \in DOMAIN slots' : i \in DOMAIN ss \/ slots'[i].backend = b
      BY <2>4, <3>3, <3>6
    <3> QED
      BY <2>5, <3>2, <3>6, <3>7, <3>8, <3>9
  <2>7. CASE ~(ShouldExpand(ss, since) /\ ActiveUnused(Addrs(ss)) # {})
    <3>1. slots' = ss /\ sinceExpand' = since
      BY <2>1, <2>7
    <3>2. ASSUME NEW b \in Served, Selectable(b), ss = <<>> PROVE FALSE
      <4>1. Addrs(ss) = {} /\ ShouldExpand(ss, since)
        BY <3>2 DEF Addrs, ShouldExpand
      <4> QED
        BY <2>7, <3>2, <4>1, UnusedFound
    <3> QED
      BY <1>3, <2>3, <2>4, <2>5, <3>1, <3>2
  <2> QED
    BY <2>6, <2>7
<1> QED
  BY <1>5, <1>6

\* A pass keeps the invariant.
LEMMA MaintainStep ==
  ASSUME StickyInv, NEW gap \in 1 .. MaxGap, Maintain(gap), CountStranded(gap)
  PROVE  StickyInv'
<1>1. /\ slots' \in Seq(Slot) /\ Len(slots') <= MaxSlots /\ Distinct(slots')
      /\ sinceExpand' \in 0 .. ExpandInterval
      /\ \A i \in DOMAIN slots' :
           \/ slots'[i].backend \in Served /\ Selectable(slots'[i].backend)
           \/ \E j \in DOMAIN slots :
                /\ slots'[i].backend = slots[j].backend
                /\ slots'[i].idle = Lesser(slots[j].idle + gap, Ttl)
                /\ Served # {} => slots'[i].idle < Ttl
      /\ (\E b \in Served : Selectable(b)) => slots' # <<>>
  BY PassFacts
<1>2. /\ primary' = primary /\ backup' = backup /\ held' = held
      /\ st' = [b \in Backends |->
                 IF b \in Queued' \/ (b \in Known' /\ st[b] # "isolated")
                   THEN st[b] ELSE "removed"]
      /\ revived' = revived \cap Known'
  BY DEF Maintain, KeepKnown, queueVars
<1>3. Queued' = Queued /\ Served \subseteq Queued /\ Queued \subseteq Backends
  BY <1>2 DEF Queued, Served, StickyInv, QueuesOK
<1>4. /\ Known' = Queued \cup {slots'[i].backend : i \in DOMAIN slots'}
      /\ Known' \subseteq Known /\ Known \subseteq Backends
  <2>1. \A i \in DOMAIN slots : slots[i].backend \in Backends
    BY DEF StickyInv, Slot
  <2> QED
    BY <1>1, <1>3, <2>1 DEF Known
<1>5. \A b \in Backends : /\ Selectable(b)' => Selectable(b)
                          /\ b \in Queued /\ Selectable(b) => Selectable(b)'
  BY <1>2, <1>3 DEF Selectable
<1>6. StraysKnown'
  BY <1>2, <1>3, <1>4, <1>5 DEF StraysKnown, StickyInv
<1>7. /\ st' \in [Backends -> {"unsampled", "warming", "active", "isolated", "removed"}]
      /\ revived' \subseteq Backends
  BY <1>2 DEF StickyInv
<1>8. stranded' \in 0 .. Ttl - 1 /\ SlotsIdle'
  <2>1. Ttl \in Nat \ {0} /\ gap \in Nat /\ stranded \in 0 .. Ttl - 1
    BY StickyAssumption DEF StickyInv
  <2>2. /\ \A j \in DOMAIN slots : slots[j].idle \in 0 .. Ttl /\ stranded <= slots[j].idle
        /\ \A i \in DOMAIN slots' : slots'[i].idle \in 0 .. Ttl
    <3>1. \A s \in Slot : s.idle \in 0 .. Ttl
      BY DEF Slot
    <3>2. \A i \in DOMAIN slots' : slots'[i] \in Slot
      BY <1>1
    <3>3. \A j \in DOMAIN slots : slots[j] \in Slot /\ stranded <= slots[j].idle
      BY DEF StickyInv, SlotsIdle
    <3> QED
      BY <3>1, <3>2, <3>3
  <2>3. CASE ~(Stranded /\ Stranded')
    <3>1. stranded' = 0
      BY <2>3 DEF CountStranded
    <3> QED
      BY <2>1, <2>2, <3>1 DEF SlotsIdle
  <2>4. CASE Stranded /\ Stranded'
    <3>1. stranded' = Lesser(stranded + gap, Ttl)
      BY <2>4 DEF CountStranded
    <3>2. \E b \in Served : Selectable(b)
      BY <2>4 DEF Stranded
    <3>3. \A i \in DOMAIN slots' : st'[slots'[i].backend] \notin {"active", "warming"}
      <4>1. Usable' = {}
        BY <2>4 DEF Stranded
      <4> QED
        BY <4>1 DEF Usable, Selectable
    <3>4. \A i \in DOMAIN slots' : \E j \in DOMAIN slots :
            slots'[i].idle = Lesser(slots[j].idle + gap, Ttl) /\ slots'[i].idle < Ttl
      <4> TAKE i \in DOMAIN slots'
      <4>1. ~(slots'[i].backend \in Served /\ Selectable(slots'[i].backend))
        BY <1>3, <1>5, <3>3 DEF Selectable
      <4>2. Served # {}
        BY <3>2
      <4> QED
        BY <1>1, <4>1, <4>2
    <3>5. \A i \in DOMAIN slots' : stranded' <= slots'[i].idle /\ slots'[i].idle < Ttl
      BY <2>1, <2>2, <3>1, <3>4 DEF Lesser
    <3>6. 1 \in DOMAIN slots' /\ stranded' \in Nat
      BY <1>1, <2>1, <3>1, <3>2 DEF Lesser
    <3>7. stranded' < Ttl
      BY <2>1, <2>2, <3>5, <3>6
    <3> QED
      BY <2>1, <3>5, <3>6, <3>7 DEF SlotsIdle
  <2> QED
    BY <2>3, <2>4
<1> QED
  BY <1>1, <1>2, <1>6, <1>7, <1>8 DEF StickyInv, QueuesOK

\* Whatever leaves the slots alone, or touches an access time while one is
\* usable, keeps their count of idle passes.
LEMMA IdleKept ==
  ASSUME StickyInv, CountStranded(0),
         \/ slots' = slots
         \/ /\ Usable # {} /\ slots' \in Seq(Slot)
  PROVE  stranded' \in 0 .. Ttl - 1 /\ SlotsIdle'
<1>1. Ttl \in Nat \ {0} /\ stranded \in 0 .. Ttl - 1
  BY StickyAssumption DEF StickyInv
<1>2. stranded' \in {0, stranded} /\ (Usable # {} => stranded' = 0)
  BY <1>1 DEF CountStranded, Stranded, Lesser
<1>3. slots' \in Seq(Slot) /\ \A i \in DOMAIN slots' : slots'[i].idle \in Nat
  BY DEF StickyInv, Slot
<1> QED
  BY <1>1, <1>2, <1>3 DEF SlotsIdle, StickyInv

\* What connections do keeps the invariant.
LEMMA SelectStep ==
  ASSUME StickyInv, NEW h \in Handlers, Select(h), CountStranded(0)
  PROVE  StickyInv'
<1>1. CASE SelectFromSlots(h)
  <2>1. PICK i \in Usable : /\ held' = [held EXCEPT ![h] = slots[i].backend]
                            /\ slots' = [slots EXCEPT ![i].idle = 0]
    BY <1>1 DEF SelectFromSlots, LighterOfTwo
  <2>2. /\ i \in DOMAIN slots /\ slots[i] \in Slot /\ slots \in Seq(Slot)
        /\ Usable # {} /\ Ttl \in Nat
    BY StickyAssumption DEF Usable, StickyInv
  <2> DEFINE s == [slots[i] EXCEPT !.idle = 0]
  <2>3. s \in Slot /\ s.backend = slots[i].backend
    <3>1. /\ s \in [backend : Backends, age : Nat, idle : 0 .. Ttl, interval : Nat]
          /\ s.age = slots[i].age /\ s.interval = slots[i].interval
          /\ s.backend = slots[i].backend /\ slots[i].age <= slots[i].interval
      <4>1. /\ slots[i] \in [backend : Backends, age : Nat, idle : 0 .. Ttl, interval : Nat]
            /\ slots[i].age <= slots[i].interval
        BY <2>2 DEF Slot
      <4> QED
        BY <2>2, <4>1
    <3> HIDE DEF s
    <3> QED
      BY <3>1 DEF Slot
  <2>4. slots' = [slots EXCEPT ![i] = s]
    BY <2>1, <2>2
  <2> HIDE DEF s
  <2>5. /\ slots' \in Seq(Slot) /\ Len(slots') = Len(slots)
        /\ DOMAIN slots' = DOMAIN slots
        /\ \A j \in DOMAIN slots : slots'[j].backend = slots[j].backend
    BY <2>2, <2>3, <2>4
  <2>6. Distinct(slots')
    BY <2>5 DEF Distinct, StickyInv
  <2>7. held' \in [Handlers -> Backends \cup {None}]
    BY <2>1, <2>2 DEF Slot, StickyInv
  <2>8. UNCHANGED <<primary, backup, st, sinceExpand, revived>>
    BY <1>1 DEF SelectFromSlots, queueVars
  <2>9. Known' = Known /\ Queued' = Queued
    BY <2>5, <2>8 DEF Known, Queued
  <2>10. StraysKnown'
    BY <2>8, <2>9 DEF StickyInv, StraysKnown, Selectable
  <2>11. stranded' \in 0 .. Ttl - 1 /\ SlotsIdle'
    BY <2>2, <2>5, IdleKept
  <2> QED
    BY <2>5, <2>6, <2>7, <2>8, <2>10, <2>11 DEF StickyInv, QueuesOK
<1>2. CASE SelectFromPool(h) \/ Release(h)
  <2>1. UNCHANGED <<primary, backup, st, slots, sinceExpand, revived>>
    BY <1>2 DEF SelectFromPool, Release, queueVars, slotVars
  <2>2. held' \in [Handlers -> Backends \cup {None}]
    <3>1. \E b \in Served \cup {None} : held' = [held EXCEPT ![h] = b]
      BY <1>2 DEF SelectFromPool, Release, LighterOfTwo
    <3> QED
      BY <3>1 DEF StickyInv, QueuesOK, Served
  <2>3. StraysKnown'
    BY <2>1 DEF StickyInv, StraysKnown, Selectable, Known, Queued
  <2>4. stranded' \in 0 .. Ttl - 1 /\ SlotsIdle'
    BY <2>1, IdleKept
  <2> QED
    BY <2>1, <2>2, <2>3, <2>4 DEF StickyInv, QueuesOK
<1> QED
  BY <1>1, <1>2 DEF Select

\* So does what other tasks do to the queues and to the states of backends.
LEMMA QueuesStep ==
  ASSUME StickyInv, Queues, CountStranded(0)
  PROVE  StickyInv'
<1> DEFINE States == {"unsampled", "warming", "active", "isolated", "removed"}
<1>1. UNCHANGED <<slots, sinceExpand, held>>
  BY DEF Queues, ResetMetrics, CleanupRemoved, Collect, MarkActive, Record, Promote,
         Refill, MarkDown, slotVars
<1>2. QueuesOK'
  BY DEF Queues, ResetMetrics, CleanupRemoved, Collect, MarkActive, Record, Promote,
         Refill, MarkDown, queueVars, QueuesOK, StickyInv
<1>3. Known \subseteq Backends /\ Queued \subseteq Known
  <2>1. \A i \in DOMAIN slots : slots[i].backend \in Backends
    BY DEF StickyInv, Slot
  <2> QED
    BY <2>1 DEF Known, Queued, StickyInv, QueuesOK
<1>4. st' \in [Backends -> States] /\ revived' \subseteq Backends /\ StraysKnown'
  <2> USE DEF StickyInv, StraysKnown, Selectable, QueuesOK
  <2>0. Known' = Queued' \cup {slots[i].backend : i \in DOMAIN slots}
    BY <1>1 DEF Known
  <2>1. CASE ResetMetrics
    BY <1>3, <2>0, <2>1 DEF ResetMetrics, Known, Queued, queueVars, slotVars
  <2>2. CASE CleanupRemoved
    BY <1>3, <2>0, <2>2 DEF CleanupRemoved, KeepKnown, Known, Queued
  <2>3. ASSUME NEW b \in Backends, Collect(b)
        PROVE  st' \in [Backends -> States] /\ revived' \subseteq Backends /\ StraysKnown'
    BY <1>3, <2>0, <2>3 DEF Collect, Known, Queued
  <2>4. ASSUME NEW b \in Backends, MarkActive(b)
        PROVE  st' \in [Backends -> States] /\ revived' \subseteq Backends /\ StraysKnown'
    BY <1>3, <2>0, <2>4 DEF MarkActive, Known, Queued, queueVars
  <2>5. ASSUME NEW b \in Backends, Record(b)
        PROVE  st' \in [Backends -> States] /\ revived' \subseteq Backends /\ StraysKnown'
    BY <1>3, <2>0, <2>5 DEF Record, Known, Queued, queueVars
  <2>6. ASSUME NEW b \in Backends, Promote(b)
        PROVE  st' \in [Backends -> States] /\ revived' \subseteq Backends /\ StraysKnown'
    BY <1>3, <2>0, <2>6 DEF Promote, Evictable, KeepKnown, Known, Queued
  <2>7. ASSUME NEW b \in Backends, Refill(b)
        PROVE  st' \in [Backends -> States] /\ revived' \subseteq Backends /\ StraysKnown'
    BY <1>3, <2>0, <2>7 DEF Refill, Known, Queued
  <2>8. ASSUME NEW b \in Backends, NEW m \in {"isolated", "removed"}, MarkDown(b, m)
        PROVE  st' \in [Backends -> States] /\ revived' \subseteq Backends /\ StraysKnown'
    BY <1>3, <2>0, <2>8 DEF MarkDown, KeepKnown, Known, Queued, queueVars
  <2> QED
    BY <2>1, <2>2, <2>3, <2>4, <2>5, <2>6, <2>7, <2>8 DEF Queues
<1>5. stranded' \in 0 .. Ttl - 1 /\ SlotsIdle'
  BY <1>1, IdleKept
<1> QED
  BY <1>1, <1>2, <1>4, <1>5 DEF StickyInv

\* StickyInv holds for ever.
LEMMA StickyInvariant == Spec => []StickyInv
<1>1. Init => StickyInv
  BY StickyAssumption
     DEF Init, StickyInv, QueuesOK, Distinct, StraysKnown, SlotsIdle, Known, Queued
<1>2. ASSUME StickyInv, UNCHANGED vars PROVE StickyInv'
  BY <1>2 DEF vars, queueVars, slotVars, StickyInv, QueuesOK, StraysKnown, SlotsIdle,
              Known, Queued, Selectable
<1>3. StickyInv /\ [Next]_vars => StickyInv'
  BY <1>2, MaintainStep, SelectStep, QueuesStep DEF Next
<1> QED
  BY <1>1, <1>3, PTL DEF Spec

----------------------------------------------------------------------------
(* What follows *)

\* For any settings: every variable keeps its type, and the slots never become
\* more than the setting allows (loadbalancer.rs:390-396).
THEOREM StickyTypes == Spec => []TypeOK
<1>1. StickyInv => TypeOK
  <2> SUFFICES ASSUME StickyInv PROVE TypeOK
    OBVIOUS
  <2>1. \A i \in DOMAIN slots :
          /\ slots[i].backend \in Backends /\ slots[i].age \in 0 .. slots[i].interval
          /\ slots[i].idle \in 0 .. Ttl
    BY DEF StickyInv, Slot
  <2> QED
    BY <2>1, StickyAssumption DEF StickyInv, TypeOK, QueuesOK
<1> QED
  BY <1>1, StickyInvariant, PTL

\* However many slots rotate in one pass, no two send to one address
\* (loadbalancer.rs:376-387).
THEOREM SlotsStayDistinct == Spec => []SlotsDistinct
<1>1. StickyInv => SlotsDistinct
  BY DEF StickyInv, Distinct, SlotsDistinct
<1> QED
  BY <1>1, StickyInvariant, PTL

\* A slot that is used holds a backend of the queues, or one revived by a mark or
\* a sample that came after the backend had left them (loadbalancer.rs:886).
THEOREM OnlyRevivedStray == Spec => []StraysRevived
<1>1. StickyInv => StraysRevived
  BY DEF StickyInv, StraysKnown, StraysRevived, Usable, Known
<1> QED
  BY <1>1, StickyInvariant, PTL

\* Slots that have all become unusable keep a queue that could serve waiting for
\* less than the time to live, whatever the intervals and however late a pass
\* comes (loadbalancer.rs:231, 364-399).
THEOREM NeverStranded == Spec => []StrandedBriefly
<1>1. StickyInv => StrandedBriefly
  BY StickyAssumption DEF StickyInv, StrandedBriefly
<1> QED
  BY <1>1, StickyInvariant, PTL
=============================================================================
