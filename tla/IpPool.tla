------------------------------- MODULE IpPool -------------------------------
(***************************************************************************)
(* The pool of candidate addresses (src/core/ip.rs): the sources are cut   *)
(* into segments, a CIDR segment into as many slots as it has samples, and *)
(* pop() takes one random address from the next slot, segment after        *)
(* segment, for ever.  One task pops, so nothing runs between its steps.   *)
(* Widths are parameters: addresses have AddrBits (32 or 128), the         *)
(* arithmetic WordBits (128), the slot count CountBits (64).               *)
(***************************************************************************)
EXTENDS Integers, Sequences, FiniteSets

CONSTANTS
  AddrBits, WordBits, CountBits,
  Threshold,        \* V4_SAMPLE_THRESHOLD_PREFIX, V6_SAMPLE_THRESHOLD_PREFIX
  PerSubnet,        \* DEFAULT_SAMPLES_PER_SUBNET
  SourceLists       \* the lists of sources the pool may be built from

\* An address, or a prefix with the number of samples asked for; 0 stands for
\* none, or one that does not parse.
Source ==
  [kind : {"ip"}, val : Nat] \cup
  [kind : {"cidr"}, val : 0 .. 2 ^ AddrBits - 1, len : 0 .. AddrBits, count : Nat]

ASSUME IpPoolAssumption ==
  /\ AddrBits \in Nat \ {0} /\ WordBits \in Nat /\ CountBits \in Nat \ {0}
  /\ AddrBits <= WordBits
  /\ Threshold \in 0 .. AddrBits /\ PerSubnet \in Nat \ {0}
  /\ \A sources \in SourceLists : sources \in Seq(Source)

VARIABLES
  segments,  \* IpPool::segments
  current,   \* each segment's cursor
  notified,  \* the segments whose exhausted_notified is set
  cursor,    \* IpPool::cursor
  active,    \* IpPool::active_count
  pc,        \* where pop() is: idle, head (of loop), scan, recycle
  scan,      \* the scan: its start_idx and i
  out        \* the slots served, the last Total of them, and their addresses

poolVars == <<current, notified, cursor, active>>
ipVars == <<segments, poolVars, pc, scan, out>>

----------------------------------------------------------------------------
(* From sources to segments *)

AtMost(n, bound) == IF n <= bound THEN n ELSE bound
AtLeast(n, bound) == IF n >= bound THEN n ELSE bound
MaxWord == 2 ^ WordBits - 1
Saturated(n) == AtMost(n, MaxWord)

IsSingle(s) == s.kind = "ip" \/ s.len = AddrBits

\* range_u128: the first and the last address of a prefix.
FirstOf(s) == s.val - (s.val % 2 ^ (AddrBits - s.len))
LastOf(s) == FirstOf(s) + 2 ^ (AddrBits - s.len) - 1
RangeSize(s) == Saturated(LastOf(s) - FirstOf(s) + 1)
AddressOf(s) == IF s.kind = "ip" THEN s.val ELSE FirstOf(s)

\* Mutant: a count larger than the range is taken as it is.
Uncapped(wanted, range) == wanted
\* Never more samples than addresses.
Capped(wanted, range) == AtMost(wanted, range)

SampleCount(s) ==
  Capped(IF s.count > 0 THEN s.count
         ELSE Saturated(2 ^ AtLeast(Threshold - s.len, 0) * PerSubnet),
         RangeSize(s))

Interval(s) == AtLeast(RangeSize(s) \div SampleCount(s), 1)
LastSize(s) ==
  Saturated(LastOf(s) - (FirstOf(s) + (SampleCount(s) - 1) * Interval(s)) + 1)

CidrSegment(s) ==
  [kind |-> "cidr", start |-> FirstOf(s), interval |-> Interval(s),
   lastSize |-> LastSize(s), total |-> SampleCount(s) % (2 ^ CountBits),
   end |-> LastOf(s)]

StaticSegment(singles) == [kind |-> "static", total |-> Len(singles), ips |-> singles]

\* What the loop over the sources collects of the first i of them.
Collected(sources) ==
  LET after[i \in 0 .. Len(sources)] ==
        IF i = 0 THEN [singles |-> <<>>, cidrs |-> <<>>]
        ELSE IF IsSingle(sources[i])
          THEN [after[i - 1] EXCEPT !.singles = Append(@, AddressOf(sources[i]))]
          ELSE [after[i - 1] EXCEPT !.cidrs = Append(@, CidrSegment(sources[i]))]
  IN  after[Len(sources)]

\* IpPool::new: the single addresses come first, as one segment.
SegmentsOf(sources) ==
  LET all == Collected(sources)
  IN  (IF all.singles = <<>> THEN <<>> ELSE <<StaticSegment(all.singles)>>) \o all.cidrs

Segs == DOMAIN segments
SlotsOf(s) == {s} \X (0 .. segments[s].total - 1)
Slots == UNION {SlotsOf(s) : s \in Segs}
\* total_count()
Total == Cardinality(Slots)

IpInit ==
  /\ \E sources \in SourceLists : segments = SegmentsOf(sources)
  /\ current = [s \in Segs |-> 0]
  /\ notified = {}
  /\ cursor = 0
  /\ active = Len(segments)
  /\ pc = "idle"
  /\ scan = [start |-> 0, i |-> 0]
  /\ out = <<>>

----------------------------------------------------------------------------
(* pop() *)

\* The last slot takes what the division leaves over.
SlotSize(s, idx) ==
  IF idx = segments[s].total - 1 THEN segments[s].lastSize
  ELSE segments[s].interval

\* next_ip: what slot idx may yield.
Addresses(s, idx) ==
  IF segments[s].kind = "static" THEN {segments[s].ips[idx + 1]}
  ELSE LET first == segments[s].start + idx * segments[s].interval
       IN first .. first + AtLeast(SlotSize(s, idx) - 1, 0)

\* Only the last Total slots matter: the window of one sweep.
Served(s, idx, a) ==
  LET grown == Append(out, [slot |-> <<s, idx>>, addr |-> a])
  IN IF Len(grown) > Total THEN Tail(grown) ELSE grown

Call ==
  /\ pc = "idle" /\ pc' = "head"
  /\ UNCHANGED <<segments, poolVars, scan, out>>

\* An empty pool: pop() returns None.
LoopHead ==
  /\ pc = "head"
  /\ IF active = 0 THEN pc' = "idle" /\ UNCHANGED <<cursor, scan>>
     ELSE /\ pc' = "scan"
          /\ scan' = [start |-> cursor, i |-> 0]
          /\ cursor' = cursor + 1
  /\ UNCHANGED <<segments, current, notified, active, out>>

Probed == ((scan.start + scan.i) % Len(segments)) + 1
NextSegment ==
  IF scan.i + 1 < Len(segments)
  THEN scan' = [scan EXCEPT !.i = @ + 1] /\ pc' = "scan"
  ELSE pc' = "recycle" /\ UNCHANGED scan

\* Mutant: the last slot is never served.
AllButLast(s) == current[s] < segments[s].total - 1
HasSlot(s) == current[s] < segments[s].total

\* next_ip moves the cursor whether or not the segment has a slot left.
Serve ==
  /\ pc = "scan" /\ HasSlot(Probed)
  /\ \E a \in Addresses(Probed, current[Probed]) :
       out' = Served(Probed, current[Probed], a)
  /\ current' = [current EXCEPT ![Probed] = @ + 1]
  /\ pc' = "idle"
  /\ UNCHANGED <<segments, notified, cursor, active, scan>>

\* Mutant: every failed probe counts.
Always(s) == TRUE
\* mark_exhausted_once
FirstTime(s) == s \notin notified

Skip ==
  /\ pc = "scan" /\ ~HasSlot(Probed)
  /\ current' = [current EXCEPT ![Probed] = @ + 1]
  /\ active' = IF FirstTime(Probed) THEN active - 1 ELSE active
  /\ notified' = notified \cup {Probed}
  /\ NextSegment
  /\ UNCHANGED <<segments, cursor, out>>

\* Mutant: the next cycle starts at whatever segment comes next.
Onward == cursor
\* Every cycle starts at the first segment.
Restart == 0

\* Mutant: reset clears the notice and leaves the cursor.
LeftBehind(s) == current[s]
Rewound(s) == 0

\* Every segment is reset, then the counters of the pool.
Recycle ==
  /\ pc = "recycle" /\ pc' = "head"
  /\ current' = [s \in Segs |-> Rewound(s)]
  /\ notified' = {}
  /\ cursor' = Restart
  /\ active' = Len(segments)
  /\ UNCHANGED <<segments, scan, out>>

IpNext == Call \/ LoopHead \/ Serve \/ Skip \/ Recycle
PoolSpec == IpInit /\ [][IpNext]_ipVars

\* pop() is synchronous: once called it runs.
PopRuns == LoopHead \/ Serve \/ Skip \/ Recycle

----------------------------------------------------------------------------
(* Properties *)

\* One scan per answer of a cycle, and the one that finds nothing: no cursor
\* outgrows that, though next_ip moves it with nothing to give.
IpTypeOK ==
  /\ cursor \in 0 .. Total + 1
  /\ current \in [Segs -> 0 .. Total + 1]
  /\ notified \subseteq Segs
  /\ active \in 0 .. Len(segments)
  /\ pc \in {"idle", "head", "scan", "recycle"}
  /\ scan.i \in 0 .. Len(segments)
  /\ Len(out) <= Total

\* active_count is the number of segments not yet found exhausted: it reaches
\* 0 only in the scan that recycles, so pop() answers None for no pool that
\* has a segment (ip.rs:294-322).
ActiveExact ==
  /\ active = Cardinality(Segs \ notified)
  /\ pc = "head" /\ segments # <<>> => active > 0

\* Every sample lies in the prefix it was drawn from, and two samples of one
\* sweep of a prefix are different addresses (the tests
\* cidr_sampling_stays_in_range and pop_wraps_after_exhaustion).
SamplesSound ==
  /\ \A n \in DOMAIN out :
       LET seg == segments[out[n].slot[1]]
       IN seg.kind = "cidr" => out[n].addr \in seg.start .. seg.end
  /\ \A m, n \in DOMAIN out :
       /\ m # n /\ out[m].slot[1] = out[n].slot[1]
       /\ segments[out[m].slot[1]].kind = "cidr"
       /\ out[m].slot # out[n].slot
       => out[m].addr # out[n].addr

\* Any Total consecutive answers serve every slot exactly once, even when they
\* straddle a recycling: this is what the sweep limit of the prober relies on
\* (httping.rs:214-233).
SweepCoversAll ==
  Len(out) = Total => \A m, n \in DOMAIN out : m # n => out[m].slot # out[n].slot

\* A call of pop() returns ("after recycling it goes on yielding", ip.rs:390).
PopReturns == pc = "head" ~> pc = "idle"
=============================================================================
