------------------------------ MODULE Settings ------------------------------
(***************************************************************************)
(* The ways settings enter the program: a command line (src/args.rs), the  *)
(* start requests of the web API (src/api) and those of the app            *)
(* (flutter/rust/src/lib.rs), which override what is stored.  Two settings *)
(* stand for all: "count" for the numbers that are forced into bounds (ips,*)
(* threads, slots, delay, loss), "port" for the two that are not.  A       *)
(* request reads the stored settings and writes all of them back in two    *)
(* steps, so that it undoes what others have written in between.           *)
(***************************************************************************)
EXTENDS Integers, Sequences

CONSTANTS
  Requests,                 \* start requests at once
  MaxCount,                 \* the upper bound of a count, the lower one is 1
  PortBits, SizeBits, IntBits,  \* widths of u16, usize and i32
  DefaultCount, DefaultPort,    \* ServiceConfig::default
  Numbers,                  \* bound: the numbers that are given
  MaxTokens                 \* bound: the length of a command line

Keys == {"count", "port"}
Nothing == [given |-> FALSE]

ASSUME SettingsAssumption ==
  /\ MaxCount \in Nat \ {0} /\ DefaultCount \in 1 .. MaxCount
  /\ PortBits \in Nat /\ DefaultPort \in 1 .. 2 ^ PortBits - 1
  /\ PortBits < IntBits /\ IntBits \in Nat /\ SizeBits \in Nat /\ IntBits <= SizeBits
  /\ Numbers \subseteq Int /\ MaxTokens \in Nat

VARIABLES
  settings,  \* ServiceState::config
  program,   \* "none" yet, "server" (with a command line) or "app"
  read,      \* what a request has read, Nothing before; with it the settings
             \* that are old: lost then, or given by another request since
  meant,     \* history: the number last given for each setting
  lost       \* history: the settings whose number last given was undone by a
             \* request that had read before

settingsVars == <<settings, program, read, meant, lost>>

Defaults == [k \in Keys |-> IF k = "count" THEN DefaultCount ELSE DefaultPort]

SettingsInit ==
  /\ settings = Defaults /\ meant = Defaults /\ lost = {}
  /\ program = "none"
  /\ read = [r \in Requests |-> Nothing]

\* What each type can hold.
CanHold(k) == 0 .. 2 ^ (IF k = "port" THEN PortBits ELSE SizeBits) - 1
Ints == -(2 ^ (IntBits - 1)) .. 2 ^ (IntBits - 1) - 1

\* Mutant: only the upper bound is enforced.
CutAbove(n) == IF n > MaxCount THEN MaxCount ELSE n
Clamped(n) == IF n < 1 THEN 1 ELSE IF n > MaxCount THEN MaxCount ELSE n

Stored(k, n) == IF k = "count" THEN Clamped(n) ELSE n

----------------------------------------------------------------------------
(* The command line *)

Flag(k) == [flag |-> TRUE, key |-> k]
\* A number, or text that is none; with a sign in front it would be a flag.
Text(n) == [flag |-> FALSE, num |-> n]
Words == {Text(n) : n \in Numbers \cap Nat} \cup {Text(-1)}
CommandLines == UNION {[1 .. n -> {Flag(k) : k \in Keys} \cup Words] : n \in 0 .. MaxTokens}

\* parse_args_to_vec: a flag takes the word behind it, other words are dropped.
PairAt(tokens, i) ==
  [key |-> tokens[i].key,
   num |-> IF i < Len(tokens) /\ ~tokens[i + 1].flag THEN tokens[i + 1].num ELSE -1]

\* Mutant: a value that cannot be read restores the default.
DefaultIfUnreadable(config, p) ==
  [config EXCEPT ![p.key] =
    IF p.num \in CanHold(p.key) THEN Stored(p.key, p.num) ELSE Defaults[p.key]]
\* parse_from_iter, one pair.
Parsed(config, p) ==
  IF p.num \in CanHold(p.key)
    THEN [config EXCEPT ![p.key] = Stored(p.key, p.num)]
    ELSE config

\* parse_from_iter: the pairs apply one after another.
ParsedFrom(tokens) ==
  LET after[i \in 0 .. Len(tokens)] ==
        IF i = 0 THEN Defaults
        ELSE IF tokens[i].flag THEN Parsed(after[i - 1], PairAt(tokens, i))
        ELSE after[i - 1]
  IN  after[Len(tokens)]

\* A flag for k with a number it can hold behind it.
GivenAt(tokens, i, k) ==
  /\ i < Len(tokens) /\ tokens[i] = Flag(k)
  /\ ~tokens[i + 1].flag /\ tokens[i + 1].num \in CanHold(k)

\* The number a command line gives for a setting: the last one behind its flag.
Given(tokens, k) ==
  LET at == {i \in 1 .. Len(tokens) : GivenAt(tokens, i, k)}
  IN  IF at = {} THEN Defaults[k]
      ELSE tokens[1 + CHOOSE i \in at : \A j \in at : j <= i].num

\* main: the program starts with its arguments, or with a line it reads; a flag
\* that is not known ends it.
StartServer(tokens) ==
  /\ program = "none" /\ program' = "server"
  /\ settings' = ParsedFrom(tokens)
  /\ meant' = [k \in Keys |-> Given(tokens, k)]
  /\ UNCHANGED <<read, lost>>

----------------------------------------------------------------------------
(* Start requests *)

\* The app's first call creates the service.
StartApp ==
  /\ program = "none" /\ program' = "app"
  /\ UNCHANGED <<settings, read, meant, lost>>

ReadSettings(r) ==
  /\ program # "none" /\ read[r] = Nothing
  /\ read' = [read EXCEPT ![r] = [given |-> TRUE, settings |-> settings, old |-> lost]]
  /\ UNCHANGED <<settings, program, meant, lost>>

\* A request names some of the settings.
Overrides(numbers) == UNION {[ks -> numbers] : ks \in SUBSET Keys}

\* Mutant: what a request leaves out falls back to the default.
OverriddenDefaults(config, o) ==
  [k \in Keys |-> IF k \in DOMAIN o THEN Stored(k, o[k]) ELSE Defaults[k]]
\* apply_overrides
Overridden(config, o) ==
  [k \in Keys |-> IF k \in DOMAIN o THEN Stored(k, o[k]) ELSE config[k]]

\* The requests that have read learn nothing of what another one writes.
Outdated(q, keys) ==
  IF read[q].given THEN [read[q] EXCEPT !.old = @ \cup keys] ELSE Nothing

\* update_config: what the request does not name is what it has read.
UpdateConfig(r, o, converted) ==
  /\ read[r].given
  /\ settings' = Overridden(read[r].settings, converted)
  /\ meant' = [k \in Keys |-> IF k \in DOMAIN o THEN o[k] ELSE meant[k]]
  /\ lost' = read[r].old \ DOMAIN o
  /\ read' = [q \in Requests |-> IF q = r THEN Nothing ELSE Outdated(q, DOMAIN o)]
  /\ UNCHANGED program

\* A number its type cannot hold fails the request before it is handled.
WebRequest(r, o) ==
  /\ program = "server"
  /\ \A k \in DOMAIN o : o[k] \in CanHold(k)
  /\ UpdateConfig(r, o, o)

\* build_overrides casts i32 to u16 and usize.
Cast(k, n) == n % 2 ^ (IF k = "port" THEN PortBits ELSE SizeBits)

AppRequest(r, o) ==
  /\ program = "app"
  /\ \A k \in DOMAIN o : o[k] \in Ints
  /\ UpdateConfig(r, o, [k \in DOMAIN o |-> Cast(k, o[k])])

SettingsNext ==
  \/ StartApp
  \/ program = "none" /\ \E tokens \in CommandLines : StartServer(tokens)
  \/ \E r \in Requests :
       \/ ReadSettings(r)
       \/ read[r].given /\ \E o \in Overrides(Numbers) : WebRequest(r, o) \/ AppRequest(r, o)

SettingsSpec == SettingsInit /\ [][SettingsNext]_settingsVars

----------------------------------------------------------------------------
(* Properties *)

SettingsTypeOK ==
  /\ settings \in [count : 1 .. MaxCount, port : CanHold("port")]
  /\ program \in {"none", "server", "app"}
  /\ meant \in [Keys -> Int] /\ lost \subseteq Keys

Distance(m, n) == IF m < n THEN n - m ELSE m - n
Nearest(m) ==
  {n \in 1 .. MaxCount : \A k \in 1 .. MaxCount : Distance(n, m) <= Distance(k, m)}

\* Whichever way and in whatever pieces the settings were given, what is stored
\* of each is the last number given for it, the nearest one in bounds if there
\* are bounds: by a command line with flags repeated, without a value or with one
\* nobody can read, or by requests that name some settings (service.rs:183-185,
\* args.rs:36-151).  Of requests that overlap, one that reads before a number is
\* given and writes after it, without naming the setting, undoes it
\* (handlers.rs:23-27); the next one that names the setting, or that read it
\* before it was undone, makes it good.  A number the app casts out of its range
\* has no such promise.
EntriesAgree ==
  /\ "count" \notin lost /\ meant.count >= 0 => settings.count \in Nearest(meant.count)
  /\ "port" \notin lost /\ meant.port \in CanHold("port") => settings.port = meant.port
=============================================================================
