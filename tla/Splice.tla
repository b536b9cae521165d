------------------------------- MODULE Splice -------------------------------
(***************************************************************************)
(* One direction of a forwarded connection (src/core/splice.rs and         *)
(* transfer_direction of forward.rs): a thread moves what one peer, the    *)
(* source, sends through a pipe to the other peer, the sink.  The sockets  *)
(* do not block, the pipe does.  The kernel keeps bytes in order, so how   *)
(* many have come how far is all there is to know.  The other direction    *)
(* appears by its end only; EINTR is a step that changes nothing.          *)
(***************************************************************************)
EXTENDS Naturals

CONSTANTS
  StreamLength,  \* bound: what the source sends at most
  BufSize,       \* BUF_SIZE, the length of one splice into the pipe
  SendRoom       \* what the socket of the sink holds unsent

ASSUME SpliceAssumption ==
  /\ StreamLength \in Nat
  /\ BufSize \in Nat \ {0} /\ SendRoom \in Nat \ {0}

VARIABLES
  thread,     \* readable (awaited), read, pollin, drain, pollout, done or failed
  sent,       \* by the source,
  taken,      \* into the pipe,
  put,        \* into the socket of the sink,
  got,        \* by the sink
  remaining,  \* of the chunk in the pipe
  source,     \* how the source stands: open, fin or reset
  sink,       \* what the sink knows: open, end (an orderly one) or reset
  shut,       \* the write side of the sink's socket has been shut down
  kicked,     \* the registry has shut both sockets down
  otherEnded, \* the other direction has ended
  closed      \* both have, the sockets are closed

counters == <<sent, taken, put, got>>
socketVars == <<source, sink, shut, kicked, otherEnded, closed>>
spliceVars == <<thread, counters, remaining, socketVars>>

SpliceInit ==
  /\ thread = "readable" /\ remaining = 0
  /\ sent = 0 /\ taken = 0 /\ put = 0 /\ got = 0
  /\ source = "open" /\ sink = "open"
  /\ shut = FALSE /\ kicked = FALSE /\ otherEnded = FALSE /\ closed = FALSE

Ended == thread \in {"done", "failed"}
Unread == sent - taken
Piped == taken - put
Unsent == put - got
Smaller(a, b) == IF a < b THEN a ELSE b

\* What readable(), and poll with POLLIN, wait for.
InputReady == Unread > 0 \/ source # "open" \/ kicked
\* Writing to the sink fails at once.
OutputBroken == sink = "reset" \/ kicked
\* What poll with POLLOUT waits for.
OutputReady == Unsent < SendRoom \/ OutputBroken

----------------------------------------------------------------------------
(* The peers, the registry and the other direction *)

Send ==
  /\ source = "open" /\ ~kicked /\ ~closed /\ sent < StreamLength
  /\ sent' = sent + 1
  /\ UNCHANGED <<thread, taken, put, got, remaining, socketVars>>

SourceEnds ==
  /\ source = "open" /\ ~closed
  /\ source' \in {"fin", "reset"}
  /\ UNCHANGED <<thread, counters, remaining, sink, shut, kicked, otherEnded, closed>>

SinkReads ==
  /\ Unsent > 0 /\ sink = "open" /\ ~closed
  /\ got' = got + 1
  /\ UNCHANGED <<thread, sent, taken, put, remaining, socketVars>>

\* The end of the stream comes after all that was put before it.
SinkSeesEnd ==
  /\ (shut \/ kicked) /\ Unsent = 0 /\ sink = "open" /\ ~closed
  /\ sink' = "end"
  /\ UNCHANGED <<thread, counters, remaining, source, shut, kicked, otherEnded, closed>>

SinkResets ==
  /\ sink # "reset" /\ ~closed
  /\ sink' = "reset"
  /\ UNCHANGED <<thread, counters, remaining, source, shut, kicked, otherEnded, closed>>

\* shutdown(SHUT_RDWR) on both sockets, at any time.
Kick ==
  /\ ~kicked /\ ~closed
  /\ kicked' = TRUE
  /\ UNCHANGED <<thread, counters, remaining, source, sink, shut, otherEnded, closed>>

OtherEnds ==
  /\ ~otherEnded /\ otherEnded' = TRUE
  /\ UNCHANGED <<thread, counters, remaining, source, sink, shut, kicked, closed>>

\* join! returns and the last halves are dropped: SO_LINGER is 0, so close()
\* throws away what is unsent and resets; an end all of whose bytes are sent may
\* still arrive.
Close ==
  /\ Ended /\ otherEnded /\ ~closed
  /\ closed' = TRUE
  /\ sink' \in IF sink # "open" THEN {sink}
               ELSE {"reset"} \cup {e \in {"end"} : Unsent = 0}
  /\ UNCHANGED <<thread, counters, remaining, source, shut, kicked, otherEnded>>

----------------------------------------------------------------------------
(* transfer_direction *)

\* The write half shuts its side down when it is dropped, after an error too.
Returns(result) ==
  /\ thread' = result
  /\ shut' = TRUE
  /\ UNCHANGED <<source, sink, kicked, otherEnded, closed>>

\* A thread takes over; there may be no descriptors left for its pipe.
Readable ==
  /\ thread = "readable" /\ InputReady
  /\ \/ thread' = "read" /\ UNCHANGED socketVars
     \/ Returns("failed")
  /\ UNCHANGED <<counters, remaining>>

ReadableTimeout ==
  /\ thread = "readable" /\ ~InputReady
  /\ Returns("failed")
  /\ UNCHANGED <<counters, remaining>>

\* splice_once from the source; a reset loses what had not been read.
SpliceIn ==
  /\ thread = "read"
  /\ \/ /\ source = "reset"
        /\ Returns("failed")
        /\ UNCHANGED <<taken, remaining>>
     \/ /\ source # "reset" /\ Unread > 0
        /\ \E n \in 1 .. Smaller(Unread, BufSize) :
             taken' = taken + n /\ remaining' = n
        /\ thread' = "drain"
        /\ UNCHANGED socketVars
     \/ /\ source # "reset" /\ Unread = 0 /\ (source = "fin" \/ kicked)
        /\ Returns("done")
        /\ UNCHANGED <<taken, remaining>>
     \/ /\ ~InputReady
        /\ thread' = "pollin"
        /\ UNCHANGED <<taken, remaining, socketVars>>
  /\ UNCHANGED <<sent, put, got>>

\* poll_wait: events other than the one asked for are an error, which a broken
\* socket may give.
PollIn ==
  /\ thread = "pollin" /\ InputReady
  /\ \/ thread' = "read" /\ UNCHANGED socketVars
     \/ source = "reset" /\ Returns("failed")
  /\ UNCHANGED <<counters, remaining>>

\* Mutant: the rest of a chunk is given up after a short write.
ShortWriteEnds(w) == 0
\* Mutant: what was written is written again.
NotReduced(w) == remaining
Reduced(w) == remaining - w

\* splice_once to the sink; from an empty pipe it blocks for good.
SpliceOut ==
  /\ thread = "drain" /\ Piped > 0
  /\ \/ /\ OutputBroken
        /\ Returns("failed")
        /\ UNCHANGED <<put, remaining>>
     \/ /\ ~OutputBroken /\ Unsent < SendRoom
        /\ \E w \in 1 .. Smaller(Smaller(Piped, remaining), SendRoom - Unsent) :
             put' = put + w /\ remaining' = Reduced(w)
        /\ thread' = IF remaining' = 0 THEN "read" ELSE "drain"
        /\ UNCHANGED socketVars
     \/ /\ ~OutputReady
        /\ thread' = "pollout"
        /\ UNCHANGED <<put, remaining, socketVars>>
  /\ UNCHANGED <<sent, taken, got>>

PollOut ==
  /\ thread = "pollout" /\ OutputReady
  /\ \/ thread' = "drain" /\ UNCHANGED socketVars
     \/ OutputBroken /\ Returns("failed")
  /\ UNCHANGED <<counters, remaining>>

----------------------------------------------------------------------------
Transfers ==
  \/ Readable \/ ReadableTimeout \/ SpliceIn \/ PollIn \/ SpliceOut \/ PollOut

SpliceNext ==
  \/ Transfers
  \/ Send \/ SourceEnds \/ SinkReads \/ SinkSeesEnd \/ SinkResets
  \/ Kick \/ OtherEnds \/ Close

SpliceSpec == SpliceInit /\ [][SpliceNext]_spliceVars

----------------------------------------------------------------------------
(* Properties *)

SpliceTypeOK ==
  /\ thread \in {"readable", "read", "pollin", "drain", "pollout", "done", "failed"}
  /\ got \in 0 .. put /\ put \in 0 .. taken /\ taken \in 0 .. sent
  /\ sent \in 0 .. StreamLength
  /\ remaining \in 0 .. BufSize
  /\ source \in {"open", "fin", "reset"} /\ sink \in {"open", "end", "reset"}

\* A transfer that reports success has put every byte of an unbroken stream into
\* the socket of the sink, and a sink that sees the orderly end of one has got
\* them all: short writes, full sockets and a close that resets never look like
\* a complete stream (splice.rs:88-121, forward.rs:345-347).
EndIsComplete ==
  thread = "done" /\ ~kicked =>
    /\ source # "open" /\ put = sent
    /\ sink = "end" => got = sent

\* The registry's shutdown ends the transfer wherever it waits, though the peers
\* do nothing more: no poll and no splice is left blocked (forward.rs:121-123).
KickEnds == kicked ~> Ended
=============================================================================
