--------------------------- MODULE TerminalOutput ---------------------------
(***************************************************************************)
(* The output of one terminal on its way to an MCP client: readTerminal,   *)
(* waitTerminal, CloseSession and ReadTerminal of internal/sshclient/      *)
(* manager.go with the RingBuffer of ring_buffer.go between them.  The     *)
(* unit is a piece of output; the shell writes the pieces 1, 2, 3, ...     *)
(***************************************************************************)
EXTENDS Naturals, Sequences

CONSTANTS Length,     \* bound on the pieces the shell writes
          Capacity,   \* of the ring buffer (2 MiB in the code)
          ReadSize,   \* most pieces readTerminal takes at once (16 KiB)
          MaxPieces   \* most pieces a client asks for

OutputAssumption == {Length, Capacity, ReadSize, MaxPieces} \subseteq Nat \ {0}

VARIABLES
  written,   \* pieces the shell has written so far
  exited,    \* the shell has ended, its exit status has arrived
  taken,     \* pieces readTerminal has taken from the channel
  data,      \* buffer.data
  start,     \* buffer.start
  closed,    \* buffer.closed
  notify,    \* how often buffer.notify has been closed and renewed
  cursor,    \* the position the client goes on from
  reader,    \* the client's Read: "idle", or "waiting" on a notify channel
  channel,   \* the notify channel it waits on
  received,  \* the pieces the client has got, in the order it got them
  flagged    \* lengths of received at which truncated was reported

source == <<written, exited, taken>>
buffer == <<data, start, closed, notify>>
client == <<cursor, reader, channel, received, flagged>>
vars == <<source, buffer, client>>

End == start + Len(data)

TypeOK ==
  /\ written \in 0 .. Length /\ exited \in BOOLEAN /\ taken \in 0 .. written
  /\ data \in Seq(1 .. Length) /\ Len(data) <= Capacity
  /\ start \in Nat /\ End <= taken
  /\ closed \in BOOLEAN /\ notify \in Nat
  /\ cursor \in 0 .. End /\ reader \in {"idle", "waiting"} /\ channel \in 0 .. notify
  /\ received \in Seq(1 .. Length) /\ flagged \subseteq 0 .. Len(received)

Init ==
  /\ written = 0 /\ exited = FALSE /\ taken = 0
  /\ data = <<>> /\ start = 0 /\ closed = FALSE /\ notify = 0
  /\ cursor = 0 /\ reader = "idle" /\ channel = 0
  /\ received = <<>> /\ flagged = {}

-----------------------------------------------------------------------------
(* The terminal                                                            *)

ShellWrites ==
  /\ ~exited /\ written < Length
  /\ written' = written + 1
  /\ UNCHANGED <<exited, taken, buffer, client>>

ShellExits ==
  /\ ~exited
  /\ exited' = TRUE
  /\ UNCHANGED <<written, taken, buffer, client>>

\* A bug: the oldest pieces go and the positions do not move with them.
AppendInPlace(new) ==
  LET all == data \o new
      drop == IF Len(all) > Capacity THEN Len(all) - Capacity ELSE 0
  IN /\ data' = SubSeq(all, drop + 1, Len(all))
     /\ UNCHANGED start
     /\ notify' = notify + 1

\* Append to an open buffer: drop the oldest pieces, wake the readers.
AppendTo(new) ==
  LET all == data \o new
      drop == IF Len(all) > Capacity THEN Len(all) - Capacity ELSE 0
  IN /\ data' = SubSeq(all, drop + 1, Len(all))
     /\ start' = start + drop
     /\ notify' = notify + 1

\* readTerminal: a closed buffer takes nothing more.
ReadChannel(n) ==
  /\ taken + n <= written
  /\ taken' = taken + n
  /\ IF closed
     THEN UNCHANGED <<data, start, notify>>
     ELSE AppendTo([i \in 1 .. n |-> taken + i])
  /\ UNCHANGED <<written, exited, closed, client>>

CloseBuffer ==
  /\ closed' = TRUE
  /\ notify' = IF closed THEN notify ELSE notify + 1
  /\ UNCHANGED <<data, start>>

\* waitTerminal: session.Wait returns with the exit status; it does not wait
\* for readTerminal, which owns the pipe.
WaitReturns ==
  /\ exited /\ ~closed
  /\ CloseBuffer
  /\ UNCHANGED <<source, client>>

\* CloseSession; the shell is killed a moment later.
CloseSession ==
  /\ ~closed
  /\ CloseBuffer
  /\ exited' = TRUE
  /\ UNCHANGED <<written, taken, client>>

-----------------------------------------------------------------------------
(* ReadTerminal                                                            *)

\* One pass of RingBuffer.Read under its lock: a cursor behind the buffer is
\* moved to its start, and that is reported.
Deliver(max) ==
  LET from == IF cursor < start THEN start ELSE cursor
      count == IF End - from > max THEN max ELSE End - from
  IN /\ cursor < End
     /\ received' = received \o SubSeq(data, from - start + 1, from - start + count)
     /\ flagged' = IF cursor < start THEN flagged \cup {Len(received)} ELSE flagged
     /\ cursor' = from + count
     /\ reader' = "idle"
     /\ UNCHANGED channel

Read(max) ==
  /\ reader = "idle"
  /\ \/ Deliver(max)
     \/ /\ cursor = End /\ ~closed
        /\ reader' = "waiting" /\ channel' = notify
        /\ UNCHANGED <<cursor, received, flagged>>
  /\ UNCHANGED <<source, buffer>>

\* The channel it waits on was closed: look again.
Woken(max) ==
  /\ reader = "waiting" /\ channel # notify
  /\ \/ Deliver(max)
     \/ /\ cursor = End
        /\ reader' = IF closed THEN "idle" ELSE "waiting"
        /\ channel' = notify
        /\ UNCHANGED <<cursor, received, flagged>>
  /\ UNCHANGED <<source, buffer>>

\* wait_ms has passed, or the request is gone.
GivesUp ==
  /\ reader = "waiting"
  /\ reader' = "idle"
  /\ UNCHANGED <<source, buffer, cursor, channel, received, flagged>>

-----------------------------------------------------------------------------
Next ==
  \/ ShellWrites \/ ShellExits \/ \E n \in 1 .. ReadSize : ReadChannel(n)
  \/ WaitReturns \/ CloseSession
  \/ \E max \in 1 .. MaxPieces : Read(max) \/ Woken(max)
  \/ GivesUp

Spec == Init /\ [][Next]_vars

\* The two goroutines of the terminal run, and a woken reader; the deadline of
\* a read is not counted on.
Fairness ==
  /\ WF_vars(\E n \in 1 .. ReadSize : ReadChannel(n))
  /\ WF_vars(WaitReturns)
  /\ WF_vars(\E max \in 1 .. MaxPieces : Woken(max))

LiveSpec == Spec /\ Fairness

-----------------------------------------------------------------------------
(* Properties                                                              *)

\* A client that follows its cursor gets the pieces in order, none twice, and
\* none is missing without truncated having been reported (docs, MCP guide, 5.8).
NoSilentGap ==
  \A i \in 1 .. Len(received) :
    LET before == IF i = 1 THEN 0 ELSE received[i - 1]
    IN received[i] = before + 1 \/ (i - 1 \in flagged /\ received[i] > before)

\* A read that waits returns by itself once there is something to deliver, or
\* the terminal is over.
WaitingReaderWakes == []<>(reader = "waiting" => cursor = End /\ ~closed)
=============================================================================
