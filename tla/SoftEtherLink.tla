---------------------------- MODULE SoftEtherLink ----------------------------
(***************************************************************************)
(* One attempt of IsolatedManager.Connect and the link that comes of it:   *)
(* Open and Session of internal/softether/protocol.go, NewLink and Link of *)
(* link.go.  The opener is the goroutine inside Connect.  A session runs a *)
(* read and a write loop, a link an inbound and an outbound loop and a     *)
(* watcher; the loops wait for each other through the bounded channels     *)
(* frames and outbound, and any of them may end the others.                *)
(*                                                                         *)
(* stop runs under a sync.Once, whose other callers wait for it: one step. *)
(* The server is silent or not; what its answers mean is chosen.           *)
(***************************************************************************)
EXTENDS Naturals, Sequences

CONSTANTS FrameRoom, OutRoom   \* room of frames and outbound, and of the loop's hand

ASSUME LinkAssumption == FrameRoom \in Nat \ {0} /\ OutRoom \in Nat \ {0}

VARIABLES
  pc,          \* where the opener is
  errand,      \* what the stream is for: enumerate the hubs, log in
  ctx,         \* Connect's context is not done
  after,       \* context.AfterFunc(ctx, raw.Close)
  raw,         \* the TCP connection
  session,     \* session.done: none, open, closed
  sessionErr, linkErr,       \* first reasons; "closed" is net.ErrClosed
  link,        \* link.done: none, open, closed
  adopted,     \* the manager has registered the link
  asked,       \* the owner has closed it
  reader, writer, inbound, outloop, watcher,   \* where the loops are
  frames, outbound,          \* the channels, with what a loop has in hand for one
  lease,       \* what the server gave: a gateway or none
  device,      \* the packet with which the user-mode stack waits for the outbound loop
  silent,      \* the server does not answer any more
  cause,       \* it, or the network, gave a reason to end the session
  heard        \* the DHCP messages that have reached the server

stream == <<errand, ctx, after, raw>>
ends == <<session, sessionErr, link, linkErr>>
loops == <<reader, writer, inbound, outloop, watcher>>
owner == <<adopted, asked>>
traffic == <<frames, outbound, device>>
server == <<silent, cause, heard>>
vars == <<pc, stream, ends, loops, owner, traffic, lease, server>>

Places == {"idle", "dialing", "handshake", "greeting", "asking", "starting", "leaving",
           "discover", "offer", "request", "ack", "stack", "adopting", "returning",
           "done", "failed"}
Kinds == {"offer", "ack", "arp", "far"}
Packets == {"discover", "request", "frame"}
Reasons == {"none", "closed", "lost"}

TypeOK ==
  /\ pc \in Places /\ errand \in {"enumerate", "login"}
  /\ ctx \in BOOLEAN /\ after \in {"none", "armed", "running"}
  /\ raw \in {"none", "open", "closed"}
  /\ session \in {"none", "open", "closed"} /\ link \in {"none", "open", "closed"}
  /\ sessionErr \in Reasons /\ (session = "closed" <=> sessionErr # "none")
  /\ linkErr \in Reasons /\ (link = "closed" <=> linkErr # "none")
  /\ adopted \in BOOLEAN /\ asked \in BOOLEAN
  /\ reader \in {"off", "running", "ended"} /\ writer \in {"off", "running", "ended"}
  /\ inbound \in {"off", "waiting", "replying", "ended"}
  /\ outloop \in {"off", "reading", "asking", "sending", "ended"}
  /\ watcher \in {"off", "waiting", "ended"}
  /\ frames \in Seq(Kinds) /\ Len(frames) <= FrameRoom
  /\ outbound \in Seq(Packets) /\ Len(outbound) <= OutRoom
  /\ lease \in {"none", "local", "routed"}
  /\ device \in {"none", "near", "far"}
  /\ silent \in BOOLEAN /\ cause \in BOOLEAN /\ heard \subseteq {"discover", "request"}

Init ==
  /\ pc = "idle" /\ errand = "login" /\ ctx = TRUE
  /\ after = "none" /\ raw = "none"
  /\ session = "none" /\ sessionErr = "none" /\ link = "none" /\ linkErr = "none"
  /\ adopted = FALSE /\ asked = FALSE
  /\ reader = "off" /\ writer = "off" /\ inbound = "off" /\ outloop = "off" /\ watcher = "off"
  /\ frames = <<>> /\ outbound = <<>>
  /\ lease = "none" /\ device = "none"
  /\ silent = FALSE /\ cause = FALSE /\ heard = {}

-----------------------------------------------------------------------------
(* stop, and the context                                                   *)

\* A bug: done is closed, the reason is not set.
StopSessionSilently(reason) ==
  /\ session' = "closed" /\ raw' = "closed"
  /\ UNCHANGED sessionErr

\* The first reason is kept, done is closed, and with it the connection.
StopSession(reason) ==
  /\ session' = "closed"
  /\ sessionErr' = IF session = "open" THEN reason ELSE sessionErr
  /\ raw' = "closed"

\* Link.stop closes the device and the session too.
StopLink(reason) ==
  /\ link' = "closed"
  /\ linkErr' = IF link = "open" THEN reason ELSE linkErr
  /\ StopSession("closed")

\* What an I/O error on the connection is: one this side has closed says so.
IOError == IF raw = "closed" THEN "closed" ELSE "lost"

\* A bug: the function stays registered with the context.
StopCancellationNever == after' = after

\* The stop function of AfterFunc cannot call back what has begun to run.
StopCancellation == after' = IF after = "armed" THEN "none" ELSE after

\* The user cancels, or 45 s have passed.
CancelContext ==
  /\ ctx /\ pc \notin {"idle", "done", "failed"}
  /\ ctx' = FALSE
  /\ after' = IF after = "armed" THEN "running" ELSE after
  /\ UNCHANGED <<pc, errand, raw, ends, loops, owner, traffic, lease, server>>

AfterFunc ==
  /\ after = "running"
  /\ after' = "none" /\ raw' = "closed"
  /\ UNCHANGED <<pc, errand, ctx, ends, loops, owner, traffic, lease, server>>

-----------------------------------------------------------------------------
(* Open, on a stream for the hubs and one for the login                    *)

Goto(place) == pc' = place
AtServer == raw = "open" /\ ~silent

\* The profile names its hub, or the hubs are asked for first.
Begin ==
  /\ pc = "idle"
  /\ Goto("dialing")
  /\ errand' \in {"enumerate", "login"}
  /\ UNCHANGED <<ctx, after, raw, ends, loops, owner, traffic, lease, server>>

Dialed ==
  /\ pc = "dialing" /\ ctx
  /\ Goto("handshake")
  /\ raw' = "open" /\ after' = "armed"
  /\ UNCHANGED <<errand, ctx, ends, loops, owner, traffic, lease, server>>

\* Refused, 15 s passed, or the context is done: there is no connection.
DialFails ==
  /\ pc = "dialing"
  /\ Goto("leaving")
  /\ UNCHANGED <<stream, ends, loops, owner, traffic, lease, server>>

\* The handshake, the signature and its Hello, the request and its response.
Answered ==
  /\ AtServer
  /\ \/ pc = "handshake" /\ Goto("greeting")
     \/ pc = "greeting" /\ Goto("asking")
     \/ pc = "asking" /\ errand = "login" /\ Goto("starting")
  /\ UNCHANGED <<stream, ends, loops, owner, traffic, lease, server>>

\* EnumerateHubs returns exactly one hub: its stream is closed, Open goes on.
HubFound ==
  /\ pc = "asking" /\ errand = "enumerate" /\ AtServer
  /\ Goto("dialing")
  /\ errand' = "login"
  /\ raw' = "closed" /\ StopCancellation
  /\ UNCHANGED <<ctx, ends, loops, owner, traffic, lease, server>>

\* The certificate is not the pinned one, the answer is an error code or not
\* understood, the number of hubs is not one, the mode is not supported, the
\* 20 s or the context's deadline pass, or the connection has been closed.
OpenFails ==
  /\ pc \in {"handshake", "greeting", "asking", "starting"}
  /\ Goto("leaving")
  /\ raw' = "closed" /\ StopCancellation
  /\ UNCHANGED <<errand, ctx, ends, loops, owner, traffic, lease, server>>

\* The last write was buffered: the loops start, whatever happens to raw now.
StartSession ==
  /\ pc = "starting" /\ raw = "open"
  /\ Goto("discover")
  /\ session' = "open" /\ reader' = "running" /\ writer' = "running"
  /\ StopCancellation
  /\ UNCHANGED <<errand, ctx, raw, sessionErr, link, linkErr, inbound, outloop, watcher,
                 owner, traffic, lease, server>>

-----------------------------------------------------------------------------
(* NewLink                                                                 *)

HasRoom == Len(outbound) < OutRoom

\* acquireDHCP sends the Discover, then the Request for the offer.
SendsDHCP ==
  /\ pc \in {"discover", "request"} /\ HasRoom
  /\ outbound' = Append(outbound, pc)
  /\ Goto(IF pc = "discover" THEN "offer" ELSE "ack")
  /\ UNCHANGED <<stream, ends, loops, owner, frames, device, lease, server>>

\* waitDHCP takes every frame and drops those it does not wait for.  An Ack
\* gives a gateway or none; one without a mask is an error.
TakesFrame ==
  /\ pc \in {"offer", "ack"} /\ frames # <<>>
  /\ frames' = Tail(frames)
  /\ IF Head(frames) # pc THEN UNCHANGED <<pc, lease>>
     ELSE IF pc = "offer" THEN Goto("request") /\ UNCHANGED lease
     ELSE \/ Goto("stack") /\ lease' \in {"local", "routed"}
          \/ Goto("leaving") /\ UNCHANGED lease
  /\ UNCHANGED <<stream, ends, loops, owner, outbound, device, server>>

\* The session has ended, the context is done, or the 10 s of a wait are over;
\* or the user-mode stack cannot be created.
NewLinkFails ==
  /\ \/ pc \in {"discover", "request"} /\ session = "closed"
     \/ pc \in {"offer", "ack", "stack"}
  /\ Goto("leaving")
  /\ UNCHANGED <<stream, ends, loops, owner, traffic, lease, server>>

LinkCreated ==
  /\ pc = "stack"
  /\ Goto("adopting")
  /\ link' = "open"
  /\ inbound' = "waiting" /\ outloop' = "reading" /\ watcher' = "waiting"
  /\ UNCHANGED <<stream, session, sessionErr, linkErr, reader, writer, owner, traffic, lease,
                 server>>

-----------------------------------------------------------------------------
(* What IsolatedManager.Connect does with the results                      *)

\* Connect returns the error; a session that had begun is closed, and the
\* deferred cancel ends the context.
Leave ==
  /\ pc = "leaving"
  /\ Goto("failed")
  /\ ctx' = FALSE
  /\ after' = IF after = "armed" THEN "running" ELSE after
  /\ IF session = "none" THEN UNCHANGED <<session, sessionErr, raw>> ELSE StopSession("closed")
  /\ UNCHANGED <<errand, link, linkErr, loops, owner, traffic, lease, server>>

\* Under runtime.mu: the link is registered unless the context is done.
Adopt ==
  /\ pc = "adopting" /\ ctx
  /\ adopted' = TRUE /\ Goto("returning")
  /\ UNCHANGED <<stream, ends, loops, asked, traffic, lease, server>>

\* The context is done, or a disconnect has changed the generation.
CloseUnwanted ==
  /\ pc = "adopting"
  /\ Goto("leaving")
  /\ StopLink("closed")
  /\ UNCHANGED <<errand, ctx, after, loops, owner, traffic, lease, server>>

\* The deferred cancel of Connect.
Return ==
  /\ pc = "returning"
  /\ Goto("done")
  /\ ctx' = FALSE
  /\ after' = IF after = "armed" THEN "running" ELSE after
  /\ UNCHANGED <<errand, raw, ends, loops, owner, traffic, lease, server>>

\* Link.Close; of a link that has ended it changes nothing.
OwnerCloses ==
  /\ adopted /\ link = "open"
  /\ asked' = TRUE
  /\ StopLink("closed")
  /\ UNCHANGED <<pc, errand, ctx, after, loops, adopted, traffic, lease, server>>

-----------------------------------------------------------------------------
(* The loops of the session                                                *)

\* DHCP answers follow the messages that have arrived; the rest is anybody's.
\* Once the link is up nobody tells them from other packets.
Sendable == {"arp", "far"}
            \cup (IF "discover" \in heard /\ link = "none" THEN {"offer"} ELSE {})
            \cup (IF "request" \in heard /\ link = "none" THEN {"ack"} ELSE {})

ReaderGets(kind) ==
  /\ reader = "running" /\ AtServer /\ kind \in Sendable
  /\ Len(frames) < FrameRoom
  /\ frames' = Append(frames, kind)
  /\ UNCHANGED <<pc, stream, ends, loops, owner, outbound, device, lease, server>>

\* 60 s without a byte, a reset, a block that breaks the limits, or the
\* connection has been closed.
ReaderFails ==
  /\ reader = "running" /\ Len(frames) < FrameRoom
  /\ (silent \/ cause \/ raw = "closed")
  /\ reader' = "ended"
  /\ StopSession(IOError)
  /\ UNCHANGED <<pc, errand, ctx, after, link, linkErr, writer, inbound, outloop, watcher,
                 owner, traffic, lease, server>>

\* The loop cannot put its frame into the channel: no deadline runs.
ReaderEnds ==
  /\ reader = "running" /\ Len(frames) = FrameRoom /\ session = "closed"
  /\ reader' = "ended"
  /\ UNCHANGED <<pc, stream, ends, writer, inbound, outloop, watcher, owner, traffic, lease,
                 server>>

\* What a silent server is sent stays in the socket's buffer.
WriterWrites ==
  /\ writer = "running" /\ outbound # <<>> /\ raw = "open"
  /\ outbound' = Tail(outbound)
  /\ heard' = IF silent THEN heard ELSE heard \cup ({Head(outbound)} \cap {"discover", "request"})
  /\ UNCHANGED <<pc, stream, ends, loops, owner, frames, device, lease, silent, cause>>

\* A frame or a keepalive: 15 s without progress, a reset, or the connection has
\* been closed.
WriterFails ==
  /\ writer = "running" /\ (silent \/ cause \/ raw = "closed")
  /\ writer' = "ended"
  /\ StopSession(IOError)
  /\ UNCHANGED <<pc, errand, ctx, after, link, linkErr, reader, inbound, outloop, watcher,
                 owner, traffic, lease, server>>

WriterEnds ==
  /\ writer = "running" /\ session = "closed"
  /\ writer' = "ended"
  /\ UNCHANGED <<pc, stream, ends, reader, inbound, outloop, watcher, owner, traffic, lease,
                 server>>

-----------------------------------------------------------------------------
(* The loops of the link                                                   *)

\* An ARP request is answered; a packet goes to the stack, which may answer it
\* where it came from.
InboundTakes ==
  /\ inbound = "waiting" /\ frames # <<>>
  /\ frames' = Tail(frames)
  /\ inbound' = IF Head(frames) = "arp" THEN "replying" ELSE "waiting"
  /\ device' \in {device} \cup (IF device = "none" THEN {Head(frames)} \cap {"far"} ELSE {})
  /\ cause' = (cause \/ (Head(frames) = "far" /\ lease = "local"))
  /\ UNCHANGED <<pc, stream, ends, reader, writer, outloop, watcher, owner, outbound, lease, silent, heard>>

InboundReplies ==
  /\ inbound = "replying" /\ HasRoom
  /\ outbound' = Append(outbound, "frame") /\ inbound' = "waiting"
  /\ UNCHANGED <<pc, stream, ends, reader, writer, outloop, watcher, owner, frames, device, lease, server>>

\* Send returns the session's reason.
InboundFails ==
  /\ inbound = "replying" /\ session = "closed"
  /\ inbound' = "ended"
  /\ StopLink(sessionErr)
  /\ UNCHANGED <<pc, errand, ctx, after, reader, writer, outloop, watcher, owner, traffic,
                 lease, server>>

InboundEnds ==
  /\ inbound = "waiting" /\ (session = "closed" \/ link = "closed")
  /\ inbound' = "ended"
  /\ UNCHANGED <<pc, stream, ends, reader, writer, outloop, watcher, owner, traffic, lease,
                 server>>

\* The next hop of a packet is its destination or the gateway; without one the
\* packet ends the tunnel.  A next hop that is not in arpTable is asked for first.
OutboundTakes(to) ==
  /\ outloop = "reading" /\ device = to
  /\ device' = "none"
  /\ IF to = "far" /\ lease # "routed"
     THEN outloop' = "ended" /\ StopLink("lost")
     ELSE outloop' \in {"asking", "sending"} /\ UNCHANGED <<ends, raw>>
  /\ UNCHANGED <<pc, errand, ctx, after, reader, writer, inbound, watcher, owner, frames,
                 outbound, lease, server>>

\* The error of the ARP request is ignored, that of the frame is not.
OutboundSends ==
  /\ outloop \in {"asking", "sending"} /\ HasRoom
  /\ outbound' = Append(outbound, "frame")
  /\ outloop' = IF outloop = "asking" THEN "sending" ELSE "reading"
  /\ UNCHANGED <<pc, stream, ends, reader, writer, inbound, watcher, owner, frames, device, lease, server>>

OutboundFails ==
  /\ outloop \in {"asking", "sending"} /\ session = "closed"
  /\ IF outloop = "asking" THEN outloop' = "sending" /\ UNCHANGED <<ends, raw>>
     ELSE outloop' = "ended" /\ StopLink(sessionErr)
  /\ UNCHANGED <<pc, errand, ctx, after, reader, writer, inbound, watcher, owner, traffic,
                 lease, server>>

\* The device is closed; the reason it gives comes too late to be kept.
OutboundEnds ==
  /\ outloop = "reading" /\ link = "closed"
  /\ outloop' = "ended"
  /\ UNCHANGED <<pc, stream, ends, reader, writer, inbound, watcher, owner, traffic, lease,
                 server>>

WatcherEnds ==
  /\ watcher = "waiting" /\ session = "closed"
  /\ watcher' = "ended"
  /\ StopLink(sessionErr)
  /\ UNCHANGED <<pc, errand, ctx, after, reader, writer, inbound, outloop, owner, traffic,
                 lease, server>>

-----------------------------------------------------------------------------
(* DialContext                                                             *)

\* validateIPv4Route: far away only with a gateway.  A name is looked up in the
\* tunnel first, by packets to the DNS server of the lease or, with a gateway,
\* to a public one.
Dial(to) ==
  /\ adopted /\ link = "open" /\ device = "none"
  /\ to = "far" => lease = "routed"
  /\ device' = to
  /\ UNCHANGED <<pc, stream, ends, loops, owner, frames, outbound, lease, server>>

-----------------------------------------------------------------------------
(* The server and the network                                              *)

GoesSilent ==
  /\ ~silent /\ silent' = TRUE /\ cause' = TRUE
  /\ UNCHANGED <<pc, stream, ends, loops, owner, traffic, lease, heard>>

\* A reset, or a block of frames that breaks the limits.
Misbehaves ==
  /\ ~cause /\ cause' = TRUE
  /\ UNCHANGED <<pc, stream, ends, loops, owner, traffic, lease, silent, heard>>

Opener ==
  \/ Begin \/ Dialed \/ DialFails \/ Answered \/ HubFound \/ OpenFails \/ StartSession
  \/ SendsDHCP \/ TakesFrame \/ NewLinkFails \/ LinkCreated
  \/ Leave \/ Adopt \/ CloseUnwanted \/ Return
Reader == (\E kind \in Kinds : ReaderGets(kind)) \/ ReaderFails \/ ReaderEnds
Writer == WriterWrites \/ WriterFails \/ WriterEnds
Inbound == InboundTakes \/ InboundReplies \/ InboundFails \/ InboundEnds
Outbound ==
  (\E to \in {"near", "far"} : OutboundTakes(to))
  \/ OutboundSends \/ OutboundFails \/ OutboundEnds

Next ==
  \/ Opener \/ Reader \/ Writer \/ Inbound \/ Outbound \/ WatcherEnds
  \/ CancelContext \/ AfterFunc \/ OwnerCloses
  \/ \E to \in {"near", "far"} : Dial(to)
  \/ GoesSilent \/ Misbehaves

Spec == Init /\ [][Next]_vars

\* The goroutines run; what they wait for has a deadline: the dial (15 s), the
\* handshake to the login (20 s), each DHCP answer (10 s), a byte to read (60 s)
\* and to write (15 s).  A select with two ready channels takes each in the end,
\* and a full channel serves the senders that wait for room in their order.
Fairness ==
  /\ WF_vars(pc # "idle" /\ Opener) /\ WF_vars(NewLinkFails)
  /\ WF_vars(ReaderFails \/ ReaderEnds) /\ WF_vars(WriterWrites) /\ WF_vars(WriterEnds)
  /\ WF_vars(Inbound) /\ SF_vars(InboundReplies) /\ WF_vars(Outbound)
  /\ WF_vars(WatcherEnds) /\ WF_vars(AfterFunc)

LiveSpec == Spec /\ Fairness

-----------------------------------------------------------------------------
(* The promise                                                             *)

Link ==
  IF pc = "idle" THEN "idle"
  ELSE IF pc \in {"leaving", "failed"} THEN "failed"
  ELSE IF ~adopted THEN "opening"
  ELSE IF link = "open" THEN "up"
  ELSE linkErr

Released ==
  /\ raw # "open" /\ after # "running"
  /\ \A place \in {reader, writer, inbound, outloop, watcher} : place \in {"off", "ended"}

Promise == INSTANCE LinkPromise WITH link <- Link, released <- Released

\* The link keeps LinkPromise: it ends because its owner closed it or because
\* the network gave cause, and its reason says which of the two, which is how
\* the manager tells a loss from a disconnect (isolated_manager.go:290); a
\* silent server is noticed, and nothing of a link that ended stays behind.
KeepsLinkPromise == Promise!Spec
=============================================================================
