----------------------------- MODULE EndingsProofs -----------------------------
(***************************************************************************)
(* Theorems about the link of the isolated tunnel (SoftEtherLink) and the  *)
(* messages of its handshake (SoftEtherPack), for channels of any size:    *)
(* why a link ends, and that the manager is told the truth about it.       *)
(***************************************************************************)
EXTENDS EndingsMC, FiniteSetTheorems, SequenceTheorems, TLAPS

-----------------------------------------------------------------------------
(* The invariant of the link                                               *)

\* The places in Open, in NewLink, and after it.
Opening == {"idle", "dialing", "handshake", "greeting", "asking", "starting"}
Acquiring == {"discover", "offer", "request", "ack", "stack"}
Held == {"adopting", "returning", "done"}

\* What exists when the opener has come to a place.
Stages ==
  /\ pc \in Opening => session = "none"
  /\ pc \in Acquiring \cup Held => session # "none"
  /\ pc \in Opening \cup Acquiring => link = "none"
  /\ pc \in Held => link # "none"
  /\ link # "none" => session # "none" /\ lease # "none"
  /\ pc = "stack" => lease # "none"
  /\ adopted <=> pc \in {"returning", "done"}
  /\ session = "none" => reader = "off" /\ writer = "off"
  /\ link = "none" => inbound = "off" /\ outloop = "off" /\ watcher = "off" /\ device = "none"
  /\ asked => adopted /\ link = "closed"

\* The function that closes the connection runs only for a context that is done, and
\* never for a link that was adopted.
Cancelling ==
  /\ after = "running" => ~ctx
  /\ session # "none" => after # "armed"
  /\ adopted => after = "none"

\* The attempt cannot become a link that is up any more.
Gone == pc \in {"leaving", "failed"} \/ (~ctx /\ ~adopted)

\* A loss has a cause.  Whatever looks like a close is one by the owner, or concerns an
\* attempt that has failed.
Reasoned ==
  /\ silent => cause
  /\ sessionErr = "lost" \/ linkErr = "lost" => cause
  /\ device = "far" => lease = "routed" \/ cause
  /\ raw = "closed" /\ session = "open" => Gone
  /\ sessionErr = "closed" => link = "closed" \/ Gone
  /\ linkErr = "closed" => asked \/ Gone

LinkInv == TypeOK /\ Stages /\ Cancelling /\ Reasoned

-----------------------------------------------------------------------------
(* Every step keeps it                                                     *)

LEMMA ChannelTyped ==
  ASSUME NEW S, NEW s \in Seq(S), NEW room \in Nat, Len(s) <= room
  PROVE  /\ \A x \in S : Len(s) < room =>
              Append(s, x) \in Seq(S) /\ Len(Append(s, x)) <= room
         /\ s # <<>> => Tail(s) \in Seq(S) /\ Len(Tail(s)) <= room /\ Head(s) \in S
<1>1. Len(s) \in Nat
  BY LenProperties
<1>2. ASSUME NEW x \in S, Len(s) < room
      PROVE  Append(s, x) \in Seq(S) /\ Len(Append(s, x)) <= room
  BY <1>1, <1>2, AppendProperties
<1>3. ASSUME s # <<>>
      PROVE  Tail(s) \in Seq(S) /\ Len(Tail(s)) <= room /\ Head(s) \in S
  BY <1>1, <1>3, HeadTailProperties
<1> QED
  BY <1>2, <1>3

\* What the steps do to the two channels.
LEMMA TrafficTyped ==
  ASSUME TypeOK, Next
  PROVE  /\ frames' \in Seq(Kinds) /\ Len(frames') <= FrameRoom
         /\ outbound' \in Seq(Packets) /\ Len(outbound') <= OutRoom
<1>1. /\ frames \in Seq(Kinds) /\ Len(frames) <= FrameRoom /\ FrameRoom \in Nat
      /\ outbound \in Seq(Packets) /\ Len(outbound) <= OutRoom /\ OutRoom \in Nat
  BY LinkAssumption DEF TypeOK
<1>2. \/ frames' = frames
      \/ frames # <<>> /\ frames' = Tail(frames)
      \/ \E f \in Kinds : Len(frames) < FrameRoom /\ frames' = Append(frames, f)
  BY DEF Next, Opener, Begin, Dialed, DialFails, Answered, HubFound, OpenFails, StartSession,
     SendsDHCP, TakesFrame, NewLinkFails, LinkCreated, Leave, Adopt, CloseUnwanted, Return,
     Reader, ReaderGets, ReaderFails, ReaderEnds, Writer, WriterWrites, WriterFails, WriterEnds,
     Inbound, InboundTakes, InboundReplies, InboundFails, InboundEnds, Outbound, OutboundTakes,
     OutboundSends, OutboundFails, OutboundEnds, WatcherEnds, CancelContext, AfterFunc,
     OwnerCloses, Dial, GoesSilent, Misbehaves, traffic
<1>3. \/ outbound' = outbound
      \/ outbound # <<>> /\ outbound' = Tail(outbound)
      \/ \E packet \in Packets : HasRoom /\ outbound' = Append(outbound, packet)
  BY DEF Next, Opener, Begin, Dialed, DialFails, Answered, HubFound, OpenFails, StartSession,
     SendsDHCP, TakesFrame, NewLinkFails, LinkCreated, Leave, Adopt, CloseUnwanted, Return,
     Reader, ReaderGets, ReaderFails, ReaderEnds, Writer, WriterWrites, WriterFails, WriterEnds,
     Inbound, InboundTakes, InboundReplies, InboundFails, InboundEnds, Outbound, OutboundTakes,
     OutboundSends, OutboundFails, OutboundEnds, WatcherEnds, CancelContext, AfterFunc,
     OwnerCloses, Dial, GoesSilent, Misbehaves, traffic, Packets
<1>4. frames' \in Seq(Kinds) /\ Len(frames') <= FrameRoom
  BY <1>1, <1>2, ChannelTyped
<1>5. outbound' \in Seq(Packets) /\ Len(outbound') <= OutRoom
  BY <1>1, <1>3, ChannelTyped DEF HasRoom
<1> QED
  BY <1>4, <1>5

LEMMA OpenerKeeps ==
  ASSUME LinkInv, Opener
  PROVE  LinkInv'
<1> USE DEF stream, ends, loops, owner, traffic, server, Goto, AtServer, StopCancellation,
            StopLink, StopSession
<1>1. Next
  BY DEF Next
<1>2. TypeOK /\ Stages /\ Cancelling /\ Reasoned
  BY DEF LinkInv
<1>3. frames' \in Seq(Kinds) /\ Len(frames') <= FrameRoom
      /\ outbound' \in Seq(Packets) /\ Len(outbound') <= OutRoom
  BY <1>1, <1>2, TrafficTyped
<1>4. TypeOK'
  <2> USE <1>2, <1>3 DEF TypeOK, Places, Reasons
  <2>1. CASE Begin
    BY <2>1 DEF Begin
  <2>2. CASE Dialed \/ DialFails
    BY <2>2 DEF Dialed, DialFails
  <2>3. CASE Answered
    BY <2>3 DEF Answered
  <2>4. CASE HubFound \/ OpenFails
    BY <2>4 DEF HubFound, OpenFails
  <2>5. CASE StartSession
    <3>1. session = "none"
      BY <2>5 DEF StartSession, Stages, Opening
    <3> QED
      BY <2>5, <3>1 DEF StartSession
  <2>6. CASE SendsDHCP \/ NewLinkFails
    BY <2>6 DEF SendsDHCP, NewLinkFails
  <2>7. CASE TakesFrame
    BY <2>7 DEF TakesFrame
  <2>8. CASE LinkCreated
    <3>1. link = "none"
      BY <2>8 DEF LinkCreated, Stages, Acquiring
    <3> QED
      BY <2>8, <3>1 DEF LinkCreated
  <2>9. CASE Leave
    <3>1. /\ pc' = "failed" /\ ctx' = FALSE /\ after' \in {"none", "armed", "running"}
          /\ UNCHANGED <<errand, link, linkErr, loops, owner, traffic, lease, server>>
      BY <2>9 DEF Leave
    <3>2. CASE session = "none"
      BY <2>9, <3>1, <3>2 DEF Leave
    <3>3. CASE session # "none"
      BY <2>9, <3>1, <3>3 DEF Leave
    <3> QED
      BY <3>2, <3>3
  <2>10. CASE Adopt \/ Return
    BY <2>10 DEF Adopt, Return
  <2>11. CASE CloseUnwanted
    <3>1. link # "none" /\ session # "none"
      BY <2>11 DEF CloseUnwanted, Stages, Held
    <3> QED
      BY <2>11, <3>1 DEF CloseUnwanted
  <2> QED
    BY <2>1, <2>2, <2>3, <2>4, <2>5, <2>6, <2>7, <2>8, <2>9, <2>10, <2>11 DEF Opener
<1>5. Stages'
  <2> USE <1>2 DEF TypeOK, Stages, Places, Opening, Acquiring, Held
  <2>1. CASE Begin \/ Dialed \/ DialFails \/ Answered
    BY <2>1 DEF Begin, Dialed, DialFails, Answered
  <2>2. CASE HubFound \/ OpenFails \/ StartSession
    BY <2>2 DEF HubFound, OpenFails, StartSession
  <2>3. CASE SendsDHCP \/ TakesFrame \/ NewLinkFails \/ LinkCreated
    BY <2>3 DEF SendsDHCP, TakesFrame, NewLinkFails, LinkCreated
  <2>4. CASE Leave \/ Adopt \/ Return
    BY <2>4 DEF Leave, Adopt, Return
  <2>5. CASE CloseUnwanted
    BY <2>5 DEF CloseUnwanted
  <2> QED
    BY <2>1, <2>2, <2>3, <2>4, <2>5 DEF Opener
<1>6. Cancelling' /\ Reasoned'
  <2> USE <1>2 DEF TypeOK, Stages, Cancelling, Reasoned, Gone, Opening, Acquiring, Held
  <2>1. CASE Begin \/ Dialed \/ DialFails \/ Answered
    BY <2>1 DEF Begin, Dialed, DialFails, Answered
  <2>2. CASE HubFound \/ OpenFails \/ StartSession
    BY <2>2 DEF HubFound, OpenFails, StartSession
  <2>3. CASE SendsDHCP \/ TakesFrame \/ NewLinkFails \/ LinkCreated
    BY <2>3 DEF SendsDHCP, TakesFrame, NewLinkFails, LinkCreated
  <2>4. CASE Leave \/ Return
    BY <2>4 DEF Leave, Return
  <2>5. CASE CloseUnwanted
    BY <2>5 DEF CloseUnwanted
  <2>6. CASE Adopt
    BY <2>6 DEF Adopt
  <2> QED
    BY <2>1, <2>2, <2>3, <2>4, <2>5, <2>6 DEF Opener
<1> QED
  BY <1>4, <1>5, <1>6 DEF LinkInv

LEMMA SessionKeeps ==
  ASSUME LinkInv, Reader \/ Writer
  PROVE  LinkInv'
<1> USE DEF stream, ends, loops, owner, traffic, server, StopSession
<1>1. TypeOK /\ Stages /\ Cancelling /\ Reasoned
  BY DEF LinkInv
<1>2. frames' \in Seq(Kinds) /\ Len(frames') <= FrameRoom
      /\ outbound' \in Seq(Packets) /\ Len(outbound') <= OutRoom
  BY <1>1, TrafficTyped DEF Next
<1>3. CASE ReaderFails \/ WriterFails
  <2> DEFINE why == IOError
  <2>1. /\ session' = "closed" /\ raw' = "closed"
        /\ sessionErr' = IF session = "open" THEN why ELSE sessionErr
        /\ UNCHANGED <<pc, errand, ctx, after, link, linkErr, inbound, outloop, watcher, owner,
                       traffic, lease, server>>
        /\ reader' \in {reader, "ended"} /\ writer' \in {writer, "ended"}
        /\ (reader = "running" \/ writer = "running") /\ (silent \/ cause \/ raw = "closed")
    BY <1>3 DEF ReaderFails, WriterFails
  <2>2. why \in {"closed", "lost"} /\ (why = "closed" <=> raw = "closed")
    BY DEF IOError
  <2> HIDE DEF why
  <2>3. session # "none"
    BY <1>1, <2>1 DEF Stages
  <2>4. TypeOK'
    BY <1>1, <2>1, <2>2, <2>3 DEF TypeOK, Reasons
  <2>5. Stages' /\ Cancelling'
    BY <1>1, <2>1, <2>3 DEF Stages, Cancelling
  <2>6. Reasoned'
    BY <1>1, <2>1, <2>2, <2>3 DEF TypeOK, Reasoned, Gone
  <2> QED
    BY <2>4, <2>5, <2>6 DEF LinkInv
<1>4. CASE (\E f \in Kinds : ReaderGets(f)) \/ ReaderEnds \/ WriterWrites \/ WriterEnds
  <2>1. /\ UNCHANGED <<pc, stream, ends, inbound, outloop, watcher, owner, device, lease, silent,
                       cause>>
        /\ reader' \in {reader, "ended"} /\ writer' \in {writer, "ended"}
        /\ reader' # reader => reader = "running"
        /\ writer' # writer => writer = "running"
        /\ heard' \in {heard} \cup {heard \cup (h \cap {"discover", "request"}) : h \in SUBSET Packets}
    <3>1. CASE WriterWrites
      <4>1. Head(outbound) \in Packets
        BY <1>1, <3>1, HeadTailProperties DEF TypeOK, WriterWrites
      <4> QED
        BY <3>1, <4>1 DEF WriterWrites
    <3>2. CASE (\E f \in Kinds : ReaderGets(f)) \/ ReaderEnds \/ WriterEnds
      BY <3>2 DEF ReaderGets, ReaderEnds, WriterEnds
    <3> QED
      BY <1>4, <3>1, <3>2
  <2>2. TypeOK'
    BY <1>1, <1>2, <2>1 DEF TypeOK
  <2>3. Stages' /\ Cancelling'
    BY <1>1, <2>1 DEF Stages, Cancelling
  <2>4. Reasoned'
    BY <1>1, <2>1 DEF Reasoned, Gone
  <2> QED
    BY <2>2, <2>3, <2>4 DEF LinkInv
<1> QED
  BY <1>3, <1>4 DEF Reader, Writer

\* The link ends: what looks like a loss has a cause, what looks like a close an owner.
LEMMA StopKeeps ==
  ASSUME LinkInv, NEW why \in {"closed", "lost"}, StopLink(why), link # "none",
         UNCHANGED <<pc, errand, ctx, after, adopted, reader, writer, frames, outbound, lease, server>>,
         asked' \in BOOLEAN, asked' => asked \/ adopted, asked => asked',
         device' \in {device, "none"},
         inbound' \in {inbound, "ended"}, outloop' \in {outloop, "ended"},
         watcher' \in {watcher, "ended"},
         link = "open" => IF why = "lost" THEN cause ELSE asked' \/ Gone
  PROVE  LinkInv'
<1> USE DEF StopLink, StopSession, server
<1>1. TypeOK /\ Stages /\ Cancelling /\ Reasoned /\ session # "none"
  BY DEF LinkInv, Stages
<1>2. TypeOK'
  BY <1>1 DEF TypeOK, Reasons
<1>3. Stages' /\ Cancelling'
  BY <1>1 DEF Stages, Cancelling
<1>4. Reasoned'
  BY <1>1 DEF TypeOK, Reasoned, Gone
<1> QED
  BY <1>2, <1>3, <1>4 DEF LinkInv

\* The reason of a session that has ended, as the reason of its link.
LEMMA SessionReason ==
  ASSUME LinkInv, session = "closed"
  PROVE  /\ sessionErr \in {"closed", "lost"}
         /\ link = "open" => IF sessionErr = "lost" THEN cause ELSE asked \/ Gone
BY DEF LinkInv, TypeOK, Reasons, Reasoned

LEMMA LoopsKeep ==
  ASSUME LinkInv, Inbound \/ Outbound \/ WatcherEnds
  PROVE  LinkInv'
<1> USE DEF stream, ends, loops, owner, traffic, server
<1>1. TypeOK /\ Stages /\ Cancelling /\ Reasoned
  BY DEF LinkInv
<1>2. frames' \in Seq(Kinds) /\ Len(frames') <= FrameRoom
      /\ outbound' \in Seq(Packets) /\ Len(outbound') <= OutRoom
  BY <1>1, TrafficTyped DEF Next
<1>3. CASE InboundTakes
  <2>1. /\ inbound = "waiting" /\ inbound' \in {"waiting", "replying"}
        /\ (device' = device) \/ (device' = "far" /\ (cause' \/ lease # "local"))
        /\ cause' \in BOOLEAN /\ (cause => cause')
        /\ UNCHANGED <<pc, stream, ends, reader, writer, outloop, watcher, owner, lease, silent,
                       heard>>
    <3> USE <1>1, <1>3 DEF InboundTakes
    <3>1. inbound = "waiting" /\ inbound' \in {"waiting", "replying"}
      OBVIOUS
    <3>2. (device' = device) \/ (device' = "far" /\ (cause' \/ lease # "local"))
      OBVIOUS
    <3>3. cause' \in BOOLEAN /\ (cause => cause')
      OBVIOUS
    <3> QED
      BY <3>1, <3>2, <3>3
  <2>2. link # "none"
    BY <1>1, <2>1 DEF Stages
  <2>3. TypeOK'
    BY <1>1, <1>2, <2>1 DEF TypeOK
  <2>4. Stages' /\ Cancelling'
    BY <1>1, <2>1, <2>2 DEF Stages, Cancelling
  <2>5. lease \in {"local", "routed"}
    BY <1>1, <2>2 DEF TypeOK, Stages
  <2>6. Reasoned'
    BY <1>1, <2>1, <2>5 DEF Reasoned, Gone
  <2> QED
    BY <2>3, <2>4, <2>6 DEF LinkInv
<1>4. CASE InboundFails \/ WatcherEnds \/ (OutboundFails /\ outloop = "sending")
  <2>1. /\ session = "closed" /\ StopLink(sessionErr)
        /\ inbound # "off" \/ watcher # "off" \/ outloop # "off"
        /\ UNCHANGED <<pc, errand, ctx, after, owner, reader, writer, traffic, lease, server>>
        /\ inbound' \in {inbound, "ended"} /\ outloop' \in {outloop, "ended"}
        /\ watcher' \in {watcher, "ended"}
    BY <1>4 DEF InboundFails, WatcherEnds, OutboundFails
  <2>2. link # "none" /\ asked' \in BOOLEAN
    BY <1>1, <2>1 DEF TypeOK, Stages
  <2> QED
    BY <2>1, <2>2, SessionReason, StopKeeps
<1>5. ASSUME NEW to \in {"near", "far"}, OutboundTakes(to)
      PROVE  LinkInv'
  <2>1. outloop = "reading" /\ device = to /\ device' = "none"
        /\ UNCHANGED <<pc, errand, ctx, after, reader, writer, inbound, watcher, owner, frames,
                       outbound, lease, server>>
    BY <1>5 DEF OutboundTakes
  <2>2. link # "none" /\ asked' \in BOOLEAN
    BY <1>1, <2>1 DEF TypeOK, Stages
  <2>3. CASE to = "far" /\ lease # "routed"
    <3>1. outloop' = "ended" /\ StopLink("lost") /\ cause
      BY <1>1, <1>5, <2>1, <2>3 DEF OutboundTakes, Reasoned
    <3> QED
      BY <2>1, <2>2, <3>1, StopKeeps
  <2>4. CASE ~(to = "far" /\ lease # "routed")
    <3>1. outloop' \in {"asking", "sending"} /\ UNCHANGED <<ends, raw>>
      BY <1>5, <2>4 DEF OutboundTakes
    <3>2. TypeOK'
      BY <1>1, <1>2, <2>1, <3>1 DEF TypeOK
    <3>3. Stages' /\ Cancelling' /\ Reasoned'
      BY <1>1, <2>1, <2>2, <3>1 DEF Stages, Cancelling, Reasoned, Gone
    <3> QED
      BY <3>2, <3>3 DEF LinkInv
  <2> QED
    BY <2>3, <2>4
<1>6. CASE InboundReplies \/ InboundEnds \/ OutboundSends \/ OutboundEnds
           \/ (OutboundFails /\ outloop = "asking")
  <2>1. /\ UNCHANGED <<pc, stream, ends, reader, writer, watcher, owner, device, lease, server>>
        /\ inbound' \in {inbound, "waiting", "ended"}
        /\ outloop' \in {outloop, "sending", "reading", "ended"}
        /\ inbound' # inbound => inbound # "off"
        /\ outloop' # outloop => outloop # "off"
    BY <1>6 DEF InboundReplies, InboundEnds, OutboundSends, OutboundEnds, OutboundFails
  <2>2. TypeOK'
    BY <1>1, <1>2, <2>1 DEF TypeOK
  <2>3. Stages' /\ Cancelling'
    BY <1>1, <2>1 DEF Stages, Cancelling
  <2>4. Reasoned'
    BY <1>1, <2>1 DEF Reasoned, Gone
  <2> QED
    BY <2>2, <2>3, <2>4 DEF LinkInv
<1>7. OutboundFails => outloop \in {"asking", "sending"}
  BY DEF OutboundFails
<1> QED
  BY <1>3, <1>4, <1>5, <1>6, <1>7 DEF Inbound, Outbound

\* The context, the owner, the stack, the server and the network.
LEMMA WorldKeeps ==
  ASSUME LinkInv,
         \/ CancelContext \/ AfterFunc \/ OwnerCloses \/ GoesSilent \/ Misbehaves
         \/ \E to \in {"near", "far"} : Dial(to)
  PROVE  LinkInv'
<1> USE DEF stream, ends, loops, owner, traffic, server
<1>1. TypeOK /\ Stages /\ Cancelling /\ Reasoned
  BY DEF LinkInv
<1>2. CASE OwnerCloses
  <2>1. /\ adopted /\ link = "open" /\ asked' = TRUE /\ StopLink("closed")
        /\ UNCHANGED <<pc, errand, ctx, after, loops, adopted, traffic, lease, server>>
    BY <1>2 DEF OwnerCloses
  <2> QED
    BY <2>1, StopKeeps
<1>3. CASE CancelContext \/ AfterFunc
  <2> USE <1>1, <1>3 DEF CancelContext, AfterFunc
  <2>1. TypeOK'
    <3>1. /\ UNCHANGED <<pc, errand, ends, loops, owner, traffic, lease, server>>
          /\ ctx' \in {ctx, FALSE} /\ after' \in {after, "running", "none"}
          /\ raw' \in {raw, "closed"}
      OBVIOUS
    <3>2. ctx' \in BOOLEAN /\ after' \in {"none", "armed", "running"}
          /\ raw' \in {"none", "open", "closed"}
      BY ONLY <1>1, <3>1 DEF TypeOK
    <3> QED
      BY ONLY <1>1, <3>1, <3>2 DEF TypeOK, ends, loops, owner, traffic, server
  <2>2. Stages'
    BY DEF Stages
  <2>3. Cancelling' /\ Reasoned'
    BY DEF TypeOK, Stages, Cancelling, Reasoned, Gone, Opening
  <2> QED
    BY <2>1, <2>2, <2>3 DEF LinkInv
<1>4. CASE GoesSilent \/ Misbehaves \/ \E to \in {"near", "far"} : Dial(to)
  <2>1. /\ UNCHANGED <<pc, stream, ends, loops, owner, frames, outbound, lease, heard>>
        /\ silent' \in BOOLEAN /\ cause' \in BOOLEAN /\ (cause => cause') /\ (silent' => cause')
        /\ \/ device' = device
           \/ device' = "near" /\ link # "none"
           \/ device' = "far" /\ lease = "routed" /\ link # "none"
    <3>1. CASE GoesSilent \/ Misbehaves
      BY <1>1, <3>1 DEF GoesSilent, Misbehaves, TypeOK, Reasoned
    <3>2. ASSUME NEW to \in {"near", "far"}, Dial(to)
          PROVE  /\ UNCHANGED <<pc, stream, ends, loops, owner, frames, outbound, lease, server>>
                 /\ link = "open" /\ device' = to /\ (to = "far" => lease = "routed")
      BY <3>2 DEF Dial
    <3>3. silent \in BOOLEAN /\ cause \in BOOLEAN /\ (silent => cause)
      BY <1>1 DEF TypeOK, Reasoned
    <3> QED
      BY <1>4, <3>1, <3>2, <3>3
  <2>2. TypeOK'
    BY <1>1, <2>1 DEF TypeOK
  <2>3. Stages' /\ Cancelling'
    BY <1>1, <2>1 DEF Stages, Cancelling
  <2>4. Reasoned'
    BY <1>1, <2>1 DEF Reasoned, Gone
  <2> QED
    BY <2>2, <2>3, <2>4 DEF LinkInv
<1> QED
  BY <1>2, <1>3, <1>4

LEMMA LinkStarts == Init => LinkInv
<1> SUFFICES ASSUME Init PROVE LinkInv
  OBVIOUS
<1>1. TypeOK
  <2>1. \A S : <<>> \in Seq(S)
    BY EmptySeq
  <2>2. Len(<<>>) = 0 /\ 0 <= FrameRoom /\ 0 <= OutRoom
    BY LinkAssumption, EmptySeq
  <2>3. frames \in Seq(Kinds) /\ Len(frames) <= FrameRoom
        /\ outbound \in Seq(Packets) /\ Len(outbound) <= OutRoom
    BY <2>1, <2>2 DEF Init
  <2> QED
    BY <2>3 DEF Init, TypeOK, Places, Reasons
<1>2. Stages /\ Cancelling /\ Reasoned
  BY DEF Init, Stages, Cancelling, Reasoned, Opening, Acquiring, Held
<1> QED
  BY <1>1, <1>2 DEF LinkInv

LEMMA LinkStep == LinkInv /\ [Next]_vars => LinkInv'
<1> SUFFICES ASSUME LinkInv, [Next]_vars PROVE LinkInv'
  OBVIOUS
<1>1. CASE Next
  BY <1>1, OpenerKeeps, SessionKeeps, LoopsKeep, WorldKeeps DEF Next
<1>2. CASE UNCHANGED vars
  BY <1>2 DEF vars, stream, ends, loops, owner, traffic, server, LinkInv, TypeOK, Stages,
     Cancelling, Reasoned, Gone
<1> QED
  BY <1>1, <1>2

LEMMA LinkInvariant == Spec => []LinkInv
BY LinkStarts, LinkStep, PTL DEF Spec

-----------------------------------------------------------------------------
(* The link keeps its word                                                 *)

\* An attempt that is left: the link had not been registered.
LEMMA LeavingFails ==
  ASSUME pc \notin {"idle", "leaving", "failed"}, ~adopted, pc' = "leaving",
         UNCHANGED <<cause, silent, asked>>
  PROVE  Promise!Move
BY DEF Promise!Move, Link

\* A link that is stopped: it was up and becomes what the reason says, or nobody sees it.
LEMMA StoppingShows ==
  ASSUME LinkInv, NEW why \in {"closed", "lost"}, StopLink(why),
         UNCHANGED <<pc, adopted, cause, silent, asked>>,
         link = "open" => IF why = "lost" THEN cause ELSE Gone \/ ~adopted
  PROVE  Promise!Move \/ Promise!Settle
<1>1. TypeOK /\ Stages
  BY DEF LinkInv
<1>2. CASE link = "open" /\ adopted
  <2>1. pc \in {"returning", "done"}
    BY <1>1, <1>2 DEF Stages
  <2>2. why = "lost" /\ cause
    BY <1>2, <2>1 DEF Gone
  <2>3. Link = "up" /\ Link' = "lost"
    BY <1>2, <2>1, <2>2 DEF Link, StopLink
  <2> QED
    BY <2>2, <2>3 DEF Promise!Move
<1>3. CASE ~(link = "open" /\ adopted)
  <2>1. Link' = Link
    BY <1>1, <1>3 DEF Link, StopLink, TypeOK
  <2> QED
    BY <2>1 DEF Promise!Settle
<1> QED
  BY <1>2, <1>3

LEMMA OpenerSpeaks ==
  ASSUME LinkInv, Opener
  PROVE  Promise!Move \/ Promise!Settle
<1> USE DEF stream, ends, loops, owner, traffic, server, Goto, AtServer
<1>1. TypeOK /\ Stages /\ Reasoned
  BY DEF LinkInv
<1>2. UNCHANGED <<cause, silent, asked>>
  BY DEF Opener, Begin, Dialed, DialFails, Answered, HubFound, OpenFails, StartSession,
     SendsDHCP, TakesFrame, NewLinkFails, LinkCreated, Leave, Adopt, CloseUnwanted, Return
<1>3. CASE Begin
  BY <1>1, <1>2, <1>3 DEF Begin, Link, Stages, Promise!Move
<1>4. CASE Adopt
  <2>1. pc = "adopting" /\ ctx /\ ~adopted /\ link # "none" /\ ~asked
    BY <1>1, <1>4 DEF Adopt, Stages, Held
  <2>2. Link = "opening" /\ Link' = IF link = "open" THEN "up" ELSE linkErr
    BY <1>4, <2>1 DEF Adopt, Link
  <2>3. link = "closed" => linkErr = "lost" /\ cause
    BY <1>1, <2>1 DEF TypeOK, Reasons, Reasoned, Gone
  <2>4. link \in {"open", "closed"}
    BY <1>1, <2>1 DEF TypeOK
  <2> QED
    BY <1>2, <2>2, <2>3, <2>4 DEF Promise!Move
<1>5. CASE pc' = "leaving"
  <2>1. pc \notin {"idle", "leaving", "failed", "returning", "done"}
    BY <1>5 DEF Opener, Begin, Dialed, DialFails, Answered, HubFound, OpenFails, StartSession,
       SendsDHCP, TakesFrame, NewLinkFails, LinkCreated, Leave, Adopt, CloseUnwanted, Return
  <2>2. ~adopted
    BY <1>1, <2>1 DEF Stages
  <2> QED
    BY <1>2, <1>5, <2>1, <2>2, LeavingFails
<1>6. CASE pc' # "leaving" /\ ~Begin /\ ~Adopt
  <2>1. /\ adopted' = adopted /\ pc # "idle" /\ pc' # "idle" /\ linkErr' = linkErr
        /\ pc \in {"leaving", "failed"} <=> pc' \in {"leaving", "failed"}
        /\ link' = link \/ pc = "stack"
    BY <1>6 DEF Opener, Dialed, DialFails, Answered, HubFound, OpenFails, StartSession,
       SendsDHCP, TakesFrame, NewLinkFails, LinkCreated, Leave, CloseUnwanted, Return
  <2>2. pc = "stack" => ~adopted
    BY <1>1 DEF Stages
  <2>3. Link' = Link
    BY <2>1, <2>2 DEF Link
  <2> QED
    BY <1>2, <2>3 DEF Promise!Settle
<1> QED
  BY <1>3, <1>4, <1>5, <1>6

LEMMA LoopsSpeak ==
  ASSUME LinkInv, Reader \/ Writer \/ Inbound \/ Outbound \/ WatcherEnds
  PROVE  Promise!Move \/ Promise!Settle \/ Promise!Misbehave
<1> USE DEF stream, ends, loops, owner, traffic, server
<1>1. TypeOK /\ Stages /\ Reasoned
  BY DEF LinkInv
<1>2. CASE Reader \/ Writer
  <2>1. UNCHANGED <<pc, adopted, link, linkErr, cause, silent, asked>>
    BY <1>2 DEF Reader, ReaderGets, ReaderFails, ReaderEnds, Writer, WriterWrites, WriterFails,
       WriterEnds
  <2> QED
    BY <2>1 DEF Link, Promise!Settle
<1>3. CASE InboundTakes
  <2>1. /\ UNCHANGED <<pc, adopted, link, linkErr, silent, asked>>
        /\ cause' = TRUE \/ cause' = cause
    BY <1>1, <1>3 DEF InboundTakes, TypeOK
  <2> QED
    BY <2>1 DEF Link, Promise!Settle, Promise!Misbehave
<1>4. CASE InboundFails \/ WatcherEnds \/ (OutboundFails /\ outloop = "sending")
  <2>1. /\ session = "closed" /\ StopLink(sessionErr)
        /\ UNCHANGED <<pc, adopted, cause, silent, asked>>
    BY <1>4 DEF InboundFails, WatcherEnds, OutboundFails
  <2>2. asked => link = "closed"
    BY <1>1 DEF Stages
  <2> QED
    BY <2>1, <2>2, SessionReason, StoppingShows
<1>5. ASSUME NEW to \in {"near", "far"}, OutboundTakes(to)
      PROVE  Promise!Move \/ Promise!Settle
  <2>1. device = to /\ UNCHANGED <<pc, adopted, cause, silent, asked>>
    BY <1>5 DEF OutboundTakes
  <2>2. CASE to = "far" /\ lease # "routed"
    <3>1. StopLink("lost") /\ cause
      BY <1>1, <1>5, <2>1, <2>2 DEF OutboundTakes, Reasoned
    <3> QED
      BY <2>1, <3>1, StoppingShows
  <2>3. CASE ~(to = "far" /\ lease # "routed")
    <3>1. UNCHANGED <<link, linkErr>>
      BY <1>5, <2>3 DEF OutboundTakes
    <3> QED
      BY <2>1, <3>1 DEF Link, Promise!Settle
  <2> QED
    BY <2>2, <2>3
<1>6. CASE InboundReplies \/ InboundEnds \/ OutboundSends \/ OutboundEnds
           \/ (OutboundFails /\ outloop = "asking")
  <2>1. UNCHANGED <<pc, adopted, link, linkErr, cause, silent, asked>>
    BY <1>6 DEF InboundReplies, InboundEnds, OutboundSends, OutboundEnds, OutboundFails
  <2> QED
    BY <2>1 DEF Link, Promise!Settle
<1>7. OutboundFails => outloop \in {"asking", "sending"}
  BY DEF OutboundFails
<1> QED
  BY <1>2, <1>3, <1>4, <1>5, <1>6, <1>7 DEF Inbound, Outbound

LEMMA WorldSpeaks ==
  ASSUME LinkInv,
         \/ CancelContext \/ AfterFunc \/ OwnerCloses \/ GoesSilent \/ Misbehaves
         \/ \E to \in {"near", "far"} : Dial(to)
  PROVE  Promise!Ask \/ Promise!Settle \/ Promise!Misbehave
<1> USE DEF stream, ends, loops, owner, traffic, server
<1>1. Stages
  BY DEF LinkInv
<1>2. CASE OwnerCloses
  <2>1. adopted /\ link = "open" /\ asked' = TRUE /\ StopLink("closed")
        /\ UNCHANGED <<pc, adopted, cause, silent>>
    BY <1>2 DEF OwnerCloses
  <2>2. pc \in {"returning", "done"}
    BY <1>1, <2>1 DEF Stages
  <2>3. Link = "up" /\ Link' = "closed"
    BY <2>1, <2>2 DEF Link, StopLink
  <2> QED
    BY <2>1, <2>3 DEF Promise!Ask
<1>3. CASE GoesSilent \/ Misbehaves
  <2>1. /\ UNCHANGED <<pc, adopted, link, linkErr, asked>>
        /\ cause' = TRUE /\ silent' \in {silent, TRUE}
    BY <1>3 DEF GoesSilent, Misbehaves
  <2> QED
    BY <2>1 DEF Link, Promise!Misbehave
<1>4. CASE CancelContext \/ AfterFunc \/ \E to \in {"near", "far"} : Dial(to)
  <2>1. UNCHANGED <<pc, adopted, link, linkErr, cause, silent, asked>>
    BY <1>4 DEF CancelContext, AfterFunc, Dial
  <2> QED
    BY <2>1 DEF Link, Promise!Settle
<1> QED
  BY <1>2, <1>3, <1>4

\* A link never gives a reason that is not true: it ends as lost only after the server or
\* the network gave cause, as closed only when its owner closed it, and an end is for good
\* (Link.stop keeps the first reason, link.go:267; isolated_manager.go:290 reads it).
\* This is the step-by-step half of KeepsLinkPromise, whose other half is liveness.
THEOREM LinkKeepsItsWord ==
  Spec => Promise!Init /\ [][Promise!Next]_<<Link, cause, silent, asked, Released>>
<1>1. Init => Promise!Init
  BY DEF Init, Promise!Init, Link, Released
<1>2. LinkInv /\ [Next]_vars => [Promise!Next]_<<Link, cause, silent, asked, Released>>
  <2> SUFFICES ASSUME LinkInv, [Next]_vars
               PROVE  [Promise!Next]_<<Link, cause, silent, asked, Released>>
    OBVIOUS
  <2>1. CASE Next
    <3>1. Promise!Misbehave \/ Promise!Ask \/ Promise!Move \/ Promise!Settle
      BY <2>1, OpenerSpeaks, LoopsSpeak, WorldSpeaks DEF Next
    <3>2. Released' \in BOOLEAN
      BY DEF Released
    <3> QED
      BY <3>1, <3>2 DEF Promise!Next
  <2>2. CASE UNCHANGED vars
    BY <2>2 DEF vars, stream, ends, loops, owner, traffic, server, Link, Released
  <2> QED
    BY <2>1, <2>2
<1> QED
  BY <1>1, <1>2, LinkInvariant, PTL DEF Spec

-----------------------------------------------------------------------------
(* Induction on numbers, and joined pieces                                 *)
\* A set that holds 0, and with every number up to n the next one, holds them all.
LEMMA Upwards ==
  ASSUME NEW n \in Nat, NEW P, 0 \in P, \A k \in 1..n : k - 1 \in P => k \in P
  PROVE  0..n \subseteq P
<1> SUFFICES ASSUME NEW m \in 0..n, m \notin P PROVE FALSE
  OBVIOUS
<1> DEFINE Up(k) == 0..k
           holes == {k \in 0..n : k \notin P}
           ups == {Up(k) : k \in holes}
           R == StrictSubsetOrdering(Nat)
           F == FiniteSubsetsOf(Nat)
<1>1. ups \subseteq F
  <2> SUFFICES ASSUME NEW k \in holes PROVE Up(k) \in F
    OBVIOUS
  <2>1. IsFiniteSet(0..k)
    BY FS_Interval
  <2> QED
    BY <2>1 DEF FiniteSubsetsOf
<1>2. ups # {}
  BY m \in holes
<1>3. IsWellFoundedOn(R, F)
  BY FS_StrictSubsetOrderingWellFounded
<1> HIDE DEF R, F
<1>4. PICK least \in ups : \A up \in ups : ~(<<up, least>> \in R)
  <2> HIDE DEF ups
  <2> QED
    BY <1>1, <1>2, <1>3, WFMin
<1>5. PICK k \in holes : least = Up(k)
  OBVIOUS
<1>6. k \in 1..n /\ k - 1 \in holes
  OBVIOUS
<1>7. Up(k - 1) \subseteq Up(k) /\ k \in Up(k) /\ k \notin Up(k - 1) /\ Up(k) \subseteq Nat
  BY <1>6
<1>8. <<Up(k - 1), Up(k)>> \in R
  <2> HIDE DEF Up
  <2> QED
    BY <1>7 DEF R, StrictSubsetOrdering
<1> QED
  BY <1>4, <1>5, <1>6, <1>8

\* g[k] is the first k of the n sequences in s, joined; all of them give what FlattenSeq does.
Joined(g, n, s, C) ==
  /\ g \in [0..n -> Seq(C)]
  /\ g[0] = <<>> /\ \A k \in 1..n : g[k] = g[k - 1] \o s[k]
  /\ Message!FlattenSeq(s) = g[n]

\* FlattenSeq obeys its equation.
LEMMA Flattened ==
  ASSUME NEW C, NEW n \in Nat, NEW s \in [1..n -> Seq(C)]
  PROVE  \E g : Joined(g, n, s, C)
<1> DEFINE Joins(g, m) == g[0] = <<>> /\ \A k \in 1..m : g[k] = g[k - 1] \o s[k]
           P == {m \in 0..n : \E g \in [0..m -> Seq(C)] : Joins(g, m)}
<1>1. 0 \in P
  <2> DEFINE g == [k \in 0..0 |-> <<>>]
  <2>1. g \in [0..0 -> Seq(C)] /\ Joins(g, 0)
    BY EmptySeq
  <2> HIDE DEF g, Joins
  <2> QED
    BY <2>1
<1>2. ASSUME NEW m \in 1..n, m - 1 \in P PROVE m \in P
  <2>1. PICK g \in [0..(m - 1) -> Seq(C)] : Joins(g, m - 1)
    BY <1>2
  <2> DEFINE j == g[m - 1] \o s[m]
             h == [k \in 0..m |-> IF k = m THEN j ELSE g[k]]
  <2>2. j \in Seq(C)
    <3>1. g[m - 1] \in Seq(C) /\ s[m] \in Seq(C)
      OBVIOUS
    <3> QED
      BY <3>1, ConcatProperties
  <2>3. h \in [0..m -> Seq(C)]
    <3> HIDE DEF j
    <3> QED
      BY <2>2
  <2>4. Joins(h, m)
    <3>1. h[0] = <<>>
      BY <2>1
    <3>2. ASSUME NEW k \in 1..m PROVE h[k] = h[k - 1] \o s[k]
      <4>1. h[k - 1] = g[k - 1] /\ (k # m => k \in 1..(m - 1) /\ h[k] = g[k])
        OBVIOUS
      <4>2. h[m] = g[m - 1] \o s[m]
        OBVIOUS
      <4> HIDE DEF h
      <4> QED
        BY <2>1, <4>1, <4>2
    <3> QED
      BY <3>1, <3>2
  <2> HIDE DEF h, Joins
  <2> QED
    BY <2>3, <2>4
<1>3. n \in P
  <2> HIDE DEF P
  <2>1. \A k \in 1..n : k - 1 \in P => k \in P
    BY <1>2
  <2>2. 0..n \subseteq P
    BY <1>1, <2>1, Upwards
  <2> QED
    BY <2>2
<1>4. PICK g \in [0..n -> Seq(C)] : Joins(g, n)
  BY <1>3
<1>5. Message!FlattenSeq(s) = g[n]
  <2>1. Len(s) = n /\ s \in Seq(Seq(C))
    OBVIOUS
  <2>2. CASE n = 0
    <3>1. s = <<>>
      BY <2>1, <2>2
    <3> QED
      BY <1>4, <2>1, <2>2, <3>1 DEF Message!FlattenSeq
  <2>3. CASE n # 0
    <3> DEFINE f == CHOOSE f : f = [i \in 1..Len(s) |-> IF i = 1 THEN s[i] ELSE f[i - 1] \o s[i]]
               h == [i \in 1..Len(s) |-> g[i]]
    <3>1. Message!FlattenSeq(s) = f[n]
      BY <2>1, <2>3 DEF Message!FlattenSeq
    <3>2. h = [i \in 1..Len(s) |-> IF i = 1 THEN s[i] ELSE h[i - 1] \o s[i]]
      <4>1. ASSUME NEW i \in 1..n PROVE g[i] = IF i = 1 THEN s[i] ELSE h[i - 1] \o s[i]
        <5>1. g[i] = g[i - 1] \o s[i] /\ s[i] \in Seq(C)
          BY <1>4
        <5>2. CASE i = 1
          <6>1. i - 1 = 0 /\ g[0] = <<>>
            BY <1>4, <5>2
          <6> QED
            BY <5>1, <5>2, <6>1, ConcatEmptySeq
        <5>3. CASE i # 1
          <6>1. i - 1 \in 1..Len(s)
            BY <2>1, <5>3
          <6>2. h[i - 1] = g[i - 1]
            BY <6>1
          <6> QED
            BY <5>1, <5>3, <6>2
        <5> QED
          BY <5>2, <5>3
      <4> QED
        BY <2>1, <4>1
    <3> HIDE DEF h
    <3>3. f = [i \in 1..Len(s) |-> IF i = 1 THEN s[i] ELSE f[i - 1] \o s[i]]
      BY <3>2
    <3> HIDE DEF f
    <3> DEFINE Q == {0} \cup {i \in 1..n : f[i] = g[i]}
    <3>4. ASSUME NEW k \in 1..n, k - 1 \in Q PROVE k \in Q
      <4>1. g[k] = g[k - 1] \o s[k] /\ s[k] \in Seq(C)
        BY <1>4
      <4>2. CASE k = 1
        <5>1. f[k] = s[k]
          BY <2>1, <3>3, <4>2
        <5>2. k - 1 = 0 /\ g[0] = <<>>
          BY <1>4, <4>2
        <5> QED
          BY <4>1, <5>1, <5>2, ConcatEmptySeq
      <4>3. CASE k # 1
        <5>1. f[k] = f[k - 1] \o s[k]
          BY <2>1, <3>3, <4>3
        <5>2. f[k - 1] = g[k - 1]
          BY <3>4, <4>3
        <5> QED
          BY <4>1, <5>1, <5>2
      <4> QED
        BY <4>2, <4>3
    <3>5. n \in Q
      <4> HIDE DEF Q
      <4>1. 0 \in Q
        BY DEF Q
      <4>2. \A k \in 1..n : k - 1 \in Q => k \in Q
        BY <3>4
      <4>3. 0..n \subseteq Q
        BY <4>1, <4>2, Upwards
      <4> QED
        BY <4>3
    <3> QED
      BY <2>3, <3>1, <3>5
  <2> QED
    BY <2>2, <2>3
<1>6. Joined(g, n, s, C)
  <2>1. g[0] = <<>> /\ \A k \in 1..n : g[k] = g[k - 1] \o s[k]
    BY <1>4
  <2> QED
    BY <1>5, <2>1 DEF Joined
<1> QED
  BY <1>6

\* What is left of the cells after the first n.
Rest(cells, n) == SubSeq(cells, n + 1, Len(cells))

\* The cells are what was written, as far as both go.
Agree(cells, piece) == \A i \in 1..Len(cells) : i <= Len(piece) => cells[i] = piece[i]

\* What reading the cells of a piece must return: what the piece stands for, or a
\* failure when it is cut short.
Outcome(cells, piece, value) ==
  IF Len(piece) <= Len(cells) THEN Message!Got(value, Rest(cells, Len(piece))) ELSE Message!Failed

LEMMA RestTyped ==
  ASSUME NEW C, NEW cells \in Seq(C), NEW n \in 0..Len(cells)
  PROVE  /\ Rest(cells, n) \in Seq(C) /\ Len(Rest(cells, n)) = Len(cells) - n
         /\ \A i \in 1..(Len(cells) - n) : Rest(cells, n)[i] = cells[n + i]
<1>1. Len(cells) \in Nat /\ n \in Nat /\ n <= Len(cells) /\ \A i \in n + 1..Len(cells) : cells[i] \in C
  BY ElementOfSeq, LenProperties
<1> DEFINE l == Len(cells)
           r == SubSeq(cells, n + 1, l)
<1>2. /\ r \in Seq(C) /\ Len(r) = (IF n + 1 <= l THEN l - (n + 1) + 1 ELSE 0)
      /\ \A i \in 1..(l - (n + 1) + 1) : r[i] = cells[(n + 1) + i - 1]
  <2> HIDE DEF l
  <2> QED
    BY <1>1, SubSeqProperties DEF l
<1>3. r = Rest(cells, n)
  BY DEF Rest
<1> HIDE DEF r
<1>4. Len(r) = l - n
  BY <1>1, <1>2
<1>5. ASSUME NEW i \in 1..(l - n) PROVE r[i] = cells[n + i]
  <2>1. i \in 1..(l - (n + 1) + 1) /\ (n + 1) + i - 1 = n + i
    BY <1>1
  <2> QED
    BY <1>2, <2>1
<1> QED
  BY <1>2, <1>3, <1>4, <1>5

\* Two pieces one after the other.
LEMMA Beyond ==
  ASSUME NEW C, NEW cells \in Seq(C), NEW a \in Seq(C), NEW b \in Seq(C), Agree(cells, a \o b)
  PROVE  /\ Agree(cells, a) /\ Len(a \o b) = Len(a) + Len(b)
         /\ Len(a) <= Len(cells) =>
              /\ Rest(cells, Len(a)) \in Seq(C) /\ Agree(Rest(cells, Len(a)), b)
              /\ Len(a \o b) <= Len(cells) <=> Len(b) <= Len(Rest(cells, Len(a)))
              /\ Len(a \o b) <= Len(cells) =>
                   Rest(Rest(cells, Len(a)), Len(b)) = Rest(cells, Len(a \o b))
<1> DEFINE w == a \o b
<1>1. /\ Len(w) = Len(a) + Len(b) /\ Len(a) \in Nat /\ Len(b) \in Nat /\ Len(cells) \in Nat
      /\ \A i \in 1..(Len(a) + Len(b)) : w[i] = IF i <= Len(a) THEN a[i] ELSE b[i - Len(a)]
  BY ConcatProperties, LenProperties
<1>2. \A i \in 1..Len(cells) : i <= Len(w) => cells[i] = w[i]
  BY DEF Agree
<1> HIDE DEF w
<1>3. Agree(cells, a)
  BY <1>1, <1>2 DEF Agree
<1>4. ASSUME Len(a) <= Len(cells)
      PROVE  /\ Rest(cells, Len(a)) \in Seq(C) /\ Agree(Rest(cells, Len(a)), b)
             /\ Len(w) <= Len(cells) <=> Len(b) <= Len(Rest(cells, Len(a)))
             /\ Len(w) <= Len(cells) => Rest(Rest(cells, Len(a)), Len(b)) = Rest(cells, Len(w))
  <2> DEFINE r == Rest(cells, Len(a))
  <2>1. /\ r \in Seq(C) /\ Len(r) = Len(cells) - Len(a)
        /\ \A i \in 1..(Len(cells) - Len(a)) : r[i] = cells[Len(a) + i]
    BY <1>1, <1>4, RestTyped
  <2> HIDE DEF r
  <2>2. Agree(r, b)
    <3> SUFFICES ASSUME NEW i \in 1..Len(r), i <= Len(b) PROVE r[i] = b[i]
      BY DEF Agree
    <3>1. /\ Len(a) + i \in 1..Len(cells) /\ Len(a) + i <= Len(w)
          /\ Len(a) + i \in 1..(Len(a) + Len(b)) /\ ~(Len(a) + i <= Len(a)) /\ (Len(a) + i) - Len(a) = i
      BY <1>1, <2>1
    <3>2. r[i] = cells[Len(a) + i]
      BY <2>1
    <3> QED
      BY <1>1, <1>2, <3>1, <3>2
  <2>3. ASSUME Len(w) <= Len(cells)
        PROVE  Rest(r, Len(b)) = Rest(cells, Len(w))
    <3> DEFINE p == Rest(r, Len(b))
               q == Rest(cells, Len(w))
    <3>1. /\ p \in Seq(C) /\ Len(p) = Len(r) - Len(b)
          /\ \A i \in 1..(Len(r) - Len(b)) : p[i] = r[Len(b) + i]
      <4>1. r \in Seq(C) /\ Len(b) \in 0..Len(r)
        BY <1>1, <2>1, <2>3
      <4> QED
        BY ONLY <4>1, RestTyped
    <3>2. /\ q \in Seq(C) /\ Len(q) = Len(cells) - Len(w)
          /\ \A i \in 1..(Len(cells) - Len(w)) : q[i] = cells[Len(w) + i]
      <4>1. Len(w) \in 0..Len(cells)
        BY <1>1, <2>3
      <4> QED
        BY <4>1, RestTyped
    <3> HIDE DEF p, q
    <3>3. Len(p) = Len(q)
      BY <1>1, <2>1, <3>1, <3>2
    <3>4. ASSUME NEW i \in 1..Len(p) PROVE p[i] = q[i]
      <4>1. /\ i \in 1..(Len(r) - Len(b)) /\ i \in 1..(Len(cells) - Len(w))
            /\ Len(b) + i \in 1..(Len(cells) - Len(a)) /\ Len(a) + (Len(b) + i) = Len(w) + i
        BY <1>1, <2>1, <3>1, <3>2, <3>3
      <4> QED
        BY <2>1, <3>1, <3>2, <4>1
    <3>5. p = q
      BY <3>1, <3>2, <3>3, <3>4, SeqEqual
    <3> QED
      BY <3>5 DEF p, q
  <2> QED
    BY <1>1, <2>1, <2>2, <2>3 DEF r
<1> QED
  BY <1>1, <1>3, <1>4 DEF w

-----------------------------------------------------------------------------
(* Reading what was written                                                *)
\* One step of reading many things: what was got so far, and the read of the next.
Further(got, read) ==
  IF got.ok /\ read.ok THEN Message!Got(Append(got.value, read.value), read.rest)
  ELSE Message!Failed

\* h reads one thing after the other with the function reads.
Reading(h, n, cells, reads, C) ==
  /\ h = [k \in 0..n |-> h[k]] /\ h[0] = Message!Got(<<>>, cells)
  /\ \A k \in 1..n : h[k - 1].rest \in Seq(C) /\ h[k] = Further(h[k - 1], reads[h[k - 1].rest])

\* reads returns the value of a piece for every cells that begin with it.
ReadsBack(reads, piece, value, C) ==
  \A c \in Seq(C) : Agree(c, piece) => reads[c] = Outcome(c, piece, value)

AllReadBack(reads, n, s, v, C) == \A k \in 1..n : ReadsBack(reads, s[k], v[k], C)

\* Reading n things with reads ends with the outcome for the piece.
ReadsAll(reads, n, cells, piece, value, C) ==
  \E h : Reading(h, n, cells, reads, C) /\ h[n] = Outcome(cells, piece, value)

\* b begins with a.
Begins(a, b) == Len(a) \in Nat /\ Len(a) <= Len(b) /\ \A i \in 1..Len(a) : b[i] = a[i]

\* Where the pieces of a joined sequence are.
LEMMA Placed ==
  ASSUME NEW C, NEW n \in Nat, NEW s \in [1..n -> Seq(C)]
  PROVE  \E g \in [0..n -> Seq(C)] :
           /\ g[0] = <<>> /\ \A k \in 1..n : g[k] = g[k - 1] \o s[k]
           /\ Message!FlattenSeq(s) = g[n]
           /\ \A k \in 0..n : Begins(g[k], g[n])
<1>0. PICK g : Joined(g, n, s, C)
  BY Flattened
<1>6. /\ g \in [0..n -> Seq(C)]
      /\ g[0] = <<>> /\ \A k \in 1..n : g[k] = g[k - 1] \o s[k]
      /\ Message!FlattenSeq(s) = g[n]
  BY <1>0 DEF Joined
<1> DEFINE Starts(k, m) == /\ Len(g[k]) <= Len(g[m])
                           /\ \A i \in 1..Len(g[k]) : g[m][i] = g[k][i]
           P == {m \in 0..n : \A k \in 0..m : Starts(k, m)}
<1>1. \A k \in 0..n : g[k] \in Seq(C) /\ Len(g[k]) \in Nat
  BY <1>6, LenProperties
<1>2. 0 \in P
  <2>1. Starts(0, 0)
    BY <1>1, <1>6
  <2> HIDE DEF Starts
  <2> QED
    BY <2>1
<1>3. ASSUME NEW m \in 1..n, m - 1 \in P PROVE m \in P
  <2>1. /\ m \in 0..n /\ m - 1 \in 0..n /\ s[m] \in Seq(C) /\ g[m - 1] \in Seq(C)
        /\ g[m] = g[m - 1] \o s[m]
    <3> HIDE DEF P, Starts
    <3>1. m \in 0..n /\ m - 1 \in 0..n
      OBVIOUS
    <3> QED
      BY <1>6, <3>1
  <2>2. /\ Len(g[m]) = Len(g[m - 1]) + Len(s[m]) /\ Len(s[m]) \in Nat
        /\ \A i \in 1..(Len(g[m - 1]) + Len(s[m])) :
             g[m][i] = IF i <= Len(g[m - 1]) THEN g[m - 1][i] ELSE s[m][i - Len(g[m - 1])]
    BY <2>1, ConcatProperties, LenProperties
  <2>3. ASSUME NEW k \in 0..m PROVE Starts(k, m)
    <3>1. CASE k = m
      BY <1>1, <3>1
    <3>2. CASE k # m
      <4>1. k \in 0..(m - 1) /\ k \in 0..n
        BY <3>2
      <4>2. Starts(k, m - 1)
        <5> HIDE DEF Starts
        <5> QED
          BY <1>3, <4>1
      <4>3. Len(g[k]) \in Nat /\ Len(g[m - 1]) \in Nat
        BY <1>1, <2>1, <4>1
      <4>6. Len(g[k]) <= Len(g[m - 1]) /\ \A i \in 1..Len(g[k]) : g[m - 1][i] = g[k][i]
        BY <4>2
      <4>7. Len(g[m]) = Len(g[m - 1]) + Len(s[m]) /\ Len(s[m]) \in Nat
        BY <2>2
      <4> HIDE DEF Starts, P
      <4>4. Len(g[k]) <= Len(g[m])
        BY ONLY <4>6, <4>3, <4>7
      <4>5. ASSUME NEW i \in 1..Len(g[k]) PROVE g[m][i] = g[k][i]
        <5>1. i \in 1..(Len(g[m - 1]) + Len(s[m])) /\ i <= Len(g[m - 1])
          <6>1. i \in 1..Len(g[k])
            OBVIOUS
          <6> QED
            BY ONLY <4>3, <4>6, <4>7, <6>1
        <5>2. g[m][i] = g[m - 1][i]
          BY <2>2, <5>1
        <5> QED
          BY <4>6, <5>2
      <4> QED
        BY <4>4, <4>5 DEF Starts
    <3> QED
      BY <3>1, <3>2
  <2> HIDE DEF Starts
  <2> QED
    BY <2>1, <2>3
<1>4. n \in P
  <2> HIDE DEF P
  <2>1. \A k \in 1..n : k - 1 \in P => k \in P
    BY <1>3
  <2>2. 0..n \subseteq P
    BY <1>2, <2>1, Upwards
  <2> QED
    BY <2>2
<1>5. \A k \in 0..n : Starts(k, n)
  <2> HIDE DEF Starts
  <2> QED
    BY <1>4
<1>7. \A k \in 0..n : Begins(g[k], g[n])
  BY <1>1, <1>5 DEF Begins
<1> QED
  BY <1>6, <1>7

\* When every piece is read back, so are all of them, one after the other.
LEMMA ManyRead ==
  ASSUME NEW C, NEW V, NEW n \in Nat, NEW s \in [1..n -> Seq(C)], NEW v \in [1..n -> V],
         NEW reads, NEW cells \in Seq(C), Agree(cells, Message!FlattenSeq(s)),
         AllReadBack(reads, n, s, v, C)
  PROVE  /\ Message!FlattenSeq(s) \in Seq(C)
         /\ ReadsAll(reads, n, cells, Message!FlattenSeq(s), v, C)
<1>1. PICK g \in [0..n -> Seq(C)] :
        /\ g[0] = <<>> /\ \A k \in 1..n : g[k] = g[k - 1] \o s[k]
        /\ Message!FlattenSeq(s) = g[n]
        /\ \A k \in 0..n : Begins(g[k], g[n])
  BY Placed
<1>2. \A k \in 0..n : /\ Len(g[k]) \in Nat /\ Len(g[k]) <= Len(g[n])
                      /\ \A i \in 1..Len(g[k]) : g[n][i] = g[k][i]
  BY <1>1 DEF Begins
<1>3. Len(cells) \in Nat /\ v \in Seq(V) /\ Len(v) = n
  BY LenProperties
<1>4. \A k \in 0..n : Agree(cells, g[k])
  <2> SUFFICES ASSUME NEW k \in 0..n, NEW i \in 1..Len(cells), i <= Len(g[k])
               PROVE  cells[i] = g[k][i]
    BY DEF Agree
  <2>1. i <= Len(g[n]) /\ i \in 1..Len(g[k])
    BY <1>2, <1>3
  <2> QED
    BY <1>1, <1>2, <2>1 DEF Agree
<1> DEFINE Value(k) == SubSeq(v, 1, k)
           Good(k) == Message!Got(Value(k), Rest(cells, Len(g[k])))
           h == [k \in 0..n |-> IF Len(g[k]) <= Len(cells) THEN Good(k) ELSE Message!Failed]
<1>5. \A k \in 0..n : h[k] = IF Len(g[k]) <= Len(cells) THEN Good(k) ELSE Message!Failed
  <2> HIDE DEF Good
  <2> QED
    OBVIOUS
<1>6. h = [k \in 0..n |-> h[k]]
  <2> HIDE DEF Good
  <2> QED
    OBVIOUS
<1> HIDE DEF h
<1>7. h[0] = Message!Got(<<>>, cells)
  <2>1. Value(0) = <<>>
    BY SubSeqEmpty
  <2>2. Len(g[0]) = 0 /\ Rest(cells, 0) = cells
    <3>1. SubSeq(cells, 1, Len(cells)) = cells
      BY SubSeqFull
    <3> QED
      BY <1>1, <3>1, EmptySeq DEF Rest
  <2>3. h[0] = Good(0)
    BY <1>3, <1>5, <2>2
  <2> QED
    BY <2>1, <2>2, <2>3
<1>8. h[n] = Outcome(cells, g[n], v)
  <2>1. Value(n) = v
    BY <1>3, SubSeqFull
  <2>2. n \in 0..n
    OBVIOUS
  <2>3. h[n] = IF Len(g[n]) <= Len(cells) THEN Good(n) ELSE Message!Failed
    BY <1>5, <2>2
  <2> QED
    BY <2>1, <2>3 DEF Outcome
<1>9. ASSUME NEW k \in 1..n
      PROVE  h[k - 1].rest \in Seq(C) /\ h[k] = Further(h[k - 1], reads[h[k - 1].rest])
  <2>1. /\ k \in 0..n /\ k - 1 \in 0..n /\ s[k] \in Seq(C) /\ g[k - 1] \in Seq(C)
        /\ g[k] = g[k - 1] \o s[k]
    <3>1. k \in 0..n /\ k - 1 \in 0..n
      OBVIOUS
    <3>2. s[k] \in Seq(C) /\ g[k - 1] \in Seq(C)
      BY <3>1
    <3> QED
      BY <1>1, <3>1, <3>2
  <2>2. Agree(cells, g[k - 1] \o s[k]) /\ Len(g[k - 1]) \in Nat /\ Len(g[k]) \in Nat
    BY <1>2, <1>4, <2>1
  <2>3. /\ Len(g[k]) = Len(g[k - 1]) + Len(s[k]) /\ Len(s[k]) \in Nat
        /\ Len(g[k - 1]) <= Len(cells) =>
             /\ Rest(cells, Len(g[k - 1])) \in Seq(C) /\ Agree(Rest(cells, Len(g[k - 1])), s[k])
             /\ Len(g[k]) <= Len(cells) <=> Len(s[k]) <= Len(Rest(cells, Len(g[k - 1])))
             /\ Len(g[k]) <= Len(cells) =>
                  Rest(Rest(cells, Len(g[k - 1])), Len(s[k])) = Rest(cells, Len(g[k]))
    BY <2>1, <2>2, Beyond, LenProperties
  <2>4. CASE Len(g[k - 1]) <= Len(cells)
    <3> DEFINE r == Rest(cells, Len(g[k - 1]))
    <3>1. h[k - 1] = Good(k - 1)
      BY <1>5, <2>1, <2>4
    <3>2. h[k - 1].ok /\ h[k - 1].rest = r /\ h[k - 1].value = Value(k - 1) /\ r \in Seq(C)
      BY <2>3, <2>4, <3>1 DEF Message!Got
    <3>3. reads[r] = Outcome(r, s[k], v[k])
      BY <2>3, <2>4 DEF AllReadBack, ReadsBack
    <3>4. CASE Len(g[k]) <= Len(cells)
      <4>1. reads[r] = Message!Got(v[k], Rest(cells, Len(g[k])))
        BY <2>3, <2>4, <3>3, <3>4 DEF Outcome
      <4>2. Append(Value(k - 1), v[k]) = Value(k)
        <5>1. Value(k) = Value(k - 1) \o <<v[k]>>
          BY <1>3, SubSeqRecursiveSecond
        <5>2. Value(k - 1) \in Seq(V) /\ v[k] \in V
          BY <1>3, SubSeqProperties
        <5> QED
          BY <5>1, <5>2, AppendIsConcat
      <4>3. h[k] = Good(k)
        BY <1>5, <2>1, <3>4
      <4>4. Further(h[k - 1], reads[r]) = Message!Got(Append(Value(k - 1), v[k]), Rest(cells, Len(g[k])))
        <5> HIDE DEF r, Value, Good
        <5> QED
          BY <3>2, <4>1 DEF Further, Message!Got
      <4> QED
        BY <3>2, <4>2, <4>3, <4>4
    <3>5. CASE ~(Len(g[k]) <= Len(cells))
      <4>1. reads[r] = Message!Failed
        BY <2>3, <2>4, <3>3, <3>5 DEF Outcome
      <4>2. h[k] = Message!Failed
        BY <1>5, <2>1, <3>5
      <4>3. ~reads[r].ok
        BY <4>1 DEF Message!Failed
      <4> QED
        BY <3>2, <4>2, <4>3 DEF Further
    <3> QED
      BY <3>4, <3>5
  <2>5. CASE ~(Len(g[k - 1]) <= Len(cells))
    <3>1. h[k - 1] = Message!Failed
      BY <1>5, <2>1, <2>5
    <3>2. h[k] = Message!Failed
      BY <1>3, <1>5, <2>1, <2>2, <2>3, <2>5
    <3>3. ~h[k - 1].ok /\ h[k - 1].rest = <<>>
      BY <3>1 DEF Message!Failed
    <3> QED
      BY <3>2, <3>3, EmptySeq DEF Further
  <2> QED
    BY <2>4, <2>5
<1>10. Reading(h, n, cells, reads, C)
  BY <1>6, <1>7, <1>9 DEF Reading
<1>11. g[n] \in Seq(C)
  OBVIOUS
<1> QED
  BY <1>1, <1>8, <1>10, <1>11 DEF ReadsAll

\* What a cell holds: a number, a character or a byte, or the kind of an element.
Cell == Nat \cup Message!Kinds

\* io.ReadFull returns the piece, or fails when there are fewer cells.
LEMMA TakeReads ==
  ASSUME NEW C, NEW cells \in Seq(C), NEW piece \in Seq(C), Agree(cells, piece)
  PROVE  Message!Take(Len(piece), cells) = Outcome(cells, piece, piece)
<1>1. Len(cells) \in Nat /\ Len(piece) \in Nat
  BY LenProperties
<1>2. CASE Len(piece) <= Len(cells)
  <2> DEFINE t == SubSeq(cells, 1, Len(piece))
  <2>1. \A i \in 1..Len(piece) : cells[i] \in C /\ cells[i] = piece[i]
    BY <1>1, <1>2, ElementOfSeq DEF Agree
  <2>2. /\ t \in Seq(C) /\ Len(t) = Len(piece)
        /\ \A i \in 1..Len(piece) : t[i] = cells[i]
    <3> DEFINE m == Len(piece)
    <3>1. /\ t \in Seq(C) /\ Len(t) = (IF 1 <= m THEN m - 1 + 1 ELSE 0)
          /\ \A i \in 1..(m - 1 + 1) : t[i] = cells[1 + i - 1]
      <4>1. m \in Int /\ \A i \in 1..m : cells[i] \in C
        BY <1>1, <2>1
      <4> HIDE DEF m
      <4> QED
        BY <4>1, SubSeqProperties DEF m
    <3>2. \A i \in 1..m : i \in 1..(m - 1 + 1) /\ 1 + i - 1 = i
      BY <1>1
    <3>3. Len(t) = m
      BY <1>1, <3>1
    <3> QED
      BY <3>1, <3>2, <3>3
  <2>3. t = piece
    <3> HIDE DEF t
    <3> QED
      BY <2>1, <2>2, SeqEqual
  <2>4. ~(Len(cells) < Len(piece))
    BY <1>1, <1>2
  <2> QED
    BY <1>2, <2>3, <2>4 DEF Message!Take, Outcome, Rest
<1>3. CASE ~(Len(piece) <= Len(cells))
  <2>1. Len(cells) < Len(piece)
    BY <1>1, <1>3
  <2> QED
    BY <1>3, <2>1 DEF Message!Take, Outcome
<1> QED
  BY <1>2, <1>3

\* A cell before a piece.
LEMMA HeadThen ==
  ASSUME NEW C, NEW cells \in Seq(C), NEW x \in C, NEW b \in Seq(C), Agree(cells, <<x>> \o b)
  PROVE  /\ <<x>> \o b \in Seq(C)
         /\ cells # <<>> => /\ Head(cells) = x /\ Tail(cells) \in Seq(C)
                            /\ Agree(Tail(cells), b)
         /\ \A value : Outcome(cells, <<x>> \o b, value)
                         = IF cells = <<>> THEN Message!Failed ELSE Outcome(Tail(cells), b, value)
<1> DEFINE a == <<x>>
<1>1. a \in Seq(C) /\ Len(a) = 1 /\ a[1] = x
  OBVIOUS
<1> HIDE DEF a
<1>2. a \o b \in Seq(C) /\ Len(a \o b) = 1 + Len(b) /\ Len(b) \in Nat /\ Len(cells) \in Nat
  <2>1. a \in Seq(C)
    BY <1>1
  <2>2. a \o b \in Seq(C) /\ Len(a \o b) = Len(a) + Len(b)
    BY <2>1, ConcatProperties
  <2>3. Len(b) \in Nat /\ Len(cells) \in Nat
    BY LenProperties
  <2> QED
    BY <1>1, <2>2, <2>3
<1>3. Agree(cells, a \o b)
  BY DEF a
<1>4. /\ Agree(cells, a)
      /\ 1 <= Len(cells) =>
           /\ Rest(cells, 1) \in Seq(C) /\ Agree(Rest(cells, 1), b)
           /\ Len(a \o b) <= Len(cells) <=> Len(b) <= Len(Rest(cells, 1))
           /\ Len(a \o b) <= Len(cells) => Rest(Rest(cells, 1), Len(b)) = Rest(cells, Len(a \o b))
  <2>1. /\ Agree(cells, a)
        /\ Len(a) <= Len(cells) =>
             /\ Rest(cells, Len(a)) \in Seq(C) /\ Agree(Rest(cells, Len(a)), b)
             /\ Len(a \o b) <= Len(cells) <=> Len(b) <= Len(Rest(cells, Len(a)))
             /\ Len(a \o b) <= Len(cells) =>
                  Rest(Rest(cells, Len(a)), Len(b)) = Rest(cells, Len(a \o b))
    <3>1. a \in Seq(C)
      BY <1>1
    <3> QED
      BY <1>3, <3>1, Beyond
  <2>2. Len(a) = 1
    BY <1>1
  <2> QED
    BY ONLY <2>1, <2>2
<1>5. ASSUME cells # <<>>
      PROVE  1 <= Len(cells) /\ Head(cells) = x /\ Tail(cells) = Rest(cells, 1)
  <2>1. Len(cells) \in Nat \ {0}
    BY <1>5, EmptySeq
  <2>2. cells[1] = x
    BY <1>1, <1>4, <2>1 DEF Agree
  <2>3. Tail(cells) = SubSeq(cells, 1 + 1, Len(cells))
    BY <1>5, TailIsSubSeq
  <2>4. Head(cells) = cells[1]
    BY <1>5
  <2> QED
    BY <2>1, <2>2, <2>3, <2>4 DEF Rest
<1>6. ASSUME NEW value
      PROVE  Outcome(cells, a \o b, value)
               = IF cells = <<>> THEN Message!Failed ELSE Outcome(Tail(cells), b, value)
  <2>1. CASE cells = <<>>
    <3>1. ~(Len(a \o b) <= Len(cells))
      BY <1>2, <2>1, EmptySeq
    <3> QED
      BY <2>1, <3>1 DEF Outcome
  <2>2. CASE cells # <<>>
    BY <1>4, <1>5, <2>2 DEF Outcome
  <2> QED
    BY <2>1, <2>2
<1>7. a \o b = <<x>> \o b
  BY DEF a
<1> QED
  BY <1>2, <1>4, <1>5, <1>6, <1>7

\* A size and as many cells (pack.go:209, 265).
LEMMA SizedReads ==
  ASSUME NEW cells \in Seq(Cell), NEW piece \in Seq(Cell), NEW extra \in Nat, NEW limit \in Nat,
         Len(piece) + extra <= limit, Agree(cells, <<Len(piece) + extra>> \o piece)
  PROVE  /\ <<Len(piece) + extra>> \o piece \in Seq(Cell)
         /\ Message!TakeSized(cells, extra, limit)
              = Outcome(cells, <<Len(piece) + extra>> \o piece, piece)
<1> DEFINE x == Len(piece) + extra
<1>1. Len(piece) \in Nat /\ x \in Nat /\ x \in Cell /\ x \in extra..limit /\ x - extra = Len(piece)
  BY LenProperties DEF Cell
<1> HIDE DEF x
<1>2. Agree(cells, <<x>> \o piece)
  BY DEF x
<1>3. /\ <<x>> \o piece \in Seq(Cell)
      /\ cells # <<>> => /\ Head(cells) = x /\ Tail(cells) \in Seq(Cell)
                         /\ Agree(Tail(cells), piece)
      /\ Outcome(cells, <<x>> \o piece, piece)
           = IF cells = <<>> THEN Message!Failed ELSE Outcome(Tail(cells), piece, piece)
  BY <1>1, <1>2, HeadThen
<1>4. cells # <<>> => Message!Take(Len(piece), Tail(cells)) = Outcome(Tail(cells), piece, piece)
  BY <1>3, TakeReads
<1>5. Message!TakeSized(cells, extra, limit) = Outcome(cells, <<x>> \o piece, piece)
  BY <1>1, <1>3, <1>4 DEF Message!TakeSized
<1> QED
  BY <1>3, <1>5 DEF x

LEMMA LimitsTyped ==
  /\ MaxSize \in Nat /\ NameSize \in Nat /\ MaxCalls \in Nat
  /\ \A e \in Elements :
       /\ e \in [name : Seq(Nat), kind : Message!Kinds, values : Seq(Seq(Nat))]
       /\ e.kind \in {"int", "int64"} =>
            \A i \in DOMAIN e.values : Len(e.values[i]) = Message!NumberOfCells(e.kind)
BY MessageAssumption DEF Message!PackAssumption

\* The name of an element (pack.go:201, 209).
LEMMA NameReads ==
  ASSUME NEW cells \in Seq(Cell), NEW name \in Seq(Nat), Len(name) \in 1..(NameSize - 1),
         Agree(cells, Message!writePackString(name))
  PROVE  /\ Message!writePackString(name) \in Seq(Cell)
         /\ Message!readPackString(cells) = Outcome(cells, Message!writePackString(name), name)
<1>1. name \in Seq(Cell) /\ Len(name) + 1 <= NameSize /\ NameSize \in Nat
  BY LimitsTyped, SeqMonotonic DEF Cell
<1>2. Agree(cells, <<Len(name) + 1>> \o name)
  BY DEF Message!writePackString
<1> QED
  BY <1>1, <1>2, SizedReads DEF Message!writePackString, Message!readPackString

\* A value as unmarshalPack gives it back: a text without the NUL at its end.
Given(k, value) == IF k = "string" THEN Message!Trimmed(value) ELSE value

Fits(k, value) ==
  IF k \in {"int", "int64"} THEN Len(value) = Message!NumberOfCells(k)
  ELSE Len(value) + (IF k = "unicode" THEN 1 ELSE 0) <= MaxSize

\* A value of an element (pack.go:224, 257).
LEMMA ValueReads ==
  ASSUME NEW k \in Message!Kinds, NEW value \in Seq(Nat), Fits(k, value)
  PROVE  /\ Message!writePackValue(k, value) \in Seq(Cell)
         /\ Given(k, value) \in Seq(Nat)
         /\ \A cells \in Seq(Cell) : Agree(cells, Message!writePackValue(k, value)) =>
              Message!readPackValue(k, cells)
                = Outcome(cells, Message!writePackValue(k, value), Given(k, value))
<1>1. value \in Seq(Cell) /\ Len(value) \in Nat /\ MaxSize \in Nat
  BY LimitsTyped, LenProperties, SeqMonotonic DEF Cell
<1>2. CASE k \in {"int", "int64"}
  <2>1. Message!writePackValue(k, value) = value /\ Given(k, value) = value
    BY <1>2 DEF Message!writePackValue, Given
  <2>2. ASSUME NEW cells \in Seq(Cell), Agree(cells, value)
        PROVE  Message!readPackValue(k, cells) = Outcome(cells, value, value)
    <3>1. Message!NumberOfCells(k) = Len(value)
      BY <1>2 DEF Fits
    <3>2. Message!readPackValue(k, cells) = Message!Take(Len(value), cells)
      BY <1>2, <3>1 DEF Message!readPackValue
    <3> QED
      BY <1>1, <2>2, <3>2, TakeReads
  <2> QED
    BY <1>1, <2>1, <2>2
<1>3. CASE k \notin {"int", "int64"}
  <2> DEFINE text == IF k = "unicode" THEN Append(value, 0) ELSE value
             piece == <<Len(text) + 0>> \o text
  <2>1. text \in Seq(Cell) /\ Len(text) \in Nat /\ Len(text) + 0 = Len(text) /\ Len(text) + 0 <= MaxSize
    <3>1. /\ Append(value, 0) \in Seq(Cell)
          /\ Len(Append(value, 0)) = Len(value) + 1
      BY <1>1, AppendProperties DEF Cell
    <3> QED
      BY <1>1, <1>3, <3>1 DEF Fits
  <2>2. Given(k, value) = (IF k = "data" THEN text ELSE Message!Trimmed(text)) /\ Given(k, value) \in Seq(Nat)
    <3>1. k \in {"data", "string", "unicode"}
      BY <1>3 DEF Message!Kinds
    <3>2. Message!Trimmed(value) \in Seq(Nat)
      <4>1. CASE value # <<>>
        <5>1. SubSeq(value, 1, Len(value) - 1) \in Seq(Nat)
          <6>1. \A i \in 1..(Len(value) - 1) : value[i] \in Nat
            BY <1>1, ElementOfSeq
          <6> QED
            BY <1>1, <6>1, SubSeqProperties
        <5> QED
          BY <5>1 DEF Message!Trimmed, Message!Front
      <4> QED
        BY <4>1 DEF Message!Trimmed
    <3>3. Message!Trimmed(Append(value, 0)) = value
      <4> DEFINE t == Append(value, 0)
      <4>1. /\ t \in Seq(Nat) /\ t # <<>> /\ Len(t) = Len(value) + 1
            /\ \A i \in 1..Len(value) : t[i] = value[i]
            /\ t[Len(value) + 1] = 0
        BY AppendProperties
      <4> HIDE DEF t
      <4>2. SubSeq(t, 1, Len(value)) = value
        <5> DEFINE u == SubSeq(t, 1, Len(value))
        <5>1. Agree(t, value)
          BY <1>1, <4>1 DEF Agree
        <5>2. Message!Take(Len(value), t) = Outcome(t, value, value)
          BY <4>1, <5>1, TakeReads
        <5>3. Message!Got(u, SubSeq(t, Len(value) + 1, Len(t))) = Message!Got(value, Rest(t, Len(value)))
          BY <1>1, <4>1, <5>2 DEF Message!Take, Outcome
        <5> HIDE DEF u
        <5>4. u = value
          BY <5>3 DEF Message!Got
        <5> QED
          BY <5>4 DEF u
      <4>3. Len(t) - 1 = Len(value)
        BY <1>1, <4>1
      <4> QED
        BY <4>1, <4>2, <4>3 DEF Message!Trimmed, Message!Front, Message!Last, t
    <3> QED
      BY <3>1, <3>2, <3>3 DEF Given
  <2>3. Message!writePackValue(k, value) = piece
    BY <1>3, <2>1 DEF Message!writePackValue, Message!Sized
  <2> HIDE DEF text
  <2>4. ASSUME NEW cells \in Seq(Cell), Agree(cells, piece)
        PROVE  Message!readPackValue(k, cells) = Outcome(cells, piece, Given(k, value))
    <3> DEFINE read == Message!TakeSized(cells, 0, MaxSize)
    <3>1. read = Outcome(cells, piece, text)
      BY <1>1, <2>1, <2>4, SizedReads
    <3>2. Message!readPackValue(k, cells)
            = IF k = "data" \/ ~read.ok THEN read
              ELSE Message!Got(Message!Trimmed(read.value), read.rest)
      BY <1>3 DEF Message!readPackValue
    <3> HIDE DEF read, piece
    <3>3. CASE Len(piece) <= Len(cells)
      <4>1. read = Message!Got(text, Rest(cells, Len(piece)))
        BY <3>1, <3>3 DEF Outcome
      <4>2. read.ok /\ read.value = text /\ read.rest = Rest(cells, Len(piece))
        BY <4>1 DEF Message!Got
      <4> QED
        BY <2>2, <3>2, <3>3, <4>1, <4>2 DEF Outcome
    <3>4. CASE ~(Len(piece) <= Len(cells))
      <4>1. read = Message!Failed /\ ~read.ok
        BY <3>1, <3>4 DEF Outcome, Message!Failed
      <4> QED
        BY <3>2, <3>4, <4>1 DEF Outcome
    <3> QED
      BY <3>3, <3>4
  <2>5. piece \in Seq(Cell)
    <3>1. <<Len(text) + 0>> \in Seq(Cell)
      BY <2>1 DEF Cell
    <3> QED
      BY <2>1, <3>1, ConcatProperties
  <2> QED
    BY <2>2, <2>3, <2>4, <2>5
<1> QED
  BY <1>2, <1>3

\* Two functions that start alike and go on alike end alike.
LEMMA SameAllAlong ==
  ASSUME NEW n \in Nat, NEW f, NEW h, f[0] = h[0],
         \A k \in 1..n : f[k - 1] = h[k - 1] => f[k] = h[k]
  PROVE  f[n] = h[n]
<1> DEFINE P == {k \in 0..n : f[k] = h[k]}
<1>1. 0 \in P
  OBVIOUS
<1>2. \A k \in 1..n : k - 1 \in P => k \in P
  OBVIOUS
<1>3. n \in P
  <2> HIDE DEF P
  <2>1. 0..n \subseteq P
    BY <1>1, <1>2, Upwards
  <2> QED
    BY <2>1
<1> QED
  BY <1>3

\* The values of an element, one after the other (pack.go:185).
LEMMA ValuesRead ==
  ASSUME NEW k \in Message!Kinds, NEW n \in Nat, NEW values \in [1..n -> Seq(Nat)],
         \A i \in 1..n : Fits(k, values[i]), NEW cells \in Seq(Cell),
         Agree(cells, Message!FlattenSeq([i \in 1..n |-> Message!writePackValue(k, values[i])]))
  PROVE  LET w == Message!FlattenSeq([i \in 1..n |-> Message!writePackValue(k, values[i])])
         IN  /\ w \in Seq(Cell)
             /\ Message!readValues(n, k, cells) = Outcome(cells, w, [i \in 1..n |-> Given(k, values[i])])
<1> DEFINE s == [i \in 1..n |-> Message!writePackValue(k, values[i])]
           v == [i \in 1..n |-> Given(k, values[i])]
           reads == [c \in Seq(Cell) |-> Message!readPackValue(k, c)]
           Equation(g) == [j \in 0..n |->
                          IF j = 0 THEN Message!Got(<<>>, cells)
                          ELSE Further(g[j - 1], Message!readPackValue(k, g[j - 1].rest))]
           f == CHOOSE f : f = Equation(f)
<1>1. \A i \in 1..n : /\ s[i] \in Seq(Cell) /\ v[i] \in Seq(Nat)
                      /\ \A c \in Seq(Cell) : Agree(c, s[i]) =>
                           Message!readPackValue(k, c) = Outcome(c, s[i], v[i])
  BY ValueReads
<1>2. s \in [1..n -> Seq(Cell)] /\ v \in [1..n -> Seq(Nat)]
  BY <1>1
<1>3. Message!readValues(n, k, cells) = f[n]
  BY DEF Message!readValues, Message!ReadMany, Further
<1> HIDE DEF s, v
<1>4. AllReadBack(reads, n, s, v, Cell)
  BY <1>1 DEF AllReadBack, ReadsBack
<1>5. \A c \in Seq(Cell) : reads[c] = Message!readPackValue(k, c)
  OBVIOUS
<1> HIDE DEF reads
<1>6. Agree(cells, Message!FlattenSeq(s))
  BY DEF s
<1>7. /\ Message!FlattenSeq(s) \in Seq(Cell)
      /\ ReadsAll(reads, n, cells, Message!FlattenSeq(s), v, Cell)
  BY <1>2, <1>4, <1>6, ManyRead
<1>8. PICK h : Reading(h, n, cells, reads, Cell) /\ h[n] = Outcome(cells, Message!FlattenSeq(s), v)
  BY <1>7 DEF ReadsAll
<1>9. ASSUME NEW j \in 0..n
      PROVE  h[j] = IF j = 0 THEN Message!Got(<<>>, cells)
                    ELSE Further(h[j - 1], Message!readPackValue(k, h[j - 1].rest))
  <2>1. CASE j = 0
    BY <1>8, <2>1 DEF Reading
  <2>2. CASE j # 0
    <3>1. j \in 1..n
      BY <2>2
    <3>2. h[j - 1].rest \in Seq(Cell) /\ h[j] = Further(h[j - 1], reads[h[j - 1].rest])
      BY <1>8, <3>1 DEF Reading
    <3> QED
      BY <1>5, <2>2, <3>2
  <2> QED
    BY <2>1, <2>2
<1>10. h = Equation(h)
  BY <1>8, <1>9 DEF Reading
<1>11. f = Equation(f)
  <2> HIDE DEF Equation
  <2> QED
    BY <1>10
<1> HIDE DEF f
<1>12. f[n] = h[n]
  <2>1. f[0] = h[0]
    BY <1>10, <1>11
  <2>2. ASSUME NEW j \in 1..n, f[j - 1] = h[j - 1] PROVE f[j] = h[j]
    <3>1. f[j] = Further(f[j - 1], Message!readPackValue(k, f[j - 1].rest))
      BY <1>11
    <3>2. h[j] = Further(h[j - 1], Message!readPackValue(k, h[j - 1].rest))
      BY <1>9
    <3> QED
      BY <2>2, <3>1, <3>2
  <2>3. \A j \in 1..n : f[j - 1] = h[j - 1] => f[j] = h[j]
    BY <2>2
  <2> QED
    BY <2>1, <2>3, SameAllAlong
<1> QED
  BY <1>3, <1>7, <1>8, <1>12 DEF s, v

\* A piece after another one is read from what the first leaves.
LEMMA Behind ==
  ASSUME NEW C, NEW cells \in Seq(C), NEW a \in Seq(C), NEW b \in Seq(C), Agree(cells, a \o b)
  PROVE  /\ Agree(cells, a)
         /\ Len(a) <= Len(cells) =>
              /\ Rest(cells, Len(a)) \in Seq(C) /\ Agree(Rest(cells, Len(a)), b)
              /\ \A value : Outcome(cells, a \o b, value) = Outcome(Rest(cells, Len(a)), b, value)
         /\ ~(Len(a) <= Len(cells)) => \A value : Outcome(cells, a \o b, value) = Message!Failed
<1> DEFINE w == a \o b
           r == Rest(cells, Len(a))
<1>1. Len(w) = Len(a) + Len(b) /\ Len(a) \in Nat /\ Len(b) \in Nat /\ Len(cells) \in Nat
  BY ConcatProperties, LenProperties
<1>2. /\ Agree(cells, a)
      /\ Len(a) <= Len(cells) =>
           /\ r \in Seq(C) /\ Agree(r, b)
           /\ Len(w) <= Len(cells) <=> Len(b) <= Len(r)
           /\ Len(w) <= Len(cells) => Rest(r, Len(b)) = Rest(cells, Len(w))
  BY Beyond
<1> HIDE DEF w, r
<1>3. ASSUME NEW value, Len(a) <= Len(cells)
      PROVE  Outcome(cells, w, value) = Outcome(r, b, value)
  BY <1>2, <1>3 DEF Outcome
<1>4. ASSUME NEW value, ~(Len(a) <= Len(cells))
      PROVE  Outcome(cells, w, value) = Message!Failed
  BY <1>1, <1>4 DEF Outcome
<1> QED
  BY <1>2, <1>3, <1>4 DEF w, r

\* An element of the Go types, and one marshal accepts (pack.go:137).
Shaped(e) ==
  /\ e \in [name : Seq(Nat), kind : Message!Kinds, values : Seq(Seq(Nat))]
  /\ e.kind \in {"int", "int64"} =>
       \A i \in DOMAIN e.values : Len(e.values[i]) = Message!NumberOfCells(e.kind)

\* An element (pack.go:141, 170).
LEMMA ElementReads ==
  ASSUME NEW e, Shaped(e), Message!Writable(e)
  PROVE  /\ Message!Written(e) \in Seq(Cell)
         /\ \A cells \in Seq(Cell) : Agree(cells, Message!Written(e)) =>
              Message!readElement(cells) = Outcome(cells, Message!Written(e), Message!AsRead(e))
<1> DEFINE n == Len(e.values)
           k == e.kind
           ws == Message!writePackString(e.name)
           s == [i \in 1..n |-> Message!writePackValue(k, e.values[i])]
           w == Message!FlattenSeq(s)
           v == [i \in 1..n |-> Given(k, e.values[i])]
<1>1. /\ e.name \in Seq(Nat) /\ k \in Message!Kinds /\ e.values \in Seq(Seq(Nat))
      /\ n \in Nat /\ DOMAIN e.values = 1..n /\ e.values \in [1..n -> Seq(Nat)]
      /\ e = [name |-> e.name, kind |-> k, values |-> e.values]
  BY LenProperties DEF Shaped
<1>2. Len(e.name) \in 1..(NameSize - 1) /\ n \in 1..MaxValues
  BY DEF Message!Writable
<1>3. \A i \in 1..n : Fits(k, e.values[i])
  <2> SUFFICES ASSUME NEW i \in 1..n PROVE Fits(k, e.values[i])
    OBVIOUS
  <2>1. CASE k \in {"int", "int64"}
    BY <1>1, <2>1 DEF Shaped, Fits
  <2>2. CASE k \notin {"int", "int64"}
    BY <1>1, <2>2 DEF Message!Writable, Fits
  <2> QED
    BY <2>1, <2>2
<1>4. ws \in Seq(Cell)
  <2>1. <<Len(e.name) + 1>> \in Seq(Cell) /\ e.name \in Seq(Cell)
    <3>1. Len(e.name) \in Nat
      BY <1>1, LenProperties
    <3>2. Len(e.name) + 1 \in Cell
      BY <3>1 DEF Cell
    <3>3. Nat \subseteq Cell
      BY DEF Cell
    <3>4. e.name \in Seq(Cell)
      BY <1>1, <3>3, SeqMonotonic
    <3> QED
      BY <3>2, <3>4
  <2> QED
    BY <2>1, ConcatProperties DEF Message!writePackString
<1>5. \A c \in Seq(Cell) : Agree(c, w) => Message!readValues(n, k, c) = Outcome(c, w, v)
  BY <1>1, <1>3, ValuesRead
<1>6. w \in Seq(Cell)
  <2>1. <<>> \in Seq(Cell) /\ Agree(<<>>, w)
    BY EmptySeq DEF Agree
  <2> QED
    BY <1>1, <1>3, <2>1, ValuesRead
<1>7. Message!AsRead(e) = [name |-> e.name, kind |-> k, values |-> v]
  <2>1. CASE k = "string"
    <3>1. v = [i \in DOMAIN e.values |-> Message!Trimmed(e.values[i])]
      BY <1>1, <2>1 DEF Given
    <3> QED
      BY <1>1, <2>1, <3>1 DEF Message!AsRead
  <2>2. CASE k # "string"
    <3>1. v = e.values
      BY <1>1, <2>2 DEF Given
    <3> QED
      BY <1>1, <2>2, <3>1 DEF Message!AsRead
  <2> QED
    BY <2>1, <2>2
<1> DEFINE u == <<n>> \o w
           t == <<k>> \o u
<1>8. Message!Written(e) = ws \o t
  <2>1. s = [i \in DOMAIN e.values |-> Message!writePackValue(e.kind, e.values[i])]
    BY <1>1
  <2>2. Message!Written(e) = (ws \o <<k, n>>) \o w
    BY <2>1 DEF Message!Written
  <2> HIDE DEF w, ws
  <2>3. /\ <<k>> \in Seq(Cell) /\ <<n>> \in Seq(Cell) /\ <<k, n>> \in Seq(Cell)
        /\ <<k, n>> = <<k>> \o <<n>>
    BY <1>1 DEF Cell
  <2>4. (<<k>> \o <<n>>) \o w = <<k>> \o (<<n>> \o w)
    BY <1>6, <2>3, ConcatAssociative
  <2>5. (ws \o <<k, n>>) \o w = ws \o (<<k, n>> \o w)
    BY <1>4, <1>6, <2>3, ConcatAssociative
  <2> QED
    BY <2>2, <2>3, <2>4, <2>5
<1> HIDE DEF w, ws, v, s
<1>9. n \in Cell /\ k \in Cell /\ u \in Seq(Cell) /\ t \in Seq(Cell)
  <2>1. n \in Cell /\ k \in Cell
    BY <1>1 DEF Cell
  <2>2. <<n>> \in Seq(Cell) /\ <<k>> \in Seq(Cell)
    BY <2>1
  <2>3. u \in Seq(Cell)
    BY <1>6, <2>2, ConcatProperties
  <2> QED
    BY <2>1, <2>2, <2>3, ConcatProperties
<1>10. ASSUME NEW cells \in Seq(Cell), Agree(cells, ws \o t)
       PROVE  Message!readElement(cells) = Outcome(cells, ws \o t, Message!AsRead(e))
  <2> DEFINE name == Message!readPackString(cells)
             r == Rest(cells, Len(ws))
             val == Message!AsRead(e)
  <2> HIDE DEF t, u, n, k
  <2>1. /\ Agree(cells, ws)
        /\ Len(ws) <= Len(cells) =>
             /\ r \in Seq(Cell) /\ Agree(r, t)
             /\ Outcome(cells, ws \o t, val) = Outcome(r, t, val)
        /\ ~(Len(ws) <= Len(cells)) => Outcome(cells, ws \o t, val) = Message!Failed
    BY <1>4, <1>9, <1>10, Behind
  <2>2. name = Outcome(cells, ws, e.name)
    BY <1>1, <1>2, <2>1, NameReads DEF ws
  <2>3. CASE ~(Len(ws) <= Len(cells))
    <3>1. name = Message!Failed /\ ~name.ok
      BY <2>2, <2>3 DEF Outcome, Message!Failed
    <3> QED
      BY <2>1, <2>3, <3>1 DEF Message!readElement
  <2>4. CASE Len(ws) <= Len(cells)
    <3>1. name = Message!Got(e.name, r) /\ name.ok /\ name.value = e.name /\ name.rest = r
      BY <2>2, <2>4 DEF Outcome, Message!Got
    <3> HIDE DEF name, r, val
    <3>2. r \in Seq(Cell) /\ Len(r) \in Nat /\ Agree(r, <<k>> \o u)
      BY <2>1, <2>4, LenProperties DEF t
    <3>3. /\ r # <<>> => Head(r) = k /\ Tail(r) \in Seq(Cell) /\ Agree(Tail(r), <<n>> \o w)
          /\ Outcome(r, t, val) = IF r = <<>> THEN Message!Failed ELSE Outcome(Tail(r), u, val)
      <4>1. /\ r # <<>> => Head(r) = k /\ Tail(r) \in Seq(Cell) /\ Agree(Tail(r), u)
            /\ \A value : Outcome(r, <<k>> \o u, value)
                            = IF r = <<>> THEN Message!Failed ELSE Outcome(Tail(r), u, value)
        BY <1>9, <3>2, HeadThen
      <4> QED
        BY <4>1 DEF t, u
    <3>4. CASE Len(r) < 2
      <4>1. Outcome(r, t, val) = Message!Failed
        <5>1. CASE r = <<>>
          BY <3>3, <5>1
        <5>2. CASE r # <<>>
          <6>1. Tail(r) \in Seq(Cell) /\ Len(Tail(r)) = 0
            BY <3>2, <3>4, <5>2, HeadTailProperties, EmptySeq
          <6>2. Tail(r) = <<>>
            BY <6>1, EmptySeq
          <6>3. Outcome(Tail(r), u, val) = Message!Failed
            <7>1. \A value : Outcome(Tail(r), <<n>> \o w, value)
                    = IF Tail(r) = <<>> THEN Message!Failed ELSE Outcome(Tail(Tail(r)), w, value)
              <8> DEFINE q == Tail(r)
              <8>1. q \in Seq(Cell) /\ Agree(q, <<n>> \o w) /\ n \in Cell /\ w \in Seq(Cell)
                BY <1>6, <1>9, <3>3, <5>2, <6>1
              <8> HIDE DEF q
              <8>2. \A value : Outcome(q, <<n>> \o w, value)
                      = IF q = <<>> THEN Message!Failed ELSE Outcome(Tail(q), w, value)
                BY <8>1, HeadThen
              <8> QED
                BY <8>2 DEF q
            <7> QED
              BY <6>2, <7>1 DEF u
          <6> QED
            BY <3>3, <5>2, <6>3
        <5> QED
          BY <5>1, <5>2
      <4>2. Message!readElement(cells) = Message!Failed
        BY <3>1, <3>4 DEF Message!readElement, name
      <4> QED
        BY <2>1, <2>4, <4>1, <4>2 DEF val
    <3>5. CASE ~(Len(r) < 2)
      <4> DEFINE q == Tail(r)
                 p == Tail(q)
      <4>1. r # <<>> /\ q \in Seq(Cell) /\ Agree(q, <<n>> \o w) /\ r[1] = k /\ r[2] = q[1]
            /\ q # <<>> /\ Outcome(r, t, val) = Outcome(q, u, val)
        <5>1. r # <<>>
          BY <3>2, <3>5, EmptySeq
        <5>2. q \in Seq(Cell) /\ Len(q) = Len(r) - 1 /\ \A i \in 1..Len(q) : q[i] = r[i + 1]
          BY <3>2, <5>1, HeadTailProperties
        <5>3. 1 \in 1..Len(q) /\ q[1] = r[2]
          BY <3>2, <3>5, <5>2
        <5>4. q # <<>>
          BY <5>2, <5>3, EmptySeq
        <5>5. r[1] = k
          BY <3>2, <3>3, <5>1
        <5> QED
          BY <3>3, <5>1, <5>2, <5>3, <5>4, <5>5
      <4> HIDE DEF q
      <4>2. /\ q[1] = n /\ p \in Seq(Cell) /\ Agree(p, w)
            /\ Outcome(q, u, val) = Outcome(p, w, val)
        <5>1. /\ Head(q) = n /\ p \in Seq(Cell) /\ Agree(p, w)
              /\ Outcome(q, u, val) = Outcome(p, w, val)
          BY <1>6, <1>9, <4>1, HeadThen DEF u
        <5>2. Head(q) = q[1]
          BY <4>1
        <5> QED
          BY <5>1, <5>2
      <4> HIDE DEF p
      <4> DEFINE values == Message!readValues(n, k, p)
      <4>3. values = Outcome(p, w, v)
        BY <1>5, <4>2
      <4>4. Message!readElement(cells)
              = IF ~values.ok THEN Message!Failed
                ELSE Message!Got([name |-> e.name, kind |-> k, values |-> values.value], values.rest)
        <5>1. r[2] \in 1..MaxValues
          BY <1>2, <4>1, <4>2
        <5>2. Message!readPackString(cells).ok /\ Message!readPackString(cells).rest = r
              /\ Message!readPackString(cells).value = e.name
          BY <3>1 DEF name
        <5>3. values = Message!readValues(r[2], r[1], Tail(Tail(r)))
          BY <4>1, <4>2 DEF p, q
        <5> HIDE DEF values
        <5> QED
          BY <3>5, <4>1, <5>1, <5>2, <5>3 DEF Message!readElement
      <4> HIDE DEF values
      <4>5. CASE Len(w) <= Len(p)
        <5>1. values.ok /\ values.value = v /\ values.rest = Rest(p, Len(w))
          BY <4>3, <4>5 DEF Outcome, Message!Got
        <5>2. Outcome(p, w, val) = Message!Got(val, Rest(p, Len(w)))
          BY <4>5 DEF Outcome
        <5> QED
          BY <1>7, <2>1, <2>4, <4>1, <4>2, <4>4, <5>1, <5>2 DEF val
      <4>6. CASE ~(Len(w) <= Len(p))
        <5>1. ~values.ok
          BY <4>3, <4>6 DEF Outcome, Message!Failed
        <5>2. Outcome(p, w, val) = Message!Failed
          BY <4>6 DEF Outcome
        <5> QED
          BY <2>1, <2>4, <4>1, <4>2, <4>4, <5>1, <5>2 DEF val
      <4> QED
        BY <4>5, <4>6
    <3> QED
      BY <3>4, <3>5
  <2> QED
    BY <2>3, <2>4
<1>11. ws \o t \in Seq(Cell)
  BY <1>4, <1>9, ConcatProperties
<1> QED
  BY <1>8, <1>10, <1>11

\* What marshal accepts (pack.go:130).
Marshallable(elements) ==
  ~(Len(elements) > MaxElements) /\ \A i \in DOMAIN elements : Message!Writable(elements[i])

\* The elements of a pack, one after the other (pack.go:169).
LEMMA ElementsRead ==
  ASSUME NEW n \in Nat, NEW elements, \A i \in 1..n : Shaped(elements[i]) /\ Message!Writable(elements[i]),
         NEW cells \in Seq(Cell),
         Agree(cells, Message!FlattenSeq([i \in 1..n |-> Message!Written(elements[i])]))
  PROVE  LET w == Message!FlattenSeq([i \in 1..n |-> Message!Written(elements[i])])
         IN  /\ w \in Seq(Cell)
             /\ Message!readElements(n, cells)
                  = Outcome(cells, w, [i \in 1..n |-> Message!AsRead(elements[i])])
<1> DEFINE s == [i \in 1..n |-> Message!Written(elements[i])]
           v == [i \in 1..n |-> Message!AsRead(elements[i])]
           V == {v[i] : i \in 1..n}
           reads == [c \in Seq(Cell) |-> Message!readElement(c)]
           Equation(g) == [j \in 0..n |->
                          IF j = 0 THEN Message!Got(<<>>, cells)
                          ELSE Further(g[j - 1], Message!readElement(g[j - 1].rest))]
           f == CHOOSE f : f = Equation(f)
<1>1. \A i \in 1..n : /\ s[i] \in Seq(Cell)
                      /\ \A c \in Seq(Cell) : Agree(c, s[i]) =>
                           Message!readElement(c) = Outcome(c, s[i], v[i])
  BY ElementReads
<1>2. s \in [1..n -> Seq(Cell)] /\ v \in [1..n -> V]
  BY <1>1
<1>3. Message!readElements(n, cells) = f[n]
  BY DEF Message!readElements, Message!ReadMany, Further
<1> HIDE DEF s, v, V
<1>4. AllReadBack(reads, n, s, v, Cell)
  BY <1>1 DEF AllReadBack, ReadsBack
<1>5. \A c \in Seq(Cell) : reads[c] = Message!readElement(c)
  OBVIOUS
<1> HIDE DEF reads
<1>6. Agree(cells, Message!FlattenSeq(s))
  BY DEF s
<1>7. /\ Message!FlattenSeq(s) \in Seq(Cell)
      /\ ReadsAll(reads, n, cells, Message!FlattenSeq(s), v, Cell)
  BY <1>2, <1>4, <1>6, ManyRead
<1>8. PICK h : Reading(h, n, cells, reads, Cell) /\ h[n] = Outcome(cells, Message!FlattenSeq(s), v)
  BY <1>7 DEF ReadsAll
<1>9. ASSUME NEW j \in 0..n
      PROVE  h[j] = IF j = 0 THEN Message!Got(<<>>, cells)
                    ELSE Further(h[j - 1], Message!readElement(h[j - 1].rest))
  <2>1. CASE j = 0
    BY <1>8, <2>1 DEF Reading
  <2>2. CASE j # 0
    <3>1. j \in 1..n
      BY <2>2
    <3>2. h[j - 1].rest \in Seq(Cell) /\ h[j] = Further(h[j - 1], reads[h[j - 1].rest])
      BY <1>8, <3>1 DEF Reading
    <3> QED
      BY <1>5, <2>2, <3>2
  <2> QED
    BY <2>1, <2>2
<1>10. h = Equation(h)
  BY <1>8, <1>9 DEF Reading
<1>11. f = Equation(f)
  <2> HIDE DEF Equation
  <2> QED
    BY <1>10
<1> HIDE DEF f
<1>12. f[n] = h[n]
  <2>1. f[0] = h[0]
    BY <1>10, <1>11
  <2>2. ASSUME NEW j \in 1..n, f[j - 1] = h[j - 1] PROVE f[j] = h[j]
    <3>1. f[j] = Further(f[j - 1], Message!readElement(f[j - 1].rest))
      BY <1>11
    <3>2. h[j] = Further(h[j - 1], Message!readElement(h[j - 1].rest))
      BY <1>9
    <3> QED
      BY <2>2, <3>1, <3>2
  <2>3. \A j \in 1..n : f[j - 1] = h[j - 1] => f[j] = h[j]
    BY <2>2
  <2> QED
    BY <2>1, <2>3, SameAllAlong
<1> QED
  BY <1>3, <1>7, <1>8, <1>12 DEF s, v

\* What unmarshalPack makes of cells that are what marshal wrote as far as both go: the
\* pack if they are as many, nothing if there are fewer or more (pack.go:160).
LEMMA Unmarshalled ==
  ASSUME NEW elements \in Seq(Elements), Marshallable(elements), NEW cells \in Seq(Cell),
         Agree(cells, Message!marshal(elements))
  PROVE  /\ Message!marshal(elements) \in Seq(Cell)
         /\ Message!unmarshalPack(cells)
              = IF Len(cells) = Len(Message!marshal(elements))
                THEN [i \in 1..Len(elements) |-> Message!AsRead(elements[i])] ELSE Refused
<1> DEFINE n == Len(elements)
           s == [i \in 1..n |-> Message!Written(elements[i])]
           w == Message!FlattenSeq(s)
           v == [i \in 1..n |-> Message!AsRead(elements[i])]
<1>1. /\ n \in Nat /\ n \in Cell /\ DOMAIN elements = 1..n
      /\ \A i \in 1..n : Shaped(elements[i]) /\ Message!Writable(elements[i])
  <2>1. n \in Nat /\ DOMAIN elements = 1..n
    BY LenProperties
  <2>2. \A i \in 1..n : elements[i] \in Elements
    BY ElementOfSeq
  <2> QED
    BY <2>1, <2>2, LimitsTyped DEF Shaped, Marshallable, Cell
<1>2. Message!marshal(elements) = <<n>> \o w
  BY <1>1 DEF Message!marshal, Marshallable
<1>3. ASSUME NEW c \in Seq(Cell), Agree(c, w)
      PROVE  w \in Seq(Cell) /\ Message!readElements(n, c) = Outcome(c, w, v)
  BY <1>1, <1>3, ElementsRead
<1>4. w \in Seq(Cell)
  <2>1. <<>> \in Seq(Cell) /\ Agree(<<>>, w)
    BY EmptySeq DEF Agree
  <2> HIDE DEF w
  <2> QED
    BY <1>3, <2>1
<1> HIDE DEF w, v, s
<1>5. Agree(cells, <<n>> \o w)
  BY <1>2
<1>6. /\ <<n>> \o w \in Seq(Cell)
      /\ cells # <<>> => /\ Head(cells) = n /\ Tail(cells) \in Seq(Cell) /\ Agree(Tail(cells), w)
      /\ \A value : Outcome(cells, <<n>> \o w, value)
                      = IF cells = <<>> THEN Message!Failed ELSE Outcome(Tail(cells), w, value)
  BY <1>1, <1>4, <1>5, HeadThen
<1>7. Len(<<n>> \o w) = 1 + Len(w) /\ Len(w) \in Nat /\ Len(cells) \in Nat
  <2>1. <<n>> \in Seq(Cell) /\ Len(<<n>>) = 1
    BY <1>1
  <2> HIDE DEF n
  <2> QED
    BY <1>4, <2>1, ConcatProperties, LenProperties
<1>8. CASE cells = <<>>
  <2>1. Len(cells) = 0
    BY <1>8
  <2>2. Len(cells) # Len(<<n>> \o w)
    BY <1>7, <2>1
  <2> QED
    BY <1>2, <1>6, <1>8, <2>2 DEF Message!unmarshalPack
<1>9. CASE cells # <<>>
  <2> DEFINE tail == Tail(cells)
             read == Message!readElements(n, tail)
  <2>1. tail \in Seq(Cell) /\ Head(cells) = n /\ Agree(tail, w) /\ Len(tail) = Len(cells) - 1 /\ Len(tail) \in Nat
    BY <1>6, <1>9, HeadTailProperties, LenProperties
  <2> HIDE DEF tail
  <2>2. read = Outcome(tail, w, v)
    BY <1>3, <2>1
  <2> HIDE DEF read
  <2>3. Message!unmarshalPack(cells) = IF read.rest = <<>> THEN read.value ELSE Refused
    BY <1>9, <2>1 DEF Message!unmarshalPack, Marshallable, read, tail
  <2>4. CASE Len(w) <= Len(tail)
    <3>1. read.value = v /\ read.rest = Rest(tail, Len(w))
      BY <2>2, <2>4 DEF Outcome, Message!Got
    <3>2. Rest(tail, Len(w)) \in Seq(Cell) /\ Len(Rest(tail, Len(w))) = Len(tail) - Len(w)
      <4>1. Len(w) \in 0..Len(tail)
        BY <1>7, <2>1, <2>4
      <4> QED
        BY <2>1, <4>1, RestTyped
    <3>3. read.rest = <<>> <=> Len(tail) = Len(w)
      <4>1. read.rest = <<>> <=> Len(read.rest) = 0
        BY <3>1, <3>2, EmptySeq
      <4> QED
        BY <1>7, <2>1, <3>1, <3>2, <4>1
    <3>4. Len(tail) = Len(w) <=> Len(cells) = Len(<<n>> \o w)
      BY <1>7, <2>1
    <3>5. Message!unmarshalPack(cells) = IF Len(cells) = Len(Message!marshal(elements)) THEN v ELSE Refused
      BY <1>2, <2>3, <3>1, <3>3, <3>4
    <3> QED
      BY <1>2, <1>6, <3>5 DEF v
  <2>5. CASE ~(Len(w) <= Len(tail))
    <3>1. read.value = Refused
      BY <2>2, <2>5 DEF Outcome, Message!Failed
    <3>2. Len(cells) # Len(<<n>> \o w)
      BY <1>7, <2>1, <2>5
    <3> QED
      BY <1>2, <1>6, <2>3, <3>1, <3>2
  <2> QED
    BY <2>4, <2>5
<1> QED
  BY <1>8, <1>9

\* Whatever the pack and the limits, unmarshalPack returns what marshal wrote, a text
\* without the NUL at its end, and refuses every message that is cut short or runs on
\* (pack.go:130, 160, 195).
THEOREM PackComesBack ==
  ASSUME NEW elements \in Seq(Elements), Marshallable(elements)
  PROVE  LET m == Message!marshal(elements)
         IN  /\ Message!unmarshalPack(m) = [i \in 1..Len(elements) |-> Message!AsRead(elements[i])]
             /\ \A n \in 0..(Len(m) - 1) : Message!unmarshalPack(SubSeq(m, 1, n)) = Refused
             /\ Message!unmarshalPack(Append(m, 0)) = Refused
<1> DEFINE m == Message!marshal(elements)
<1>1. m \in Seq(Cell)
  <2>1. <<>> \in Seq(Cell) /\ Agree(<<>>, m)
    BY EmptySeq DEF Agree
  <2> QED
    BY <2>1, Unmarshalled
<1> HIDE DEF m
<1>2. Len(m) \in Nat
  BY <1>1, LenProperties
<1>3. ASSUME NEW cells \in Seq(Cell), Agree(cells, m)
      PROVE  Message!unmarshalPack(cells)
               = IF Len(cells) = Len(m)
                 THEN [i \in 1..Len(elements) |-> Message!AsRead(elements[i])] ELSE Refused
  BY <1>3, Unmarshalled DEF m
<1>4. Agree(m, m)
  BY DEF Agree
<1>5. ASSUME NEW n \in 0..(Len(m) - 1)
      PROVE  Message!unmarshalPack(SubSeq(m, 1, n)) = Refused
  <2> DEFINE c == SubSeq(m, 1, n)
  <2>1. n \in Nat /\ n < Len(m) /\ \A i \in 1..n : m[i] \in Cell
    BY <1>1, <1>2, ElementOfSeq
  <2>2. /\ c \in Seq(Cell) /\ Len(c) = (IF 1 <= n THEN n - 1 + 1 ELSE 0)
        /\ \A i \in 1..(n - 1 + 1) : c[i] = m[1 + i - 1]
    BY <2>1, SubSeqProperties
  <2> HIDE DEF c
  <2>3. Len(c) = n
    BY <2>1, <2>2
  <2>4. Agree(c, m)
    <3> SUFFICES ASSUME NEW i \in 1..Len(c) PROVE c[i] = m[i]
      BY DEF Agree
    <3>1. i \in 1..(n - 1 + 1) /\ 1 + i - 1 = i
      BY <2>1, <2>3
    <3> QED
      BY <2>2, <3>1
  <2>5. Len(c) # Len(m)
    BY <1>2, <2>1, <2>3
  <2>6. Message!unmarshalPack(c) = Refused
    BY <1>3, <2>2, <2>4, <2>5
  <2> QED
    BY <2>6 DEF c
<1>6. Message!unmarshalPack(Append(m, 0)) = Refused
  <2> DEFINE c == Append(m, 0)
  <2>1. 0 \in Cell
    BY DEF Cell
  <2>2. c \in Seq(Cell) /\ Len(c) = Len(m) + 1 /\ \A i \in 1..Len(m) : c[i] = m[i]
    BY <1>1, <2>1, AppendProperties
  <2> HIDE DEF c
  <2>3. Agree(c, m)
    BY <1>2, <2>2 DEF Agree
  <2>4. Len(c) # Len(m)
    BY <1>2, <2>2
  <2>5. Message!unmarshalPack(c) = Refused
    BY <1>3, <2>2, <2>3, <2>4
  <2> QED
    BY <2>5 DEF c
<1>7. Message!unmarshalPack(m) = [i \in 1..Len(elements) |-> Message!AsRead(elements[i])]
  BY <1>1, <1>3, <1>4
<1> QED
  BY <1>5, <1>6, <1>7 DEF m

-----------------------------------------------------------------------------
(* The message from its first element to its reader                        *)
LEMMA MessageStarts == Message!Init => Message!TypeOK
<1> SUFFICES ASSUME Message!Init PROVE Message!TypeOK
  OBVIOUS
<1>1. <<>> \in Seq(Elements) /\ Len(<<>>) = 0
  BY EmptySeq
<1>2. 0 <= MaxCalls
  BY MessageAssumption DEF Message!PackAssumption
<1> QED
  BY <1>1, <1>2 DEF Message!Init, Message!TypeOK

LEMMA MessageTyped ==
  ASSUME Message!TypeOK, Message!Next
  PROVE  Message!TypeOK'
<1>1. MaxCalls \in Nat
  BY MessageAssumption DEF Message!PackAssumption
<1>2. ASSUME NEW element \in Elements, Message!addElement(element)
      PROVE  Message!TypeOK'
  <2>1. /\ added' = Append(added, element) /\ Len(added) < MaxCalls
        /\ pack' \in {pack, Append(pack, element)}
        /\ UNCHANGED <<wire, received, whole>>
    BY <1>2 DEF Message!addElement
  <2>2. added \in Seq(Elements) /\ pack \in Seq(Elements) /\ whole \in BOOLEAN
        /\ (wire = None => received = None) /\ Len(added) <= MaxCalls
    BY DEF Message!TypeOK
  <2>3. added' \in Seq(Elements) /\ Len(added') <= MaxCalls
    BY <1>1, <2>1, <2>2, ChannelTyped
  <2>4. pack' \in Seq(Elements)
    <3>1. Append(pack, element) \in Seq(Elements)
      BY <2>2, AppendProperties
    <3> QED
      BY ONLY <2>1, <2>2, <3>1
  <2> QED
    BY <2>1, <2>2, <2>3, <2>4 DEF Message!TypeOK
<1>3. CASE Message!Write
  BY <1>3 DEF Message!Write, Message!TypeOK
<1>4. CASE Message!Read
  <2>1. UNCHANGED <<added, pack, wire>> /\ wire # None /\ whole' \in {whole, FALSE}
    BY <1>4 DEF Message!Read
  <2> QED
    BY <2>1 DEF Message!TypeOK
<1> QED
  BY <1>2, <1>3, <1>4 DEF Message!Next

Folded(e) == Lower(e.name)

\* The first call for its name is in the pack, what is in the pack is the first call for
\* its name, and no two names in it differ in case only (pack.go:71).
First(calls, a) == \A b \in DOMAIN calls : b < a => Folded(calls[b]) # Folded(calls[a])
FirstsKept ==
  /\ \A a \in DOMAIN added : First(added, a) => \E i \in DOMAIN pack : pack[i] = added[a]
  /\ \A i \in DOMAIN pack : \E a \in DOMAIN added : pack[i] = added[a]
  /\ \A i, j \in DOMAIN pack : Folded(pack[i]) = Folded(pack[j]) => i = j

\* What is on the wire is the pack.
WireHoldsPack ==
  wire \notin {None, Refused} => wire = Message!marshal(pack) /\ Marshallable(pack)

MessageInv ==
  /\ Message!TypeOK /\ FirstsKept /\ WireHoldsPack /\ PackSurvives
  /\ received = None => whole

LEMMA LeastExists ==
  ASSUME NEW n \in Nat, NEW S \in SUBSET (1..n), S # {}
  PROVE  Message!Min(S) \in S /\ \A y \in S : Message!Min(S) <= y
<1> DEFINE P == {k \in 0..n : \A y \in S : k < y}
<1>1. PICK z \in S : TRUE
  OBVIOUS
<1>2. 0 \in P
  OBVIOUS
<1>3. ~(\A k \in 1..n : k - 1 \in P => k \in P)
  <2>1. n \notin P
    BY <1>1
  <2> HIDE DEF P
  <2> SUFFICES ASSUME \A k \in 1..n : k - 1 \in P => k \in P PROVE FALSE
    OBVIOUS
  <2>2. 0..n \subseteq P
    BY <1>2, Upwards
  <2> QED
    BY <2>1, <2>2
<1>4. PICK k \in 1..n : k - 1 \in P /\ k \notin P
  BY <1>3
<1>5. k \in S /\ \A y \in S : k <= y
  BY <1>4
<1> QED
  BY <1>5 DEF Message!Min

\* addElement keeps the first of two names that differ in case only.
LEMMA FirstsStay ==
  ASSUME Message!TypeOK, FirstsKept, NEW element \in Elements, Message!addElement(element)
  PROVE  FirstsKept'
<1> DEFINE n == Len(added)
           m == Len(pack)
<1>1. /\ added \in Seq(Elements) /\ pack \in Seq(Elements) /\ n \in Nat /\ m \in Nat
      /\ DOMAIN added = 1..n /\ DOMAIN pack = 1..m
  BY LenProperties DEF Message!TypeOK
<1>2. /\ added' \in Seq(Elements) /\ DOMAIN added' = 1..(n + 1)
      /\ \A a \in 1..n : added'[a] = added[a]
      /\ added'[n + 1] = element
  <2>1. added' = Append(added, element)
    BY DEF Message!addElement
  <2>2. /\ added' \in Seq(Elements) /\ Len(added') = n + 1
        /\ \A a \in 1..n : added'[a] = added[a]
        /\ added'[n + 1] = element
    BY <1>1, <2>1, AppendProperties
  <2> QED
    BY <2>2, LenProperties
<1> HIDE DEF n, m
<1>3. ASSUME NEW a \in 1..n PROVE First(added', a) <=> First(added, a)
  BY <1>1, <1>2, <1>3 DEF First, Folded
<1>4. First(added', n + 1) <=> \A a \in 1..n : Folded(added[a]) # Folded(element)
  BY <1>1, <1>2 DEF First, Folded
<1>5. CASE \E i \in DOMAIN pack : Lower(pack[i].name) = Lower(element.name)
  <2>1. pack' = pack
    BY <1>5 DEF Message!addElement
  <2>2. PICK i \in 1..m : Folded(pack[i]) = Folded(element)
    BY <1>1, <1>5 DEF Folded
  <2>3. PICK a \in 1..n : pack[i] = added[a]
    BY <1>1 DEF FirstsKept
  <2>4. ~First(added', n + 1)
    BY <1>4, <2>2, <2>3
  <2>5. ASSUME NEW c \in 1..(n + 1), First(added', c) PROVE \E j \in 1..m : pack'[j] = added'[c]
    <3>1. c \in 1..n
      BY <1>1, <2>4, <2>5
    <3>2. First(added, c)
      BY <1>3, <2>5, <3>1
    <3>3. \E j \in 1..m : pack[j] = added[c]
      BY <1>1, <3>1, <3>2 DEF FirstsKept
    <3> QED
      BY <1>2, <2>1, <3>1, <3>3
  <2>6. ASSUME NEW j \in 1..m PROVE \E c \in 1..(n + 1) : pack'[j] = added'[c]
    <3>1. PICK c \in 1..n : pack[j] = added[c]
      BY <1>1 DEF FirstsKept
    <3>2. c \in 1..(n + 1)
      BY <1>1
    <3> QED
      BY <1>2, <2>1, <3>1, <3>2
  <2>7. \A j, k \in 1..m : Folded(pack'[j]) = Folded(pack'[k]) => j = k
    BY <1>1, <2>1 DEF FirstsKept
  <2>8. DOMAIN pack' = 1..m
    BY <1>1, <2>1
  <2> QED
    BY <1>2, <2>5, <2>6, <2>7, <2>8 DEF FirstsKept, Folded
<1>6. CASE ~\E i \in DOMAIN pack : Lower(pack[i].name) = Lower(element.name)
  <2>1. \A i \in 1..m : Folded(pack[i]) # Folded(element)
    BY <1>1, <1>6 DEF Folded
  <2>2. /\ DOMAIN pack' = 1..(m + 1) /\ \A i \in 1..m : pack'[i] = pack[i]
        /\ pack'[m + 1] = element
    <3>1. pack' = Append(pack, element)
      BY <1>6 DEF Message!addElement
    <3>2. /\ pack' \in Seq(Elements) /\ Len(pack') = m + 1
          /\ \A i \in 1..m : pack'[i] = pack[i]
          /\ pack'[m + 1] = element
      BY <1>1, <3>1, AppendProperties DEF m
    <3> QED
      BY <3>2, LenProperties
  <2>3. ASSUME NEW c \in 1..(n + 1), First(added', c) PROVE \E j \in 1..(m + 1) : pack'[j] = added'[c]
    <3>1. CASE c = n + 1
      <4>1. m + 1 \in 1..(m + 1)
        BY <1>1
      <4> QED
        BY <1>2, <2>2, <3>1, <4>1
    <3>2. CASE c # n + 1
      <4>1. c \in 1..n
        BY <1>1, <3>2
      <4>2. PICK j \in 1..m : pack[j] = added[c]
        BY <1>1, <1>3, <2>3, <4>1 DEF FirstsKept
      <4>3. j \in 1..(m + 1)
        BY <1>1
      <4> QED
        BY <1>2, <2>2, <4>1, <4>2, <4>3
    <3> QED
      BY <3>1, <3>2
  <2>4. ASSUME NEW j \in 1..(m + 1) PROVE \E c \in 1..(n + 1) : pack'[j] = added'[c]
    <3>1. CASE j = m + 1
      <4>1. n + 1 \in 1..(n + 1)
        BY <1>1
      <4> QED
        BY <1>2, <2>2, <3>1, <4>1
    <3>2. CASE j # m + 1
      <4>1. j \in 1..m
        BY <1>1, <3>2
      <4>2. PICK c \in 1..n : pack[j] = added[c]
        BY <1>1, <4>1 DEF FirstsKept
      <4>3. c \in 1..(n + 1)
        BY <1>1
      <4> QED
        BY <1>2, <2>2, <4>1, <4>2, <4>3
    <3> QED
      BY <3>1, <3>2
  <2>5. ASSUME NEW j \in 1..(m + 1), NEW k \in 1..(m + 1), Folded(pack'[j]) = Folded(pack'[k])
        PROVE  j = k
    <3>1. \A i \in 1..(m + 1) : i = m + 1 \/ i \in 1..m
      BY <1>1
    <3>2. CASE j = m + 1 /\ k # m + 1
      BY <2>1, <2>2, <2>5, <3>1, <3>2
    <3>3. CASE j # m + 1 /\ k = m + 1
      BY <2>1, <2>2, <2>5, <3>1, <3>3
    <3>4. CASE j # m + 1 /\ k # m + 1
      BY <1>1, <2>2, <2>5, <3>1, <3>4 DEF FirstsKept
    <3> QED
      BY <3>2, <3>3, <3>4
  <2> QED
    BY <1>2, <2>2, <2>3, <2>4, <2>5 DEF FirstsKept, Folded
<1> QED
  BY <1>5, <1>6

\* What the getters find in a pack that came back is what was added first.
LEMMA FirstsFound ==
  ASSUME Message!TypeOK, FirstsKept, NEW got,
         got = [i \in 1..Len(pack) |-> Message!AsRead(pack[i])], NEW name, NEW k
  PROVE  LET calls == {a \in DOMAIN added : Lower(added[a].name) = Lower(name)}
             first == added[Message!Min(calls)]
         IN  Message!Values(got, name, k)
               = IF calls = {} \/ first.kind # k THEN <<>> ELSE Message!AsRead(first).values
<1> DEFINE n == Len(added)
           m == Len(pack)
           calls == {a \in DOMAIN added : Lower(added[a].name) = Lower(name)}
           found == {i \in DOMAIN got : got[i].kind = k /\ Lower(got[i].name) = Lower(name)}
           a == Message!Min(calls)
<1>1. /\ n \in Nat /\ m \in Nat /\ DOMAIN added = 1..n /\ DOMAIN pack = 1..m
      /\ \A i \in 1..m : pack[i] \in Elements
  BY LenProperties, ElementOfSeq DEF Message!TypeOK
<1>2. DOMAIN got = 1..m /\ \A i \in 1..m : got[i] = Message!AsRead(pack[i])
  OBVIOUS
<1>3. \A i \in 1..m : got[i].kind = pack[i].kind /\ got[i].name = pack[i].name
  <2> SUFFICES ASSUME NEW i \in 1..m
               PROVE  got[i].kind = pack[i].kind /\ got[i].name = pack[i].name
    OBVIOUS
  <2>1. got[i] = Message!AsRead(pack[i])
        /\ pack[i] \in [name : Seq(Nat), kind : Message!Kinds, values : Seq(Seq(Nat))]
    BY <1>1, <1>2, LimitsTyped
  <2> QED
    BY <2>1 DEF Message!AsRead
<1>4. Message!Values(got, name, k) = IF found = {} THEN <<>> ELSE got[Message!Min(found)].values
  BY DEF Message!Values
<1>5. found = {i \in 1..m : pack[i].kind = k /\ Folded(pack[i]) = Lower(name)}
  BY <1>2, <1>3 DEF Folded
<1>6. calls = {c \in 1..n : Folded(added[c]) = Lower(name)}
  BY <1>1 DEF Folded
<1> HIDE DEF n, m, calls, found
<1>7. CASE calls = {}
  <2>1. ASSUME NEW i \in found PROVE FALSE
    <3>1. i \in 1..m /\ Folded(pack[i]) = Lower(name)
      BY <1>5
    <3>2. PICK c \in 1..n : pack[i] = added[c]
      BY <1>1, <3>1 DEF FirstsKept
    <3> QED
      BY <1>6, <1>7, <3>1, <3>2
  <2> QED
    BY <1>4, <1>7, <2>1 DEF calls
<1>8. CASE calls # {}
  <2>1. a \in calls /\ \A c \in calls : a <= c
    <3>1. calls \in SUBSET (1..n)
      BY <1>6
    <3> QED
      BY <1>1, <1>8, <3>1, LeastExists
  <2> HIDE DEF a
  <2>2. a \in 1..n /\ Folded(added[a]) = Lower(name)
    BY <1>6, <2>1
  <2>3. First(added, a)
    <3> SUFFICES ASSUME NEW b \in 1..n, b < a, Folded(added[b]) = Folded(added[a]) PROVE FALSE
      BY <1>1 DEF First
    <3>1. b \in calls
      BY <1>6, <2>2
    <3> QED
      BY <1>1, <2>1, <2>2, <3>1
  <2>4. PICK i \in 1..m : pack[i] = added[a]
    BY <1>1, <2>2, <2>3 DEF FirstsKept
  <2>5. ASSUME NEW j \in found PROVE j = i
    <3>1. j \in 1..m /\ Folded(pack[j]) = Lower(name)
      BY <1>5
    <3> QED
      BY <1>1, <2>2, <2>4, <3>1 DEF FirstsKept
  <2>6. CASE added[a].kind = k
    <3>1. found = {i}
      BY <1>5, <2>2, <2>4, <2>5, <2>6
    <3>2. Message!Min(found) = i
      <4>1. found \in SUBSET (1..m)
        BY <1>5
      <4>2. Message!Min(found) \in found
        BY <1>1, <3>1, <4>1, LeastExists
      <4> QED
        BY <3>1, <4>2
    <3>3. Message!Values(got, name, k) = Message!AsRead(added[a]).values
      BY <1>2, <1>4, <2>4, <3>1, <3>2
    <3> QED
      BY <1>8, <2>6, <3>3 DEF calls, a
  <2>7. CASE added[a].kind # k
    <3>1. found = {}
      <4> SUFFICES ASSUME NEW j \in found PROVE FALSE
        OBVIOUS
      <4>1. pack[j].kind = k /\ j = i
        BY <1>5, <2>5
      <4> QED
        BY <2>4, <2>7, <4>1
    <3> QED
      BY <1>4, <1>8, <2>7, <3>1 DEF calls, a
  <2> QED
    BY <2>6, <2>7
<1> QED
  BY <1>7, <1>8

LEMMA MessageInvStarts == Message!Init => MessageInv
<1> SUFFICES ASSUME Message!Init PROVE MessageInv
  OBVIOUS
<1>1. Message!TypeOK
  BY MessageStarts
<1>2. FirstsKept
  BY DEF Message!Init, FirstsKept
<1>3. WireHoldsPack /\ PackSurvives /\ (received = None => whole)
  BY DEF Message!Init, WireHoldsPack, PackSurvives, Message!PackSurvives
<1> QED
  BY <1>1, <1>2, <1>3 DEF MessageInv

LEMMA MessageKept ==
  ASSUME MessageInv, Message!Next
  PROVE  MessageInv'
<1>1. /\ Message!TypeOK /\ FirstsKept /\ WireHoldsPack /\ PackSurvives
      /\ (received = None => whole)
  BY DEF MessageInv
<1>2. Message!TypeOK'
  BY <1>1, MessageTyped
<1>3. ASSUME NEW element \in Elements, Message!addElement(element)
      PROVE  MessageInv'
  <2>1. FirstsKept'
    BY <1>1, <1>3, FirstsStay
  <2>2. wire = None /\ UNCHANGED <<wire, received, whole>>
    BY <1>3 DEF Message!addElement
  <2>3. received' = None /\ wire' = None
    BY <1>1, <2>2 DEF Message!TypeOK
  <2>4. WireHoldsPack'
    BY <2>3 DEF WireHoldsPack
  <2>5. PackSurvives'
    BY <2>3 DEF PackSurvives, Message!PackSurvives
  <2> QED
    BY <1>1, <1>2, <2>1, <2>2, <2>4, <2>5 DEF MessageInv
<1>4. CASE Message!Write
  <2>1. wire = None /\ wire' = Message!marshal(pack) /\ UNCHANGED <<added, pack, received, whole>>
    BY <1>4 DEF Message!Write
  <2>2. received' = None
    BY <1>1, <2>1 DEF Message!TypeOK
  <2>3. WireHoldsPack'
    BY <2>1 DEF WireHoldsPack, Message!marshal, Marshallable
  <2>4. FirstsKept'
    BY <1>1, <2>1 DEF FirstsKept, First
  <2>5. PackSurvives'
    BY <2>2 DEF PackSurvives, Message!PackSurvives
  <2> QED
    BY <1>1, <1>2, <2>1, <2>3, <2>4, <2>5 DEF MessageInv
<1>5. CASE Message!Read
  <2>1. wire \notin {None, Refused} /\ received = None /\ UNCHANGED <<added, pack, wire>>
    BY <1>5 DEF Message!Read
  <2>2. whole /\ wire = Message!marshal(pack) /\ Marshallable(pack) /\ pack \in Seq(Elements)
    BY <1>1, <2>1 DEF WireHoldsPack, Message!TypeOK
  <2>3. /\ Message!unmarshalPack(wire) = [i \in 1..Len(pack) |-> Message!AsRead(pack[i])]
        /\ \A n \in 0..(Len(wire) - 1) : Message!unmarshalPack(SubSeq(wire, 1, n)) = Refused
        /\ Message!unmarshalPack(Append(wire, 0)) = Refused
    BY <2>2, PackComesBack
  <2>4. \/ received' = [i \in 1..Len(pack) |-> Message!AsRead(pack[i])] /\ whole' = whole
        \/ received' = Refused /\ whole' = FALSE
    BY <1>5, <2>3 DEF Message!Read
  <2>5. FirstsKept' /\ WireHoldsPack'
    BY <1>1, <2>1 DEF FirstsKept, First, WireHoldsPack
  <2>6. CASE received' = [i \in 1..Len(pack) |-> Message!AsRead(pack[i])] /\ whole' = whole
    <3>1. ASSUME NEW name, NEW k
          PROVE  LET calls == {a \in DOMAIN added : Lower(added[a].name) = Lower(name)}
                     first == added[Message!Min(calls)]
                 IN  Message!Values(received', name, k)
                       = IF calls = {} \/ first.kind # k THEN <<>> ELSE Message!AsRead(first).values
      BY <1>1, <2>6, FirstsFound
    <3>2. PackSurvives'
      BY <2>1, <2>2, <2>6, <3>1 DEF PackSurvives, Message!PackSurvives
    <3> QED
      BY <1>2, <2>2, <2>5, <2>6, <3>2 DEF MessageInv
  <2>7. CASE received' = Refused /\ whole' = FALSE
    <3>1. PackSurvives'
      BY <2>7 DEF PackSurvives, Message!PackSurvives
    <3>2. received' # None
      BY <2>7, MessageAssumption DEF Message!PackAssumption
    <3> QED
      BY <1>2, <2>5, <3>1, <3>2 DEF MessageInv
  <2> QED
    BY <2>4, <2>6, <2>7
<1> QED
  BY <1>3, <1>4, <1>5 DEF Message!Next

\* In every run the reader finds under a name what the first call for that name, in
\* whatever case, put there, for elements and limits of any size; a message that is cut
\* short or runs on is refused (pack.go:69, 127, 155).
THEOREM MessagesSurvive == MCSpec => []PackSurvives
<1>1. MCInit => MessageInv
  BY MessageInvStarts DEF MCInit
<1>2. MessageInv /\ [MCNext]_<<part, vars, packVars, accessVars>> => MessageInv'
  <2> SUFFICES ASSUME MessageInv, [MCNext]_<<part, vars, packVars, accessVars>>
               PROVE  MessageInv'
    OBVIOUS
  <2>1. Message!Next \/ UNCHANGED packVars
    BY DEF MCNext
  <2>2. CASE UNCHANGED packVars
    <3>1. UNCHANGED <<added, pack, wire, received, whole>>
      BY <2>2 DEF packVars
    <3>2. Message!TypeOK' /\ FirstsKept' /\ WireHoldsPack' /\ (received' = None => whole')
      BY <3>1 DEF MessageInv, Message!TypeOK, FirstsKept, First, WireHoldsPack
    <3>3. PackSurvives'
      <4>1. received' = received /\ added' = added /\ whole' = whole /\ PackSurvives
        BY <3>1 DEF MessageInv
      <4> QED
        BY ONLY <4>1 DEF PackSurvives, Message!PackSurvives
    <3> QED
      BY <3>2, <3>3 DEF MessageInv
  <2> QED
    BY <2>1, <2>2, MessageKept
<1>3. MessageInv => PackSurvives
  BY DEF MessageInv
<1> QED
  BY <1>1, <1>2, <1>3, PTL DEF MCSpec

-----------------------------------------------------------------------------
(* The link and the message together                                       *)
\* Every variable of the link and of the message has its type in every run: the channels
\* of the loops never hold more than their room (protocol.go:123), a reason is set exactly
\* when an end has come (protocol.go:571), and nothing is received before it is written.
THEOREM EndingsTyped == MCSpec => []AllTyped
<1> DEFINE Both == LinkInv /\ Message!TypeOK
<1>1. MCInit => Both
  BY LinkStarts, MessageStarts DEF MCInit
<1>2. Both /\ [MCNext]_<<part, vars, packVars, accessVars>> => Both'
  <2> SUFFICES ASSUME Both, [MCNext]_<<part, vars, packVars, accessVars>>
               PROVE  Both'
    OBVIOUS
  <2>1. [Next]_vars /\ (Message!Next \/ UNCHANGED packVars)
    BY DEF MCNext
  <2>2. LinkInv'
    BY <2>1, LinkStep
  <2>3. Message!TypeOK'
    <3>1. CASE UNCHANGED packVars
      BY <3>1 DEF packVars, Message!TypeOK
    <3> QED
      BY <2>1, <3>1, MessageTyped
  <2> QED
    BY <2>2, <2>3
<1>3. Both => AllTyped
  BY DEF AllTyped, LinkInv
<1> QED
  BY <1>1, <1>2, <1>3, PTL DEF MCSpec
=============================================================================
