--------------------------- MODULE McpServerProofs ---------------------------
(***************************************************************************)
(* Theorems about the MCP server: McpController and McpLifetime, each as   *)
(* long as it likes, with any number of calls, windows, programs, ports.   *)
(***************************************************************************)
EXTENDS McpServerMC, TLAPS

USE DEF Places, Stopping, store, engine, history

-----------------------------------------------------------------------------
(* What a call has in hand, and where calls and administrators can be.     *)

CallPlaces == {"idle", "limit", "open", "record", "close"}
AdminPlaces == Stopping \cup {"idle", "starting", "renewed"}

PlacesInv ==
  /\ \A c \in Calls : pc[c] \in CallPlaces
  /\ \A a \in Admins : pc[a] \in AdminPlaces

\* A call that is not over is about a resource, and one that closes, about a terminal.
HandFilled ==
  \A c \in Calls : /\ pc[c] # "idle" => hand[c] \in Ids
                   /\ pc[c] = "close" => hand[c] \in Sessions

\* What a call is about to open is known to it alone.
HandIsFresh ==
  \A c \in Calls : pc[c] \in {"limit", "open"} =>
    /\ hand[c] \notin owned \cup live \cup ended
    /\ \A d \in Calls \ {c} : hand[d] # hand[c]

TypeInv == TypeOK /\ PlacesInv /\ HandFilled /\ HandIsFresh

LEMMA CallReturnsTyped ==
  ASSUME ControllerAssumption, TypeInv, NEW c \in Calls, CallReturns(c)
  PROVE  /\ pc' \in [Calls \cup Admins -> Places]
         /\ hand' \in [Calls -> Ids \cup {None}]
         /\ serves' \in [Calls \cup Admins -> 0 .. MaxServers]
         /\ PlacesInv' /\ HandFilled'
BY DEF ControllerAssumption, TypeInv, TypeOK, PlacesInv, CallPlaces, AdminPlaces, HandFilled,
       CallReturns, Goto

LEMMA CallStepTyped ==
  ASSUME ControllerAssumption, TypeInv, NEW c \in Calls,
         CallStep(c) \/ \E id \in Ids : BeginOpen(c, id) \/ BeginClose(c, id)
  PROVE  TypeInv'
<1> USE DEF TypeInv
<1>1. ASSUME NEW id \in Ids, BeginOpen(c, id) PROVE TypeInv'
  <2> USE <1>1 DEF BeginOpen, Goto
  <2>1. TypeOK'
    BY DEF TypeOK
  <2>2. PlacesInv' /\ HandFilled'
    BY DEF TypeOK, PlacesInv, CallPlaces, AdminPlaces, HandFilled, ControllerAssumption
  <2>3. HandIsFresh'
    BY DEF TypeOK, HandIsFresh, Fresh
  <2> QED
    BY <2>1, <2>2, <2>3
<1>2. ASSUME NEW id \in Ids, BeginClose(c, id) PROVE TypeInv'
  <2> USE <1>2 DEF BeginClose, Goto
  <2>1. TypeOK'
    BY DEF TypeOK
  <2>2. PlacesInv' /\ HandFilled'
    BY DEF TypeOK, PlacesInv, CallPlaces, AdminPlaces, HandFilled, ControllerAssumption
  <2>3. HandIsFresh'
    BY DEF TypeOK, HandIsFresh
  <2> QED
    BY <2>1, <2>2, <2>3
<1>3. CASE CheckLimit(c)
  <2>1. CASE CallReturns(c)
    <3>1. HandIsFresh'
      BY <1>3, <2>1 DEF CheckLimit, HandIsFresh, HandFilled, CallReturns, Goto, TypeOK, PlacesInv, CallPlaces, ControllerAssumption
    <3> QED
      BY <1>3, <2>1, <3>1, CallReturnsTyped DEF CheckLimit, TypeOK
  <2>2. CASE Goto(c, "open") /\ UNCHANGED <<hand, serves>>
    BY <1>3, <2>2
    DEF CheckLimit, Goto, TypeOK, PlacesInv, CallPlaces, AdminPlaces, HandFilled, HandIsFresh, ControllerAssumption
  <2> QED
    BY <1>3, <2>1, <2>2 DEF CheckLimit
<1>4. CASE OpenFails(c)
  <2>1. HandIsFresh'
    BY <1>4 DEF OpenFails, HandIsFresh, HandFilled, CallReturns, Goto, TypeOK, PlacesInv, CallPlaces, ControllerAssumption
  <2> QED
    BY <1>4, <2>1, CallReturnsTyped DEF OpenFails, TypeOK
<1>5. CASE OpenSucceeds(c)
  <2> USE <1>5 DEF OpenSucceeds, Goto
  <2>1. hand[c] \in Ids /\ hand[c] \notin ended
    BY DEF HandFilled, HandIsFresh
  <2>2. TypeOK'
    BY <2>1 DEF TypeOK
  <2>3. PlacesInv' /\ HandFilled'
    BY DEF TypeOK, PlacesInv, CallPlaces, AdminPlaces, HandFilled, ControllerAssumption
  <2>4. HandIsFresh'
    BY DEF TypeOK, HandIsFresh
  <2> QED
    BY <2>2, <2>3, <2>4
<1>6. CASE Record(c)
  <2>1. hand[c] \in Ids
    BY <1>6 DEF Record, HandFilled
  <2>2. HandIsFresh'
    BY <1>6 DEF Record, HandIsFresh, HandFilled, CallReturns, Goto, TypeOK, PlacesInv, CallPlaces, ControllerAssumption
  <2> QED
    BY <1>6, <2>1, <2>2, CallReturnsTyped DEF Record, TypeOK
<1>7. CASE CloseSession(c)
  <2>1. hand[c] \in Sessions
    BY <1>7 DEF CloseSession, HandFilled
  <2>2. HandIsFresh'
    BY <1>7 DEF CloseSession, HandIsFresh, HandFilled, CallReturns, Goto, TypeOK, PlacesInv, CallPlaces, ControllerAssumption
  <2>3. owned' \subseteq Ids /\ live' \subseteq Ids /\ ended' \subseteq Sessions \ live'
    BY <1>7, <2>1 DEF CloseSession, TypeOK
  <2> QED
    BY <1>7, <2>2, <2>3, CallReturnsTyped DEF CloseSession, TypeOK
<1> QED
  BY <1>1, <1>2, <1>3, <1>4, <1>5, <1>6, <1>7 DEF CallStep

\* The resources that end by themselves, and the calls that only touch a table.
LEMMA ResourceStepTyped ==
  ASSUME ControllerAssumption, TypeInv, NEW id \in Ids,
         CancelJob(id) \/ ForgetJob(id) \/ EndsByItself(id) \/ ForgetSession(id)
  PROVE  TypeInv'
<1> USE DEF TypeInv, TypeOK, PlacesInv, HandFilled, HandIsFresh
<1>1. CASE CancelJob(id)
  BY <1>1 DEF CancelJob
<1>2. CASE ForgetJob(id)
  BY <1>2 DEF ForgetJob
<1>3. CASE EndsByItself(id)
  BY <1>3 DEF EndsByItself
<1>4. CASE ForgetSession(id)
  BY <1>4 DEF ForgetSession
<1> QED
  BY <1>1, <1>2, <1>3, <1>4

\* An administrator that goes from one place to another, or returns.
LEMMA AdminGoes ==
  ASSUME ControllerAssumption, TypeInv, NEW a \in Admins, NEW to \in AdminPlaces,
         Goto(a, to), UNCHANGED hand,
         owned' \subseteq owned, live' \subseteq live, ended' \subseteq ended \cup live
  PROVE  pc' \in [Calls \cup Admins -> Places] /\ PlacesInv' /\ HandFilled' /\ HandIsFresh'
<1>1. pc' \in [Calls \cup Admins -> Places] /\ PlacesInv'
  BY DEF TypeInv, TypeOK, PlacesInv, CallPlaces, AdminPlaces, Goto, ControllerAssumption
<1>2. \A c \in Calls : pc'[c] = pc[c]
  BY DEF Goto, TypeInv, TypeOK, ControllerAssumption
<1>3. HandFilled'
  BY <1>2 DEF TypeInv, HandFilled
<1>4. HandIsFresh'
  BY <1>2 DEF TypeInv, HandIsFresh
<1> QED
  BY <1>1, <1>3, <1>4

LEMMA AdminStepTyped ==
  ASSUME ControllerAssumption, TypeInv, NEW a \in Admins,
         BeginStart(a) \/ BeginStop(a) \/ BeginRenew(a) \/ AdminStep(a)
  PROVE  TypeInv'
<1> TypeOK
  BY DEF TypeInv
<1> USE DEF TypeOK, AdminReturns, ControllerAssumption
<1>1. CASE BeginStart(a)
  <2>1. Goto(a, "starting") /\ "starting" \in AdminPlaces
    BY <1>1 DEF BeginStart, AdminPlaces
  <2> QED
    BY <1>1, <2>1, AdminGoes DEF BeginStart, Arrives, TypeInv
<1>2. CASE BeginStop(a)
  <2>1. Goto(a, "draining") /\ "draining" \in AdminPlaces
    BY <1>2 DEF BeginStop, Detach, AdminPlaces
  <2> QED
    BY <1>2, <2>1, AdminGoes DEF BeginStop, Detach, Arrives, TypeInv
<1>3. CASE BeginRenew(a)
  <2>1. Goto(a, "renewed") /\ "renewed" \in AdminPlaces
    BY <1>3 DEF BeginRenew, AdminPlaces
  <2> QED
    BY <1>3, <2>1, AdminGoes DEF BeginRenew, Arrives, TypeInv
<1>4. CASE StartServer(a)
  <2>1. Goto(a, "idle") /\ "idle" \in AdminPlaces
    BY <1>4 DEF StartServer, AdminPlaces
  <2>2. /\ servers' \in 0 .. MaxServers /\ server' \in 0 .. servers'
        /\ accepted' \in 0 .. token
    BY <1>4 DEF StartServer
  <2> QED
    BY <1>4, <2>1, <2>2, AdminGoes DEF StartServer, TypeInv
<1>5. CASE StartFails(a)
  <2>1. Goto(a, "idle") /\ "idle" \in AdminPlaces
    BY <1>5 DEF StartFails, AdminPlaces
  <2> QED
    BY <1>5, <2>1, AdminGoes DEF StartFails, TypeInv
<1>6. CASE Drained(a) \/ DrainTimesOut(a)
  <2>1. Goto(a, "uploads") /\ "uploads" \in AdminPlaces
    BY <1>6 DEF Drained, DrainTimesOut, AdminPlaces
  <2> QED
    BY <1>6, <2>1, AdminGoes DEF Drained, DrainTimesOut, TypeInv
<1>7. CASE TakeUploads(a)
  <2>1. Goto(a, "downloads") /\ "downloads" \in AdminPlaces
    BY <1>7 DEF TakeUploads, TakeJobs, AdminPlaces
  <2> QED
    BY <1>7, <2>1, AdminGoes DEF TakeUploads, TakeJobs, TypeInv
<1>8. CASE TakeDownloads(a)
  <2>1. Goto(a, "terminals") /\ "terminals" \in AdminPlaces
    BY <1>8 DEF TakeDownloads, TakeJobs, AdminPlaces
  <2> QED
    BY <1>8, <2>1, AdminGoes DEF TakeDownloads, TakeJobs, TypeInv
<1>9. CASE CloseTerminals(a)
  <2>1. Goto(a, "quota") /\ "quota" \in AdminPlaces
    BY <1>9 DEF CloseTerminals, AdminPlaces
  <2> QED
    BY <1>9, <2>1, AdminGoes DEF CloseTerminals, TypeInv
<1>10. CASE ClearQuota(a)
  <2>1. PICK to \in {"starting", "idle"} : Goto(a, to)
    BY <1>10 DEF ClearQuota
  <2>2. to \in AdminPlaces
    BY DEF AdminPlaces
  <2>3. /\ serves' \in [Calls \cup Admins -> 0 .. MaxServers]
        /\ known' \in [Admins -> 0 .. token] /\ renewing' \subseteq Admins
    BY <1>10 DEF ClearQuota
  <2> QED
    BY <1>10, <2>1, <2>2, <2>3, AdminGoes DEF ClearQuota, TypeInv
<1>11. CASE Renew(a)
  <2>1. PICK to \in {"draining", "idle"} : Goto(a, to)
    BY <1>11 DEF Renew, Detach
  <2>2. to \in AdminPlaces
    BY DEF AdminPlaces
  <2>3. /\ server' \in 0 .. servers /\ serves' \in [Calls \cup Admins -> 0 .. MaxServers]
        /\ known' \in [Admins -> 0 .. token] /\ renewing' \subseteq Admins
    BY <1>11 DEF Renew, Detach
  <2> QED
    BY <1>11, <2>1, <2>2, <2>3, AdminGoes DEF Renew, TypeInv
<1> QED
  BY <1>1, <1>2, <1>3, <1>4, <1>5, <1>6, <1>7, <1>8, <1>9, <1>10, <1>11 DEF AdminStep

LEMMA TypeStep ==
  ASSUME ControllerAssumption, TypeInv, [Next]_vars
  PROVE  TypeInv'
<1>1. CASE UNCHANGED vars
  BY <1>1 DEF vars, TypeInv, TypeOK, PlacesInv, HandFilled, HandIsFresh
<1> QED
  BY <1>1, CallStepTyped, ResourceStepTyped, AdminStepTyped DEF Next

LEMMA InitTyped ==
  ASSUME ControllerAssumption, Init
  PROVE  TypeInv
<1>1. TypeOK
  <2>1. /\ server \in 0 .. servers /\ servers \in 0 .. MaxServers
        /\ token \in 1 .. MaxTokens + 1 /\ accepted \in 0 .. token
    BY DEF ControllerAssumption, Init
  <2>2. /\ pc \in [Calls \cup Admins -> Places]
        /\ hand \in [Calls -> Ids \cup {None}]
    BY DEF Init
  <2>3. serves \in [Calls \cup Admins -> 0 .. MaxServers] /\ known \in [Admins -> 0 .. token]
    BY <2>1 DEF ControllerAssumption, Init
  <2> QED
    BY <2>1, <2>2, <2>3 DEF Init, TypeOK
<1>2. PlacesInv /\ HandFilled /\ HandIsFresh
  BY DEF Init, PlacesInv, CallPlaces, AdminPlaces, HandFilled, HandIsFresh
<1> QED
  BY <1>1, <1>2 DEF TypeInv

-----------------------------------------------------------------------------
(* Who will end what: the server that runs, or a Stop that has not come to *)
(* it yet.  It holds until a Stop goes on without its handlers.            *)

Cleaning(places) == server # 0 \/ \E a \in Admins : pc[a] \in places

\* A call belongs to the running server or to one whose Stop waits for it.
CallsServed ==
  \A c \in Calls : pc[c] # "idle" =>
    /\ serves[c] # 0
    /\ \/ serves[c] = server
       \/ \E a \in Admins : pc[a] = "draining" /\ serves[a] = serves[c]

\* What is in a table, or open, will be taken by a Stop that comes to it.
TablesCleaned ==
  /\ owned \cap Uploads # {} => Cleaning({"draining", "uploads"})
  /\ owned \cap Downloads # {} => Cleaning({"draining", "uploads", "downloads"})
  /\ live \cap Sessions # {} => Cleaning({"draining", "uploads", "downloads", "terminals"})
  /\ owned \cap Sessions # {} => Cleaning(Stopping)

CleanUp == ~hurried => CallsServed /\ TablesCleaned

\* A job that runs is in its table, or about to be entered there.
JobsKnown ==
  \A id \in live \cap Jobs : id \in owned \/ \E c \in Calls : pc[c] = "record" /\ hand[c] = id

-----------------------------------------------------------------------------
(* As long as the administrators take turns, a Start knows the token that  *)
(* is stored, and a server with an older one is about to be restarted.     *)

OneAtATime == \A a, b \in Admins : pc[a] # "idle" /\ pc[b] # "idle" => a = b
StartKnows == \A a \in Admins : pc[a] = "starting" => known[a] = token
ServerKnows == server # 0 => accepted = token \/ \E a \in Admins : pc[a] = "renewed"

TokenInv == ~overlapped => OneAtATime /\ StartKnows /\ ServerKnows

IInv == TypeInv /\ CleanUp /\ JobsKnown /\ TokenInv

-----------------------------------------------------------------------------
\* A call is none of the administrators' business.
LEMMA CallSparesAdmins ==
  ASSUME ControllerAssumption, TypeInv, NEW c \in Calls,
         CallStep(c) \/ \E id \in Ids : BeginOpen(c, id) \/ BeginClose(c, id)
  PROVE  /\ \A a \in Admins : pc'[a] = pc[a] /\ serves'[a] = serves[a]
         /\ \A d \in Calls \ {c} : pc'[d] = pc[d] /\ serves'[d] = serves[d] /\ hand'[d] = hand[d]
         /\ UNCHANGED <<server, servers, token, accepted, known, renewing, overlapped, hurried>>
BY DEF CallStep, BeginOpen, BeginClose, CheckLimit, OpenFails, OpenSucceeds, Record, CloseSession,
       CallReturns, Goto, TypeInv, TypeOK, ControllerAssumption

LEMMA CallKeepsCleanUp ==
  ASSUME ControllerAssumption, IInv, NEW c \in Calls,
         CallStep(c) \/ \E id \in Ids : BeginOpen(c, id) \/ BeginClose(c, id)
  PROVE  (CleanUp /\ JobsKnown)'
<1> TypeInv /\ TypeOK /\ JobsKnown
  BY DEF IInv, TypeInv
<1> USE CallSparesAdmins
<1>1. ASSUME ~hurried PROVE CallsServed'
  <2>1. CallsServed
    BY <1>1 DEF IInv, CleanUp
  <2>2. pc'[c] # "idle" => \/ serves'[c] = serves[c] /\ pc[c] # "idle"
                           \/ serves'[c] = server /\ server # 0
    <3>1. CASE \E id \in Ids : BeginOpen(c, id) \/ BeginClose(c, id)
      BY <3>1 DEF BeginOpen, BeginClose, TypeOK
    <3>2. CASE CallReturns(c)
      BY <3>2 DEF CallReturns, Goto, TypeOK
    <3>3. CASE pc[c] # "idle" /\ serves' = serves
      BY <3>3
    <3> QED
      BY <3>1, <3>2, <3>3
      DEF CallStep, CheckLimit, OpenFails, OpenSucceeds, Record, CloseSession
  <2> QED
    BY <2>1, <2>2 DEF CallsServed
<1>2. ASSUME ~hurried PROVE TablesCleaned'
  <2>1. CallsServed /\ TablesCleaned
    BY <1>1, <1>2 DEF IInv, CleanUp
  <2>2. \A places : Cleaning(places)' <=> Cleaning(places)
    BY DEF Cleaning
  <2>3. pc[c] \in {"open", "record"} => server # 0 \/ \E a \in Admins : pc[a] = "draining"
    BY <2>1 DEF CallsServed
  <2>4. CASE OpenSucceeds(c) \/ Record(c)
    <3>1. Cleaning({"draining", "uploads"})
      BY <2>3, <2>4 DEF OpenSucceeds, Record, Cleaning
    <3>2. Cleaning({"draining", "uploads", "downloads"})
      BY <2>3, <2>4 DEF OpenSucceeds, Record, Cleaning
    <3>3. Cleaning({"draining", "uploads", "downloads", "terminals"})
      BY <2>3, <2>4 DEF OpenSucceeds, Record, Cleaning
    <3>4. Cleaning(Stopping)
      BY <2>3, <2>4 DEF OpenSucceeds, Record, Cleaning
    <3> QED
      BY <2>2, <3>1, <3>2, <3>3, <3>4 DEF TablesCleaned
  <2>5. CASE ~(OpenSucceeds(c) \/ Record(c))
    <3>1. owned' \subseteq owned /\ live' \subseteq live
      BY <2>5 DEF CallStep, BeginOpen, BeginClose, CheckLimit, OpenFails, CloseSession
    <3> QED
      BY <2>1, <2>2, <3>1 DEF TablesCleaned
  <2> QED
    BY <2>4, <2>5
<1>3. JobsKnown'
  <2>1. CASE OpenSucceeds(c)
    BY <2>1 DEF OpenSucceeds, JobsKnown, Goto, TypeOK
  <2>2. CASE Record(c)
    BY <2>2 DEF Record, JobsKnown, CallReturns, Goto, TypeOK
  <2>3. CASE CloseSession(c)
    <3>1. hand[c] \notin Jobs
      BY <2>3 DEF CloseSession, TypeInv, HandFilled, ControllerAssumption
    <3>2. live' \subseteq live /\ owned \cap Jobs \subseteq owned' /\ pc[c] = "close"
      BY <2>3, <3>1 DEF CloseSession
    <3> QED
      BY <3>2 DEF JobsKnown
  <2>4. CASE CheckLimit(c) \/ OpenFails(c) \/ \E id \in Ids : BeginOpen(c, id) \/ BeginClose(c, id)
    <3>1. live' = live /\ owned' = owned /\ pc[c] # "record"
      BY <2>4 DEF CheckLimit, OpenFails, BeginOpen, BeginClose
    <3> QED
      BY <3>1 DEF JobsKnown
  <2> QED
    BY <2>1, <2>2, <2>3, <2>4 DEF CallStep
<1> QED
  BY <1>1, <1>2, <1>3 DEF CleanUp

LEMMA ResourceKeepsCleanUp ==
  ASSUME IInv, NEW id \in Ids,
         CancelJob(id) \/ ForgetJob(id) \/ EndsByItself(id) \/ ForgetSession(id)
  PROVE  (CleanUp /\ JobsKnown)'
<1>1. /\ owned' \subseteq owned /\ live' \subseteq live /\ owned \cap live' \subseteq owned'
      /\ UNCHANGED <<server, pc, hand, serves, hurried>>
  BY DEF CancelJob, ForgetJob, EndsByItself, ForgetSession, history
<1>2. CallsServed => CallsServed'
  BY <1>1 DEF CallsServed
<1>3. TablesCleaned => TablesCleaned'
  BY <1>1 DEF TablesCleaned, Cleaning
<1> QED
  BY <1>1, <1>2, <1>3 DEF IInv, CleanUp, JobsKnown

\* An administrator who goes on leaves no duty behind: where a table is still
\* to be taken he has not come past it.
LEMMA DutyMoves ==
  ASSUME ControllerAssumption, TypeInv, NEW a \in Admins, NEW to, Goto(a, to),
         NEW places, Cleaning(places),
         server # 0 => server' # 0 \/ to \in places,
         pc[a] \in places => to \in places
  PROVE  Cleaning(places)'
BY DEF Cleaning, Goto, TypeInv, TypeOK

LEMMA AdminKeepsCleanUp ==
  ASSUME ControllerAssumption, IInv, NEW a \in Admins,
         BeginStart(a) \/ BeginStop(a) \/ BeginRenew(a) \/ AdminStep(a)
  PROVE  (CleanUp /\ JobsKnown)'
<1> TypeInv /\ TypeOK /\ JobsKnown
  BY DEF IInv, TypeInv
<1>1. /\ UNCHANGED hand /\ (hurried => hurried')
      /\ \A c \in Calls : pc'[c] = pc[c] /\ serves'[c] = serves[c]
      /\ \A b \in Admins \ {a} : pc'[b] = pc[b] /\ serves'[b] = serves[b]
  BY DEF BeginStart, BeginStop, BeginRenew, AdminStep, StartServer, StartFails, Drained,
         DrainTimesOut, TakeUploads, TakeDownloads, TakeJobs, CloseTerminals, ClearQuota, Renew,
         Detach, Arrives, AdminReturns, Goto, TypeOK, ControllerAssumption
<1>2. JobsKnown'
  <2>1. owned \cap live' \cap Jobs \subseteq owned' /\ live' \subseteq live
    BY DEF BeginStart, BeginStop, BeginRenew, AdminStep, StartServer, StartFails, Drained,
           DrainTimesOut, TakeUploads, TakeDownloads, TakeJobs, CloseTerminals, ClearQuota, Renew,
           ControllerAssumption
  <2> QED
    BY <1>1, <2>1 DEF JobsKnown
<1>3. ASSUME ~hurried' PROVE CallsServed'
  <2>1. CallsServed
    BY <1>1, <1>3 DEF IInv, CleanUp
  <2>2. CASE Drained(a)
    <3>1. \A c \in Calls : serves[c] # serves[a]
      BY <2>2 DEF Drained, Busy
    <3>2. server' = server /\ serves' = serves
      BY <2>2 DEF Drained
    <3> QED
      BY <1>1, <2>1, <3>1, <3>2 DEF CallsServed
  <2>3. CASE DrainTimesOut(a)
    BY <1>3, <2>3 DEF DrainTimesOut
  <2>4. CASE BeginStop(a) \/ (Renew(a) /\ Detach(a))
    <3>1. server' = 0 /\ pc'[a] = "draining" /\ serves'[a] = server /\ pc[a] # "draining"
      BY <2>4 DEF BeginStop, Renew, Arrives, Detach, Goto, TypeOK
    <3> QED
      BY <1>1, <2>1, <3>1 DEF CallsServed
  <2>5. CASE StartServer(a)
    <3>1. pc[a] # "draining" /\ (server' = server \/ server = 0)
      BY <2>5 DEF StartServer
    <3> QED
      BY <1>1, <2>1, <3>1 DEF CallsServed
  <2>6. CASE ~(\/ Drained(a) \/ DrainTimesOut(a) \/ BeginStop(a) \/ (Renew(a) /\ Detach(a))
               \/ StartServer(a))
    <3>1. server' = server /\ pc[a] # "draining"
      BY <2>6
      DEF BeginStart, BeginRenew, AdminStep, StartFails, TakeUploads, TakeDownloads, TakeJobs,
          CloseTerminals, ClearQuota, Renew, Arrives
    <3> QED
      BY <1>1, <2>1, <3>1 DEF CallsServed
  <2> QED
    BY <2>2, <2>3, <2>4, <2>5, <2>6
<1>4. ASSUME ~hurried' PROVE TablesCleaned'
  <2>1. TablesCleaned
    BY <1>1, <1>4 DEF IInv, CleanUp
  <2>2. CASE BeginStop(a) \/ (Renew(a) /\ Detach(a))
    <3>1. pc'[a] = "draining"
      BY <2>2 DEF BeginStop, Renew, Detach, Goto, TypeOK
    <3> QED
      BY <3>1 DEF TablesCleaned, Cleaning
  <2>3. CASE Drained(a) \/ DrainTimesOut(a)
    <3>1. server' = server /\ owned' = owned /\ live' = live /\ Goto(a, "uploads")
      BY <2>3 DEF Drained, DrainTimesOut
    <3> QED
      BY <2>1, <3>1, DutyMoves DEF TablesCleaned
  <2>4. CASE TakeUploads(a)
    <3>1. /\ server' = server /\ owned' = owned \ Uploads /\ live' \subseteq live
          /\ pc[a] = "uploads" /\ Goto(a, "downloads")
      BY <2>4 DEF TakeUploads, TakeJobs
    <3> QED
      BY <2>1, <3>1, DutyMoves DEF TablesCleaned
  <2>5. CASE TakeDownloads(a)
    <3>1. /\ server' = server /\ owned' = owned \ Downloads /\ live' \subseteq live
          /\ pc[a] = "downloads" /\ Goto(a, "terminals")
      BY <2>5 DEF TakeDownloads, TakeJobs
    <3> QED
      BY <2>1, <3>1, DutyMoves DEF TablesCleaned
  <2>6. CASE CloseTerminals(a)
    <3>1. /\ server' = server /\ owned' = owned /\ live' = live \ Sessions
          /\ pc[a] = "terminals" /\ Goto(a, "quota")
      BY <2>6 DEF CloseTerminals
    <3> QED
      BY <2>1, <3>1, DutyMoves DEF TablesCleaned
  <2>7. CASE ClearQuota(a)
    <3>1. /\ server' = server /\ owned' = owned \ Sessions /\ live' = live
          /\ pc[a] = "quota" /\ \E to \in {"starting", "idle"} : Goto(a, to)
      BY <2>7 DEF ClearQuota, AdminReturns
    <3> QED
      BY <2>1, <3>1, DutyMoves DEF TablesCleaned
  <2>8. CASE BeginStart(a) \/ BeginRenew(a) \/ StartServer(a) \/ StartFails(a) \/ (Renew(a) /\ ~Detach(a))
    <3>1. /\ server # 0 => server' # 0
          /\ owned' = owned /\ live' = live
          /\ pc[a] \notin Stopping /\ \E to \in AdminPlaces : Goto(a, to)
      BY <2>8
      DEF BeginStart, BeginRenew, StartServer, StartFails, Renew, Arrives, AdminReturns, AdminPlaces
    <3> QED
      BY <2>1, <3>1, DutyMoves DEF TablesCleaned
  <2> QED
    BY <2>2, <2>3, <2>4, <2>5, <2>6, <2>7, <2>8 DEF AdminStep
<1> QED
  BY <1>2, <1>3, <1>4 DEF CleanUp

-----------------------------------------------------------------------------
(* The token                                                               *)

LEMMA TokenStep ==
  ASSUME ControllerAssumption, IInv, Next
  PROVE  TokenInv'
<1> TypeInv /\ TypeOK
  BY DEF IInv, TypeInv
<1> SUFFICES ASSUME ~overlapped' PROVE (OneAtATime /\ StartKnows /\ ServerKnows)'
  BY DEF TokenInv
<1>1. ASSUME NEW c \in Calls, CallStep(c) \/ \E id \in Ids : BeginOpen(c, id) \/ BeginClose(c, id)
      PROVE  (OneAtATime /\ StartKnows /\ ServerKnows)'
  BY <1>1, CallSparesAdmins DEF IInv, TokenInv, OneAtATime, StartKnows, ServerKnows
<1>2. ASSUME NEW id \in Ids, CancelJob(id) \/ ForgetJob(id) \/ EndsByItself(id) \/ ForgetSession(id)
      PROVE  (OneAtATime /\ StartKnows /\ ServerKnows)'
  <2>1. UNCHANGED <<server, token, accepted, pc, known, overlapped>>
    BY <1>2 DEF CancelJob, ForgetJob, EndsByItself, ForgetSession
  <2> QED
    BY <2>1 DEF IInv, TokenInv, OneAtATime, StartKnows, ServerKnows
<1>3. ASSUME NEW a \in Admins, BeginStart(a) \/ BeginStop(a) \/ BeginRenew(a)
      PROVE  (OneAtATime /\ StartKnows /\ ServerKnows)'
  <2>1. ~overlapped /\ \A b \in Admins : pc[b] = "idle"
    BY <1>3 DEF BeginStart, BeginStop, BeginRenew, Arrives
  <2>2. server # 0 => accepted = token
    BY <2>1 DEF IInv, TokenInv, ServerKnows
  <2>3. \A b \in Admins \ {a} : pc'[b] = "idle"
    BY <1>3, <2>1 DEF BeginStart, BeginStop, BeginRenew, Detach, Goto, TypeOK
  <2>4. CASE BeginStart(a)
    BY <2>2, <2>3, <2>4 DEF BeginStart, Goto, TypeOK, OneAtATime, StartKnows, ServerKnows
  <2>5. CASE BeginStop(a)
    BY <2>2, <2>3, <2>5 DEF BeginStop, Detach, Goto, TypeOK, OneAtATime, StartKnows, ServerKnows
  <2>6. CASE BeginRenew(a)
    BY <2>2, <2>3, <2>6 DEF BeginRenew, Goto, TypeOK, OneAtATime, StartKnows, ServerKnows
  <2> QED
    BY <1>3, <2>4, <2>5, <2>6
<1>4. ASSUME NEW a \in Admins, AdminStep(a)
      PROVE  (OneAtATime /\ StartKnows /\ ServerKnows)'
  <2>1. /\ ~overlapped /\ token' = token /\ pc[a] # "idle"
        /\ \A b \in Admins \ {a} : pc'[b] = pc[b] /\ known'[b] = known[b]
    BY <1>4
    DEF AdminStep, StartServer, StartFails, Drained, DrainTimesOut, TakeUploads, TakeDownloads,
        TakeJobs, CloseTerminals, ClearQuota, Renew, Detach, AdminReturns, Goto, TypeOK
  <2>2. \A b \in Admins \ {a} : pc[b] = "idle"
    BY <2>1 DEF IInv, TokenInv, OneAtATime
  <2>3. OneAtATime'
    BY <2>1, <2>2 DEF OneAtATime
  <2>4. pc'[a] = "starting" => known'[a] = token
    <3>1. CASE ClearQuota(a)
      BY <3>1 DEF ClearQuota, AdminReturns, Goto, TypeOK
    <3>2. CASE pc'[a] # "starting"
      BY <3>2
    <3> QED
      BY <1>4, <3>1, <3>2
      DEF AdminStep, StartServer, StartFails, Drained, DrainTimesOut, TakeUploads, TakeDownloads,
          TakeJobs, CloseTerminals, Renew, Detach, AdminReturns, Goto, TypeOK
  <2>5. StartKnows'
    BY <2>1, <2>2, <2>4 DEF StartKnows
  <2>6. ServerKnows'
    <3>1. CASE StartServer(a)
      BY <2>1, <2>2, <3>1 DEF StartServer, IInv, TokenInv, StartKnows, ServerKnows
    <3>2. CASE Renew(a)
      BY <3>2 DEF Renew, Detach, ServerKnows
    <3>3. CASE ~StartServer(a) /\ ~Renew(a)
      <4>1. server' = server /\ accepted' = accepted /\ pc[a] # "renewed"
        BY <1>4, <3>3
        DEF AdminStep, StartFails, Drained, DrainTimesOut, TakeUploads, TakeDownloads, TakeJobs,
            CloseTerminals, ClearQuota
      <4> QED
        BY <2>1, <2>2, <4>1 DEF IInv, TokenInv, ServerKnows
    <3> QED
      BY <3>1, <3>2, <3>3
  <2> QED
    BY <2>3, <2>5, <2>6
<1> QED
  BY <1>1, <1>2, <1>3, <1>4 DEF Next

LEMMA InvariantStep ==
  ASSUME ControllerAssumption, IInv, [Next]_vars
  PROVE  IInv'
<1>1. TypeInv'
  BY TypeStep DEF IInv
<1>2. CASE UNCHANGED vars
  BY <1>1, <1>2
  DEF vars, IInv, CleanUp, CallsServed, TablesCleaned, Cleaning, JobsKnown, TokenInv,
      OneAtATime, StartKnows, ServerKnows
<1>3. CASE Next
  <2>1. (CleanUp /\ JobsKnown)'
    BY <1>3, CallKeepsCleanUp, ResourceKeepsCleanUp, AdminKeepsCleanUp DEF Next
  <2> QED
    BY <1>1, <1>3, <2>1, TokenStep DEF IInv
<1> QED
  BY <1>2, <1>3

LEMMA InitInvariant == ControllerAssumption /\ Init => IInv
<1> SUFFICES ASSUME ControllerAssumption, Init PROVE IInv
  OBVIOUS
<1>1. CleanUp /\ JobsKnown /\ TokenInv
  BY DEF Init, CleanUp, CallsServed, TablesCleaned, JobsKnown, TokenInv, OneAtATime, StartKnows,
         ServerKnows
<1> QED
  BY <1>1, InitTyped DEF IInv

LEMMA InductiveInvariant == Spec => []IInv
BY InitInvariant, InvariantStep, ControllerAssumption, PTL DEF Spec

\* Once the server is stopped and its handlers are back, no job of its clients
\* runs and no terminal is open, if no Stop had to go on without a handler
\* (server.go:113).
THEOREM StopIsComplete == Spec => []StopLeavesNothing
<1>1. IInv => StopLeavesNothing
  <2> SUFFICES ASSUME IInv, Quiet, server = 0, ~hurried PROVE live = {} /\ owned = {}
    BY DEF StopLeavesNothing
  <2>1. \A a \in Admins : pc[a] = "idle"
    BY DEF Quiet
  <2>2. owned \cap Ids = {}
    BY <2>1 DEF IInv, CleanUp, TablesCleaned, Cleaning, Ids, Jobs
  <2>3. live \cap Sessions = {}
    BY <2>1 DEF IInv, CleanUp, TablesCleaned, Cleaning
  <2>4. live \cap Jobs = {}
    BY <2>2 DEF IInv, JobsKnown, Quiet, Ids
  <2> QED
    BY <2>2, <2>3, <2>4 DEF IInv, TypeInv, TypeOK, Ids
<1> QED
  BY <1>1, InductiveInvariant, PTL

\* As long as the window's operations come one after the other, a running
\* server accepts the stored token and no older one (server.go:190).
THEOREM OldTokenIsRefused == Spec => []TokenInEffect
<1>1. IInv => TokenInEffect
  BY DEF IInv, TokenInv, ServerKnows, TokenInEffect, Quiet
<1> QED
  BY <1>1, InductiveInvariant, PTL

-----------------------------------------------------------------------------
(* What AdminReturnsEventually rests on: an operation of the window only   *)
(* ever gets closer to its end.                                            *)

\* How many steps an operation may still take.
StepsLeft ==
  [idle |-> 0, starting |-> 1, quota |-> 2, terminals |-> 3, downloads |-> 4, uploads |-> 5,
   draining |-> 6, renewed |-> 7]

MovesOn(a) == pc'[a] = pc[a] \/ StepsLeft[pc'[a]] < StepsLeft[pc[a]]

OperationsMoveOn == \A a \in Admins : pc[a] # "idle" => MovesOn(a)

LEMMA OwnStepMovesOn ==
  ASSUME ControllerAssumption, TypeInv, NEW a \in Admins, AdminStep(a)
  PROVE  MovesOn(a)
<1> USE DEF TypeInv, TypeOK, MovesOn, StepsLeft, Goto, AdminReturns
<1>1. CASE StartServer(a)
  BY <1>1 DEF StartServer
<1>2. CASE StartFails(a)
  BY <1>2 DEF StartFails
<1>3. CASE Drained(a)
  BY <1>3 DEF Drained
<1>4. CASE DrainTimesOut(a)
  BY <1>4 DEF DrainTimesOut
<1>5. CASE TakeUploads(a)
  BY <1>5 DEF TakeUploads, TakeJobs
<1>6. CASE TakeDownloads(a)
  BY <1>6 DEF TakeDownloads, TakeJobs
<1>7. CASE CloseTerminals(a)
  BY <1>7 DEF CloseTerminals
<1>8. CASE ClearQuota(a)
  BY <1>8 DEF ClearQuota
<1>9. CASE Renew(a)
  BY <1>9 DEF Renew, Detach
<1> QED
  BY <1>1, <1>2, <1>3, <1>4, <1>5, <1>6, <1>7, <1>8, <1>9 DEF AdminStep

\* Handlers, the engine and the other operations do not send one back.
LEMMA OthersLeaveOperation ==
  ASSUME ControllerAssumption, TypeInv, [Next]_vars, NEW a \in Admins, pc[a] # "idle",
         ~AdminStep(a)
  PROVE  pc'[a] = pc[a]
<1> USE DEF TypeInv, TypeOK, Goto
<1>1. ASSUME NEW c \in Calls,
             CallStep(c) \/ \E id \in Ids : BeginOpen(c, id) \/ BeginClose(c, id)
      PROVE  pc'[a] = pc[a]
  BY <1>1
  DEF ControllerAssumption, CallStep, BeginOpen, BeginClose, CheckLimit, OpenFails, OpenSucceeds,
      Record, CloseSession, CallReturns
<1>2. ASSUME NEW b \in Admins, b # a,
             AdminStep(b) \/ BeginStart(b) \/ BeginStop(b) \/ BeginRenew(b)
      PROVE  pc'[a] = pc[a]
  BY <1>2
  DEF AdminStep, BeginStart, BeginStop, BeginRenew, StartServer, StartFails, Drained,
      DrainTimesOut, TakeUploads, TakeDownloads, TakeJobs, CloseTerminals, ClearQuota, Renew,
      Detach, AdminReturns
<1>3. ~(BeginStart(a) \/ BeginStop(a) \/ BeginRenew(a))
  BY DEF BeginStart, BeginStop, BeginRenew, Arrives
<1>4. CASE pc' = pc
  BY <1>4
<1> QED
  BY <1>1, <1>2, <1>3, <1>4 DEF Next, vars, CancelJob, ForgetJob, EndsByItself, ForgetSession

\* The safety half of AdminReturnsEventually: Start, Stop and RegenerateToken
\* take at most seven steps, however many tool calls, hanging handlers and other
\* operations there are: nothing makes one of them begin again (server.go:56, :97, :181).
THEOREM OperationsCannotSpin == Spec => [][OperationsMoveOn]_vars
<1>1. ControllerAssumption /\ IInv /\ [Next]_vars => OperationsMoveOn
  BY OwnStepMovesOn, OthersLeaveOperation DEF IInv, OperationsMoveOn, MovesOn
<1> QED
  BY <1>1, InductiveInvariant, ControllerAssumption, PTL DEF Spec

-----------------------------------------------------------------------------
(* The two parts together: every behaviour that follows one of them.       *)

\* Recovery ends a process only after it has looked at its image and at its id.
LEMMA RecoveryStep ==
  ASSUME RecoverySparesOthers, NEW p \in Pids, NEW q \in Pids,
         Lifetime!Terminate(p, q), process[q] = "ours", q # p
  PROVE  RecoverySparesOthers'
BY DEF RecoverySparesOthers, Lifetime!RecoverySparesOthers, Lifetime!Terminate

LEMMA LifetimeSpares ==
  ASSUME Lifetime!TypeOK, RecoverySparesOthers, Lifetime!Next
  PROVE  RecoverySparesOthers'
<1> PICK p \in Pids :
      \/ Lifetime!ReclaimByRecord(p) \/ Lifetime!ReclaimByPort(p)
      \/ UNCHANGED reclaimed
  BY DEF Lifetime!Next, Lifetime!Launch, Lifetime!OtherBegins, Lifetime!OtherEnds,
         Lifetime!Crash, Lifetime!Restore, Lifetime!StartMCP, Lifetime!Listens, Lifetime!InUse,
         Lifetime!RetriesFail, Lifetime!RecordIsNoHelp, Lifetime!CannotReclaim,
         Lifetime!PortAvailable, Lifetime!WriteRecord, Lifetime!SaveOn, Lifetime!StopMCP,
         Lifetime!Quit, Lifetime!BeginStop, Lifetime!Drained, Lifetime!DrainTimesOut,
         Lifetime!RemoveRecord, Lifetime!SaveOff, Lifetime!history
<1>1. CASE Lifetime!ReclaimByRecord(p)
  <2>1. record[1] \in Pids /\ process[record[1]] = "ours" /\ record[1] # p
    BY <1>1
    DEF Lifetime!ReclaimByRecord, Lifetime!ProcessMatches, Lifetime!Named, Lifetime!TypeOK
  <2> QED
    BY <1>1, <2>1, RecoveryStep DEF Lifetime!ReclaimByRecord
<1>2. CASE Lifetime!ReclaimByPort(p)
  <2>1. port[p] \in Ports
    BY DEF Lifetime!TypeOK
  <2>2. /\ holder[port[p]] \in Pids /\ process[holder[port[p]]] = "ours"
        /\ holder[port[p]] # p
    BY <1>2, <2>1 DEF Lifetime!ReclaimByPort, Lifetime!TypeOK
  <2> QED
    BY <1>2, <2>2, RecoveryStep DEF Lifetime!ReclaimByPort
<1>3. CASE UNCHANGED reclaimed
  BY <1>3 DEF RecoverySparesOthers, Lifetime!RecoverySparesOthers
<1> QED
  BY <1>1, <1>2, <1>3

\* A LabRemote or another program that is gone holds no port, and has no place.
LEMMA DiesTyped ==
  ASSUME MCAssumption, Lifetime!TypeOK, NEW q \in Pids, Lifetime!Dies(q)
  PROVE  /\ process' \in [Pids -> {"none", "ours", "other"}]
         /\ holder' \in [Ports -> Pids \cup {None}]
         /\ port' \in [Pids -> Ports] /\ saves' \in [Pids -> BOOLEAN]
         /\ \A n \in Ports : holder'[n] # None => process'[holder'[n]] # "none"
         /\ process'[q] = "none" /\ \A r \in Pids \ {q} : process'[r] = process[r]
<1> USE DEF Lifetime!TypeOK, Lifetime!Dies, MCAssumption, Lifetime!LifetimeAssumption
<1>1. process'[q] = "none" /\ \A r \in Pids \ {q} : process'[r] = process[r]
  OBVIOUS
<1>2. /\ process' \in [Pids -> {"none", "ours", "other"}]
      /\ port' \in [Pids -> Ports] /\ saves' \in [Pids -> BOOLEAN]
  OBVIOUS
<1>3. \A n \in Ports : holder'[n] = IF holder[n] = q THEN None ELSE holder[n]
  OBVIOUS
<1>4. holder' \in [Ports -> Pids \cup {None}]
  OBVIOUS
<1>5. \A n \in Ports : holder'[n] # None => process'[holder'[n]] # "none"
  BY <1>1, <1>3
<1> QED
  BY <1>1, <1>2, <1>4, <1>5

LEMMA ProcessStepTyped ==
  ASSUME MCAssumption, Lifetime!TypeOK, NEW p \in Pids,
         \/ Lifetime!Launch(p) \/ Lifetime!OtherBegins(p)
         \/ Lifetime!OtherEnds(p) \/ Lifetime!Crash(p)
  PROVE  Lifetime!TypeOK'
<1> USE DEF Lifetime!files, Lifetime!history, Lifetime!Goto, Lifetime!Places
<1>1. CASE Lifetime!Launch(p)
  BY <1>1 DEF Lifetime!TypeOK, Lifetime!Launch
<1>2. CASE Lifetime!OtherBegins(p)
  BY <1>2 DEF Lifetime!TypeOK, Lifetime!OtherBegins
<1>3. CASE Lifetime!OtherEnds(p)
  BY <1>3, DiesTyped DEF Lifetime!TypeOK, Lifetime!OtherEnds
<1>4. CASE Lifetime!Crash(p)
  BY <1>4, DiesTyped DEF Lifetime!TypeOK, Lifetime!Crash
<1> QED
  BY <1>1, <1>2, <1>3, <1>4

LEMMA TerminateTyped ==
  ASSUME MCAssumption, Lifetime!TypeOK, NEW p \in Pids, NEW q \in Pids, place[p] # "none",
         Lifetime!Terminate(p, q), process[q] = "ours", UNCHANGED <<record, setting, turnedOff>>
  PROVE  Lifetime!TypeOK'
<1> USE DEF Lifetime!TypeOK, Lifetime!Terminate, Lifetime!Places
<1>1. reclaimed' \subseteq {"self", "ours", "other"}
  OBVIOUS
<1>2. place' \in [Pids -> Lifetime!Places]
  OBVIOUS
<1>3. \A r \in Pids : place'[r] # "none" <=> process'[r] = "ours"
  BY DiesTyped
<1> QED
  BY <1>1, <1>2, <1>3, DiesTyped

LEMMA StartStepTyped ==
  ASSUME MCAssumption, Lifetime!TypeOK, NEW p \in Pids,
         \/ Lifetime!Restore(p) \/ (\E n \in Ports : Lifetime!StartMCP(p, n))
         \/ Lifetime!Listens(p) \/ Lifetime!InUse(p) \/ Lifetime!RetriesFail(p)
         \/ Lifetime!ReclaimByRecord(p) \/ Lifetime!RecordIsNoHelp(p)
         \/ Lifetime!ReclaimByPort(p) \/ Lifetime!CannotReclaim(p)
         \/ Lifetime!PortAvailable(p) \/ Lifetime!WriteRecord(p) \/ Lifetime!SaveOn(p)
  PROVE  Lifetime!TypeOK'
<1> USE DEF Lifetime!files, Lifetime!history, Lifetime!Goto, Lifetime!Places
<1>1. CASE Lifetime!Restore(p)
  BY <1>1 DEF Lifetime!TypeOK, Lifetime!Restore
<1>2. CASE \E n \in Ports : Lifetime!StartMCP(p, n)
  BY <1>2 DEF Lifetime!TypeOK, Lifetime!StartMCP
<1>3. CASE Lifetime!Listens(p)
  BY <1>3 DEF Lifetime!TypeOK, Lifetime!Listens
<1>4. CASE Lifetime!InUse(p)
  BY <1>4 DEF Lifetime!TypeOK, Lifetime!InUse
<1>10. CASE Lifetime!RetriesFail(p)
  BY <1>10 DEF Lifetime!TypeOK, Lifetime!RetriesFail
<1>5. CASE Lifetime!ReclaimByRecord(p)
  <2>1. record[1] \in Pids /\ process[record[1]] = "ours" /\ place[p] # "none"
    BY <1>5
    DEF Lifetime!ReclaimByRecord, Lifetime!ProcessMatches, Lifetime!Named, Lifetime!TypeOK
  <2> QED
    BY <1>5, <2>1, TerminateTyped DEF Lifetime!ReclaimByRecord
<1>6. CASE Lifetime!ReclaimByPort(p)
  <2>1. port[p] \in Ports /\ place[p] # "none"
    BY <1>6 DEF Lifetime!TypeOK, Lifetime!ReclaimByPort
  <2>2. holder[port[p]] \in Pids /\ process[holder[port[p]]] = "ours"
    BY <1>6, <2>1 DEF Lifetime!ReclaimByPort, Lifetime!TypeOK
  <2> QED
    BY <1>6, <2>1, <2>2, TerminateTyped DEF Lifetime!ReclaimByPort
<1>7. CASE Lifetime!RecordIsNoHelp(p)
  BY <1>7 DEF Lifetime!TypeOK, Lifetime!RecordIsNoHelp
<1>11. CASE Lifetime!CannotReclaim(p)
  BY <1>11 DEF Lifetime!TypeOK, Lifetime!CannotReclaim
<1>12. CASE Lifetime!PortAvailable(p)
  BY <1>12 DEF Lifetime!TypeOK, Lifetime!PortAvailable
<1>8. CASE Lifetime!WriteRecord(p)
  BY <1>8 DEF Lifetime!TypeOK, Lifetime!WriteRecord
<1>9. CASE Lifetime!SaveOn(p)
  <2>1. setting' \in [enabled : BOOLEAN, port : Ports] /\ turnedOff' \in BOOLEAN
    <3>1. CASE setting' = [enabled |-> TRUE, port |-> port[p]] /\ turnedOff' = FALSE
      BY <3>1 DEF Lifetime!TypeOK
    <3>2. CASE UNCHANGED <<setting, turnedOff>>
      BY <3>2 DEF Lifetime!TypeOK
    <3> QED
      BY <1>9, <3>1, <3>2 DEF Lifetime!SaveOn
  <2>2. place' = [place EXCEPT ![p] = "idle"] /\ place[p] = "saveOn"
    BY <1>9 DEF Lifetime!SaveOn
  <2>3. UNCHANGED <<process, holder, record, port, saves, reclaimed>>
    BY <1>9 DEF Lifetime!SaveOn
  <2> QED
    BY <2>1, <2>2, <2>3 DEF Lifetime!TypeOK
<1> QED
  BY <1>1, <1>2, <1>3, <1>4, <1>5, <1>6, <1>7, <1>8, <1>9, <1>10, <1>11, <1>12

LEMMA StopStepTyped ==
  ASSUME MCAssumption, Lifetime!TypeOK, NEW p \in Pids,
         \/ Lifetime!StopMCP(p) \/ Lifetime!Quit(p)
         \/ Lifetime!Drained(p) \/ Lifetime!DrainTimesOut(p)
         \/ Lifetime!RemoveRecord(p) \/ Lifetime!SaveOff(p)
  PROVE  Lifetime!TypeOK'
<1> USE DEF Lifetime!files, Lifetime!history, Lifetime!Goto, Lifetime!Places
<1>1. CASE Lifetime!StopMCP(p) \/ Lifetime!Quit(p)
  <2>1. PICK to \in {"draining", "quitting"} : Lifetime!BeginStop(p, to)
    BY <1>1 DEF Lifetime!StopMCP, Lifetime!Quit
  <2> QED
    <3>1. holder' \in [Ports -> Pids \cup {None}]
          /\ \A n \in Ports : holder'[n] # None => process[holder'[n]] # "none"
      BY <2>1 DEF Lifetime!TypeOK, Lifetime!BeginStop
    <3>2. place' \in [Pids -> Lifetime!Places]
          /\ \A r \in Pids : place'[r] # "none" <=> process[r] = "ours"
      BY <2>1 DEF Lifetime!TypeOK, Lifetime!BeginStop
    <3> QED
      BY <2>1, <3>1, <3>2 DEF Lifetime!TypeOK, Lifetime!BeginStop
<1>2. CASE Lifetime!Drained(p)
  BY <1>2 DEF Lifetime!TypeOK, Lifetime!Drained
<1>5. CASE Lifetime!DrainTimesOut(p)
  BY <1>5 DEF Lifetime!TypeOK, Lifetime!DrainTimesOut
<1>3. CASE Lifetime!RemoveRecord(p)
  <2>1. record' \in {None} \cup (Pids \X Ports) /\ turnedOff' \in BOOLEAN
    BY <1>3 DEF Lifetime!TypeOK, Lifetime!RemoveRecord
  <2>2. CASE place[p] = "quitting"
    <3>1. Lifetime!Dies(p) /\ place' = [place EXCEPT ![p] = "none"]
      BY <1>3, <2>2 DEF Lifetime!RemoveRecord
    <3>2. UNCHANGED <<setting, reclaimed>>
      BY <1>3 DEF Lifetime!RemoveRecord
    <3> QED
      BY <2>1, <3>1, <3>2, DiesTyped DEF Lifetime!TypeOK
  <2>3. CASE place[p] # "quitting"
    <3>1. \E to \in {"saveOff", "idle"} : place' = [place EXCEPT ![p] = to] /\ place[p] # "none"
      BY <1>3, <2>3 DEF Lifetime!RemoveRecord
    <3>2. UNCHANGED <<process, holder, setting, port, saves, reclaimed>>
      BY <1>3, <2>3 DEF Lifetime!RemoveRecord
    <3> QED
      BY <2>1, <3>1, <3>2 DEF Lifetime!TypeOK
  <2> QED
    BY <2>2, <2>3
<1>4. CASE Lifetime!SaveOff(p)
  BY <1>4 DEF Lifetime!TypeOK, Lifetime!SaveOff
<1> QED
  BY <1>1, <1>2, <1>3, <1>4, <1>5

\* Each part keeps what it promises while the other one stands still.
ServerInv == IInv /\ Lifetime!TypeOK /\ RecoverySparesOthers

LEMMA ServerInvariant == MCSpec => []ServerInv
<1>1. MCInit => ServerInv
  <2> SUFFICES ASSUME MCInit PROVE Lifetime!TypeOK /\ RecoverySparesOthers
    BY InitInvariant, ControllerAssumption DEF MCInit, ServerInv
  <2> USE MCAssumption DEF MCInit, Lifetime!Init, MCAssumption, Lifetime!LifetimeAssumption
  <2>1. Lifetime!TypeOK
    BY DEF Lifetime!TypeOK, Lifetime!Places
  <2>2. RecoverySparesOthers
    BY DEF RecoverySparesOthers, Lifetime!RecoverySparesOthers
  <2> QED
    BY <2>1, <2>2
<1>2. ServerInv /\ [MCNext]_allVars => ServerInv'
  <2> SUFFICES ASSUME ServerInv, [MCNext]_allVars PROVE ServerInv'
    OBVIOUS
  <2>1. IInv'
    <3>1. [Next]_vars
      BY DEF MCNext, allVars, vars
    <3> QED
      BY <3>1, InvariantStep, ControllerAssumption DEF ServerInv
  <2>2. CASE Lifetime!Next
    <3>1. Lifetime!TypeOK'
      BY <2>2, MCAssumption, ProcessStepTyped, StartStepTyped, StopStepTyped
      DEF ServerInv, Lifetime!Next
    <3> QED
      BY <2>1, <2>2, <3>1, LifetimeSpares DEF ServerInv
  <2>3. CASE UNCHANGED lifetimeVars
    <3>1. Lifetime!TypeOK'
      BY <2>3 DEF ServerInv, lifetimeVars, Lifetime!TypeOK
    <3>2. RecoverySparesOthers'
      BY <2>3 DEF ServerInv, lifetimeVars, RecoverySparesOthers, Lifetime!RecoverySparesOthers
    <3> QED
      BY <2>1, <3>1, <3>2 DEF ServerInv
  <2> QED
    BY <2>2, <2>3 DEF MCNext, allVars
<1> QED
  BY <1>1, <1>2, PTL DEF MCSpec

\* The variables of the controller and of the port's life keep their types: a
\* port is held by a process that runs, and only a LabRemote has a place.
THEOREM ServerTyped == MCSpec => []AllTyped
<1>1. ServerInv => AllTyped
  BY DEF ServerInv, IInv, TypeInv, AllTyped
<1> QED
  BY <1>1, ServerInvariant, PTL

\* A start that finds its port taken ends other LabRemotes only, whatever has
\* become of the id in the record (port_recovery.go:52).
THEOREM RecoveryIsCareful == MCSpec => []RecoverySparesOthers
BY ServerInvariant, PTL DEF ServerInv
=============================================================================
