------------------------------ MODULE StoresProofs ------------------------------
(***************************************************************************)
(* Theorems about the stores, for any number of callers, profiles, sites,  *)
(* fingerprints and calls: which servers are trusted and where connections *)
(* lead (ServerTrust).                                                     *)
(***************************************************************************)
EXTENDS StoresMC, TLAPS

-----------------------------------------------------------------------------
(* Types, with the locals of a caller at each place                        *)

Places == {"idle", "read", "tunnel", "open", "dial", "handshake", "install", "load", "upsert",
           "close", "trust", "erase", "forget", "check", "clear"}

Locals ==
  [op : {"none", "connect", "edit", "copy", "delete", "accept"}, step : Places,
   id : Trust!Ids \cup {None}, from : Trust!Ids \cup Prints \cup {None},
   value : Trust!Profiles \cup {None}, old : Trust!Profiles \cup Prints \cup {None},
   cut : BOOLEAN]

ConnectTyped(k) ==
  /\ k.step \in {"read", "tunnel", "open", "dial", "handshake", "install"}
  /\ k.step # "read" => k.value \in Trust!Profiles
  /\ k.step = "open" => k.old \in Trust!Profiles /\ Trust!Isolated(k.old)
  /\ k.step = "install" => k.old \in Prints

SaveTyped(k) ==
  /\ k.step \in IF k.op = "edit" THEN {"load", "upsert", "close"} ELSE {"load", "trust", "upsert"}
  /\ k.value \in Trust!Profiles
  /\ k.step # "load" => k.old \in Trust!Profiles
  /\ k.op = "copy" => k.from \in Trust!Ids

AcceptTyped(k) ==
  /\ k.step \in {"read", "check", "upsert", "clear"} /\ k.from \in Prints
  /\ k.step # "read" => /\ k.old \in Trust!Profiles
                       /\ k.value = [k.old EXCEPT !.cert = k.from]

Shaped(k) ==
  /\ k.op = "none" <=> k.step = "idle"
  /\ k.op # "none" => k.id \in Trust!Ids
  /\ k.op = "connect" => ConnectTyped(k)
  /\ k.op \in {"edit", "copy"} => SaveTyped(k)
  /\ k.op = "delete" => k.step \in {"close", "erase", "forget"}
  /\ k.op = "accept" => AcceptTyped(k)

CallsTyped == trustCall \in [Callers -> Locals] /\ \A c \in Callers : Shaped(trustCall[c])

TypeInv == Trust!TypeOK /\ shows \in [Sites -> Prints] /\ CallsTyped

-----------------------------------------------------------------------------
(* Nothing is trusted that was not confirmed                               *)

Confirmed == approved \cup {None}

\* What a caller will write, or make a connection with, has been confirmed.
CallConfirmed(k) ==
  /\ k.op \in {"edit", "copy"} => k.value.cert \in Confirmed
  /\ k.op = "accept" => k.from \in approved
  /\ k.op = "connect" /\ k.step = "install" => k.old \in approved

CallsConfirmed == \A c \in Callers : CallConfirmed(trustCall[c])

-----------------------------------------------------------------------------
(* Where connections lead                                                  *)

\* The connection of a profile, and each that is being made and has passed the
\* comparison with the stored profile, leads to a site.
Leads(i, site) ==
  /\ live[i] # None => live[i].at = site
  /\ \A c \in Callers : LET k == trustCall[c] IN
       k.op = "connect" /\ k.id = i /\ k.step \in {"handshake", "install"} /\ ~k.cut =>
         k.value.ssh = site

\* One form at a time; the identity of a copy has been given out.
OneForm ==
  \A c, d \in Callers :
    /\ trustCall[c].op \in {"edit", "copy"} /\ trustCall[d].op \in {"edit", "copy"} => c = d
    /\ trustCall[c].op = "copy" => trustCall[c].id <= trustLast

\* An identity that no profile has had yet.
Fresh(i) == i > trustLast \/ \E c \in Callers : trustCall[c].op = "copy" /\ trustCall[c].id = i

FreshIsUnused ==
  \A i \in Trust!Ids \ reverted :
    Fresh(i) => /\ profile[i] = None /\ live[i] = None
                /\ \A c \in Callers : trustCall[c].op \in {"connect", "edit"} => trustCall[c].id # i

\* Outside of a save that is about to cut them, connections lead to what is stored.
SavedIsFollowed ==
  \A i \in Trust!Ids \ reverted :
    profile[i] # None /\ ~Trust!Saving(i) => Leads(i, profile[i].ssh)

\* During an edit the profile stays as it was read, or is deleted, and what is
\* connected leads to where it led then.
EditIsAlone ==
  \A c \in Callers : LET k == trustCall[c] IN
    Trust!At(c, "edit", "upsert") /\ k.id \notin reverted =>
      /\ profile[k.id] # None => profile[k.id].ssh = k.old.ssh
      /\ Leads(k.id, k.old.ssh)

LeadsInv == OneForm /\ FreshIsUnused /\ SavedIsFollowed /\ EditIsAlone

TrustInv ==
  /\ TypeInv
  /\ Trust!OnlyConfirmedServers /\ CallsConfirmed
  /\ LeadsInv

TrustPart == part = "trust" => TrustInv

-----------------------------------------------------------------------------
(* The steps of a caller, as changes of its locals                         *)

\* A caller goes on with other locals, and nobody else.
Step(c, k) == k \in Locals /\ Shaped(k) /\ trustCall' = [trustCall EXCEPT ![c] = k]

\* The same call, at another place.
Same(k, x) == k.op = x.op /\ k.id = x.id /\ k.from = x.from /\ k.cut = x.cut

Resting == Trust!Resting

LEMMA StepTyped ==
  ASSUME CallsTyped, NEW c \in Callers, NEW k, Step(c, k)
  PROVE  CallsTyped' /\ \A d \in Callers : trustCall'[d] = IF d = c THEN k ELSE trustCall[d]
BY DEF CallsTyped, Step

LEMMA RestingTyped ==
  /\ Resting \in Locals /\ Shaped(Resting)
  /\ Resting.op = "none" /\ Resting.step = "idle"
BY DEF Resting, Trust!Resting, Locals, Shaped, Places

LEMMA ReturnSteps ==
  ASSUME NEW c, Trust!Returns(c)
  PROVE  Step(c, Resting)
BY RestingTyped DEF Step, Trust!Returns, Resting

\* Changes of the locals.
LEMMA StepChanged ==
  ASSUME NEW x \in Locals, NEW s \in Places
  PROVE  LET k == [x EXCEPT !.step = s] IN
           k \in Locals /\ Same(k, x) /\ k.step = s /\ k.value = x.value /\ k.old = x.old
BY DEF Locals, Same

LEMMA MoveSteps ==
  ASSUME CallsTyped, NEW c \in Callers, NEW s \in Places, Trust!Moves(c, s)
  PROVE  LET k == [trustCall[c] EXCEPT !.step = s] IN
           /\ k \in Locals /\ trustCall' = [trustCall EXCEPT ![c] = k]
           /\ Same(k, trustCall[c]) /\ k.step = s
           /\ k.value = trustCall[c].value /\ k.old = trustCall[c].old
<1>1. trustCall[c] \in Locals
  BY DEF CallsTyped
<1>2. trustCall' = [trustCall EXCEPT ![c] = [trustCall[c] EXCEPT !.step = s]]
  BY DEF Trust!Moves
<1> QED
  BY <1>1, <1>2, StepChanged

\* A Connect returns, or goes on to its next place.
LEMMA ConnectSteps ==
  ASSUME TypeInv, NEW c \in Callers,
         \/ Trust!ReadForConnect(c) \/ Trust!ReadForTunnel(c) \/ Trust!TunnelRefused(c)
         \/ Trust!TunnelOpened(c) \/ Trust!Dial(c) \/ Trust!KeyRefused(c) \/ Trust!KeyMatches(c)
         \/ Trust!Install(c) \/ Trust!ConnectFails(c)
  PROVE  LET x == trustCall[c] IN
           /\ x.op = "connect"
           /\ \E k : /\ Step(c, k)
                     /\ \/ k = Resting
                        \/ Same(k, x) /\ k.step \in {"tunnel", "open", "dial"}
                        \/ /\ Same(k, x) /\ k.step = "handshake" /\ k.value = x.value
                           /\ Trust!Dial(c)
                        \/ /\ Same(k, x) /\ k.step = "install" /\ k.value = x.value
                           /\ k.old = known[x.id] /\ x.step = "handshake"
<1> DEFINE x == trustCall[c]
<1>1. x \in Locals /\ Shaped(x) /\ CallsTyped
  BY DEF TypeInv, CallsTyped
<1>2. x.op = "connect"
  BY DEF Trust!ReadForConnect, Trust!ReadForTunnel, Trust!TunnelRefused, Trust!TunnelOpened,
         Trust!Dial, Trust!KeyRefused, Trust!KeyMatches, Trust!Install, Trust!ConnectFails, Trust!At
<1>3. ConnectTyped(x) /\ x.id \in Trust!Ids
  BY <1>1, <1>2 DEF Shaped
<1>4. CASE Trust!Returns(c)
  BY <1>2, <1>4, ReturnSteps
<1>5. ASSUME NEW k \in Locals, Same(k, x), ConnectTyped(k), trustCall' = [trustCall EXCEPT ![c] = k]
      PROVE  Step(c, k)
  BY <1>1, <1>2, <1>3, <1>5 DEF Step, Shaped, Same, ConnectTyped
<1>6. CASE Trust!ReadForConnect(c) /\ ~Trust!Returns(c)
  <2> DEFINE k == [x EXCEPT !.step = "tunnel", !.value = profile[x.id]]
  <2>1. profile[x.id] \in Trust!Profiles /\ trustCall' = [trustCall EXCEPT ![c] = k]
    BY <1>3, <1>6 DEF Trust!ReadForConnect, TypeInv, Trust!TypeOK
  <2>2. k \in Locals /\ Same(k, x) /\ k.step = "tunnel" /\ k.value \in Trust!Profiles
    BY <1>1, <2>1 DEF Places, Locals, Same
  <2> QED
    BY <1>2, <1>5, <2>1, <2>2 DEF ConnectTyped
<1>7. CASE Trust!Moves(c, "dial") /\ x.step \in {"tunnel", "open"}
  <2> DEFINE k == [x EXCEPT !.step = "dial"]
  <2>1. k \in Locals /\ Same(k, x) /\ k.step = "dial" /\ k.value = x.value
        /\ trustCall' = [trustCall EXCEPT ![c] = k]
    <3>1. "dial" \in Places
      BY DEF Places
    <3> QED
      BY ONLY <1>1, <1>7, <3>1, c \in Callers, MoveSteps
  <2> QED
    BY <1>2, <1>3, <1>5, <1>7, <2>1 DEF ConnectTyped
<1>8. CASE Trust!ReadForTunnel(c) /\ ~Trust!Returns(c) /\ ~Trust!Moves(c, "dial")
  <2> DEFINE k == [x EXCEPT !.step = "open", !.old = profile[x.id]]
  <2>1. profile[x.id] \in Trust!Profiles /\ trustCall' = [trustCall EXCEPT ![c] = k]
        /\ Trust!Isolated(profile[x.id]) /\ x.step = "tunnel"
    BY <1>3, <1>8 DEF Trust!ReadForTunnel, TypeInv, Trust!TypeOK, Trust!At
  <2>2. k \in Locals /\ Same(k, x) /\ k.step = "open" /\ k.old = profile[x.id] /\ k.value = x.value
    BY <1>1, <2>1 DEF Places, Locals, Same
  <2> QED
    BY <1>2, <1>3, <1>5, <2>1, <2>2 DEF ConnectTyped
<1>9. CASE Trust!Dial(c) /\ ~Trust!Returns(c)
  <2> DEFINE k == [x EXCEPT !.step = "handshake"]
  <2>1. Trust!Moves(c, "handshake") /\ x.step = "dial" /\ "handshake" \in Places
    BY <1>9 DEF Trust!Dial, Trust!At, Places
  <2>2. k \in Locals /\ Same(k, x) /\ k.step = "handshake" /\ k.value = x.value
        /\ trustCall' = [trustCall EXCEPT ![c] = k]
    BY <1>1, <2>1, MoveSteps
  <2> HIDE DEF k
  <2>3. ConnectTyped(k)
    BY <1>2, <1>3, <2>1, <2>2 DEF ConnectTyped
  <2>4. Step(c, k)
    BY ONLY <1>5, <2>2, <2>3
  <2> QED
    BY <1>2, <1>9, <2>2, <2>4
<1>10. CASE Trust!KeyMatches(c)
  <2> DEFINE k == [x EXCEPT !.step = "install", !.old = known[x.id]]
  <2>1. trustCall' = [trustCall EXCEPT ![c] = k] /\ x.step = "handshake"
        /\ known[x.id] = shows[x.value.ssh]
    BY <1>10 DEF Trust!KeyMatches, Trust!At
  <2>2. known[x.id] \in Prints
    BY <1>3, <2>1 DEF ConnectTyped, TypeInv, Trust!Profiles
  <2>3. k \in Locals /\ Same(k, x) /\ k.step = "install" /\ k.value = x.value /\ k.old = known[x.id]
    BY <1>1, <2>2 DEF Places, Locals, Same
  <2> QED
    BY <1>2, <1>3, <1>5, <2>1, <2>2, <2>3 DEF ConnectTyped
<1>11. \/ Trust!Returns(c)
       \/ Trust!ReadForConnect(c) \/ Trust!ReadForTunnel(c) \/ Trust!Dial(c) \/ Trust!KeyMatches(c)
       \/ Trust!Moves(c, "dial") /\ x.step \in {"tunnel", "open"}
  BY DEF Trust!TunnelRefused, Trust!TunnelOpened, Trust!KeyRefused, Trust!Install,
         Trust!ConnectFails, Trust!At
<1>12. Trust!ReadForTunnel(c) => x.step = "tunnel"
  BY DEF Trust!ReadForTunnel, Trust!At
<1> QED
  BY <1>4, <1>6, <1>7, <1>8, <1>9, <1>10, <1>11, <1>12

\* What a Connect leaves in the stores has its type.
LEMMA ConnectTypes ==
  ASSUME TypeInv, NEW c \in Callers,
         \/ Trust!ReadForConnect(c) \/ Trust!ReadForTunnel(c) \/ Trust!TunnelRefused(c)
         \/ Trust!TunnelOpened(c) \/ Trust!Dial(c) \/ Trust!KeyRefused(c) \/ Trust!KeyMatches(c)
         \/ Trust!Install(c) \/ Trust!ConnectFails(c)
  PROVE  TypeInv'
<1> DEFINE x == trustCall[c]
<1>1. x \in Locals /\ Shaped(x) /\ CallsTyped
  BY DEF TypeInv, CallsTyped
<1>2. CallsTyped'
  BY <1>1, ConnectSteps, StepTyped
<1>3. x.op = "connect" /\ ConnectTyped(x) /\ x.id \in Trust!Ids
  BY <1>1, ConnectSteps DEF Shaped
<1>4. ASSUME x.step # "read" PROVE shows[x.value.ssh] \in Prints /\ x.value.ssh \in Sites
  BY <1>3, <1>4 DEF ConnectTyped, TypeInv, Trust!Profiles
<1>5. ASSUME x.step = "open" PROVE shows[x.old.tunnel] \in Prints /\ x.old.tunnel \in Sites
  BY <1>3, <1>5 DEF ConnectTyped, TypeInv, Trust!Profiles, Trust!Isolated
<1> USE DEF TypeInv, Trust!TypeOK, Trust!stores, Trust!At
<1>6. CASE \/ Trust!ReadForConnect(c) \/ Trust!Dial(c) \/ Trust!ConnectFails(c)
  BY <1>2, <1>6 DEF Trust!ReadForConnect, Trust!Dial, Trust!ConnectFails
<1>7. CASE Trust!ReadForTunnel(c)
  BY <1>2, <1>7 DEF Trust!ReadForTunnel
<1>8. CASE Trust!TunnelRefused(c)
  BY <1>2, <1>3, <1>5, <1>8 DEF Trust!TunnelRefused
<1>9. CASE Trust!TunnelOpened(c)
  BY <1>2, <1>5, <1>9 DEF Trust!TunnelOpened
<1>10. CASE Trust!KeyRefused(c)
  BY <1>2, <1>3, <1>4, <1>10 DEF Trust!KeyRefused
<1>11. CASE Trust!KeyMatches(c)
  BY <1>2, <1>11 DEF Trust!KeyMatches
<1>12. CASE Trust!Install(c)
  <2>1. [at |-> x.value.ssh, print |-> x.old] \in Trust!Clients
    BY <1>3, <1>4, <1>12 DEF Trust!Install, ConnectTyped, Trust!Clients
  <2> QED
    BY <1>2, <1>12, <2>1 DEF Trust!Install
<1> QED
  BY <1>6, <1>7, <1>8, <1>9, <1>10, <1>11, <1>12

\* A call begins.
LEMMA BeginSteps ==
  ASSUME TypeInv, NEW c \in Callers, NEW i \in Trust!Ids,
         NEW s \in Sites, NEW t \in Sites \cup {None}, NEW p \in Prints
  PROVE  /\ Trust!BeginConnect(c, i) =>
              \E k : Step(c, k) /\ k.op = "connect" /\ k.id = i /\ k.step = "read"
         /\ Trust!BeginEdit(c, i, s, t) =>
              \E k : /\ Step(c, k) /\ k.op = "edit" /\ k.id = i /\ k.step = "load"
                     /\ k.value.cert = profile[i].cert
         /\ Trust!BeginCopy(c, i, s, t) =>
              \E k : /\ Step(c, k) /\ k.op = "copy" /\ k.id = trustLast + 1 /\ k.step = "load"
                     /\ k.value.cert = None
         /\ Trust!BeginDelete(c, i) =>
              \E k : Step(c, k) /\ k.op = "delete" /\ k.step = "close"
         /\ Trust!BeginAccept(c, i, p) =>
              \E k : Step(c, k) /\ k.op = "accept" /\ k.step = "read" /\ k.from = p
         /\ (\/ Trust!BeginConnect(c, i) \/ Trust!BeginEdit(c, i, s, t) \/ Trust!BeginCopy(c, i, s, t)
             \/ Trust!BeginDelete(c, i) \/ Trust!BeginAccept(c, i, p)) => trustCall[c].op = "none"
<1> USE DEF Trust!Begins, Trust!Resting, Step, Locals, Places, Shaped
<1>1. trustCall[c].step = "idle" => trustCall[c].op = "none"
  BY DEF TypeInv, CallsTyped
<1>2. ASSUME Trust!BeginConnect(c, i)
      PROVE  \E k : Step(c, k) /\ k.op = "connect" /\ k.id = i /\ k.step = "read"
  <2> DEFINE k == [Resting EXCEPT !.op = "connect", !.step = "read", !.id = i]
  <2>1. Step(c, k) /\ k.op = "connect" /\ k.id = i /\ k.step = "read"
    BY <1>2 DEF Trust!BeginConnect, Resting, ConnectTyped
  <2> QED
    BY <2>1
<1>3. ASSUME Trust!BeginEdit(c, i, s, t)
      PROVE  \E k : /\ Step(c, k) /\ k.op = "edit" /\ k.id = i /\ k.step = "load"
                    /\ k.value.cert = profile[i].cert
  <2> DEFINE k == [Resting EXCEPT !.op = "edit", !.step = "load", !.id = i,
                     !.value = [ssh |-> s, tunnel |-> t, cert |-> profile[i].cert]]
  <2>1. [ssh |-> s, tunnel |-> t, cert |-> profile[i].cert] \in Trust!Profiles
    BY <1>3 DEF Trust!BeginEdit, Trust!Profiles, TypeInv, Trust!TypeOK
  <2>2. /\ Step(c, k) /\ k.op = "edit" /\ k.id = i /\ k.step = "load"
        /\ k.value.cert = profile[i].cert
    BY <1>3, <2>1 DEF Trust!BeginEdit, Resting, SaveTyped
  <2> QED
    BY <2>2
<1>4. ASSUME Trust!BeginCopy(c, i, s, t)
      PROVE  \E k : /\ Step(c, k) /\ k.op = "copy" /\ k.id = trustLast + 1 /\ k.step = "load"
                    /\ k.value.cert = None
  <2> DEFINE k == [Resting EXCEPT !.op = "copy", !.step = "load", !.id = trustLast + 1, !.from = i,
                     !.value = [ssh |-> s, tunnel |-> t, cert |-> None]]
  <2>1. [ssh |-> s, tunnel |-> t, cert |-> None] \in Trust!Profiles
    BY DEF Trust!Profiles
  <2>2. trustLast + 1 \in Trust!Ids
    BY <1>4, StoresAssumption DEF Trust!TrustAssumption, Trust!BeginCopy, Trust!Ids, TypeInv, Trust!TypeOK
  <2>3. Step(c, k) /\ k.op = "copy" /\ k.id = trustLast + 1 /\ k.step = "load" /\ k.value.cert = None
    BY <1>4, <2>1, <2>2 DEF Trust!BeginCopy, Resting, SaveTyped
  <2> QED
    BY <2>3
<1>5. ASSUME Trust!BeginDelete(c, i)
      PROVE  \E k : Step(c, k) /\ k.op = "delete" /\ k.step = "close"
  <2> DEFINE k == [Resting EXCEPT !.op = "delete", !.step = "close", !.id = i]
  <2>1. Step(c, k) /\ k.op = "delete" /\ k.step = "close"
    BY <1>5 DEF Trust!BeginDelete, Resting
  <2> QED
    BY <2>1
<1>6. ASSUME Trust!BeginAccept(c, i, p)
      PROVE  \E k : Step(c, k) /\ k.op = "accept" /\ k.step = "read" /\ k.from = p
  <2> DEFINE k == [Resting EXCEPT !.op = "accept", !.step = "read", !.id = i, !.from = p]
  <2>1. Step(c, k) /\ k.op = "accept" /\ k.step = "read" /\ k.from = p
    BY <1>6 DEF Trust!BeginAccept, Resting, AcceptTyped
  <2> QED
    BY <2>1
<1>7. (\/ Trust!BeginConnect(c, i) \/ Trust!BeginEdit(c, i, s, t) \/ Trust!BeginCopy(c, i, s, t)
       \/ Trust!BeginDelete(c, i) \/ Trust!BeginAccept(c, i, p)) => trustCall[c].op = "none"
  BY <1>1 DEF Trust!BeginConnect, Trust!BeginEdit, Trust!BeginCopy, Trust!BeginDelete, Trust!BeginAccept
<1> QED
  BY <1>2, <1>3, <1>4, <1>5, <1>6, <1>7

\* A save goes on, or returns.
LEMMA SaveSteps ==
  ASSUME TypeInv, NEW c \in Callers,
         \/ Trust!LoadForEdit(c) \/ Trust!UpsertEdit(c)
         \/ Trust!LoadForCopy(c) \/ Trust!CopyTrust(c) \/ Trust!UpsertCopy(c)
  PROVE  LET x == trustCall[c] IN
           /\ x.op \in {"edit", "copy"}
           /\ \E k : /\ Step(c, k)
                     /\ \/ k = Resting
                        \/ /\ Same(k, x) /\ k.old = profile[x.id] /\ k.step = "upsert"
                           /\ k.old # None /\ k.value.cert \in {x.value.cert, None}
                           /\ Trust!LoadForEdit(c)
                        \/ /\ Same(k, x) /\ k.old = profile[x.from] /\ k.step = "trust"
                           /\ k.old # None /\ k.value.cert \in {k.old.cert, None}
                           /\ Trust!LoadForCopy(c)
                        \/ /\ Same(k, x) /\ k.value = x.value /\ k.old = x.old
                           /\ \/ k.step = "close" /\ Trust!UpsertEdit(c)
                              \/ k.step = "upsert" /\ Trust!CopyTrust(c)
<1> DEFINE x == trustCall[c]
<1>1. x \in Locals /\ Shaped(x) /\ CallsTyped
  BY DEF TypeInv, CallsTyped
<1>2. /\ x.op \in {"edit", "copy"}
      /\ Trust!LoadForEdit(c) => x.op = "edit" /\ x.step = "load"
      /\ Trust!UpsertEdit(c) => x.op = "edit" /\ x.step = "upsert"
      /\ Trust!LoadForCopy(c) => x.op = "copy" /\ x.step = "load"
      /\ Trust!CopyTrust(c) => x.op = "copy" /\ x.step = "trust"
  BY DEF Trust!LoadForEdit, Trust!UpsertEdit, Trust!LoadForCopy, Trust!CopyTrust,
         Trust!UpsertCopy, Trust!At
<1>3. SaveTyped(x) /\ x.id \in Trust!Ids
  BY <1>1, <1>2 DEF Shaped
<1>4. CASE Trust!Returns(c)
  BY <1>2, <1>4, ReturnSteps
<1>5. ASSUME NEW k \in Locals, Same(k, x), SaveTyped(k), trustCall' = [trustCall EXCEPT ![c] = k]
      PROVE  Step(c, k)
  BY <1>1, <1>2, <1>3, <1>5 DEF Step, Shaped, Same, SaveTyped
<1>6. CASE Trust!LoadForEdit(c) /\ ~Trust!Returns(c)
  <2>1. PICK cert \in {x.value.cert, None} :
          trustCall' = [trustCall EXCEPT ![c].step = "upsert", ![c].old = profile[x.id],
                          ![c].value.cert = cert]
    BY <1>6 DEF Trust!LoadForEdit
  <2> DEFINE k == [x EXCEPT !.step = "upsert", !.old = profile[x.id], !.value.cert = cert]
  <2>2. profile[x.id] \in Trust!Profiles /\ profile[x.id] # None /\ cert \in Prints \cup {None}
    BY <1>3, <1>6, <2>1 DEF Trust!LoadForEdit, TypeInv, Trust!TypeOK, SaveTyped, Trust!Profiles
  <2>3. [x.value EXCEPT !.cert = cert] \in Trust!Profiles
    BY <1>3, <2>2 DEF SaveTyped, Trust!Profiles
  <2>4. k.value = [x.value EXCEPT !.cert = cert] /\ k.value.cert = cert
    BY <1>1, <1>3 DEF Locals, SaveTyped, Trust!Profiles
  <2>5. k \in Locals /\ Same(k, x) /\ k.step = "upsert" /\ k.old = profile[x.id]
    BY <1>1, <2>2, <2>3, <2>4 DEF Locals, Same, Places
  <2>6. trustCall' = [trustCall EXCEPT ![c] = k]
    BY <2>1
  <2>7. k.op = "edit"
    BY <1>2, <1>6, <2>5 DEF Same
  <2> HIDE DEF k
  <2>8. SaveTyped(k)
    BY <2>2, <2>3, <2>4, <2>5, <2>7 DEF SaveTyped
  <2> QED
    BY <1>2, <1>5, <1>6, <2>1, <2>2, <2>4, <2>5, <2>6, <2>8
<1>7. CASE Trust!LoadForCopy(c) /\ ~Trust!Returns(c)
  <2>1. PICK cert \in {profile[x.from].cert, None} :
          trustCall' = [trustCall EXCEPT ![c].step = "trust", ![c].old = profile[x.from],
                          ![c].value.cert = cert]
    BY <1>7 DEF Trust!LoadForCopy
  <2> DEFINE k == [x EXCEPT !.step = "trust", !.old = profile[x.from], !.value.cert = cert]
  <2>2. profile[x.from] \in Trust!Profiles /\ profile[x.from] # None /\ cert \in Prints \cup {None}
    BY <1>2, <1>3, <1>7, <2>1 DEF Trust!LoadForCopy, TypeInv, Trust!TypeOK, SaveTyped, Trust!Profiles
  <2>3. [x.value EXCEPT !.cert = cert] \in Trust!Profiles
    BY <1>3, <2>2 DEF SaveTyped, Trust!Profiles
  <2>4. k.value = [x.value EXCEPT !.cert = cert] /\ k.value.cert = cert
    BY <1>1, <1>3 DEF Locals, SaveTyped, Trust!Profiles
  <2>5. k \in Locals /\ Same(k, x) /\ k.step = "trust" /\ k.old = profile[x.from]
    BY <1>1, <2>2, <2>3, <2>4 DEF Locals, Same, Places
  <2>6. trustCall' = [trustCall EXCEPT ![c] = k]
    BY <2>1
  <2>7. k.op = "copy" /\ k.from \in Trust!Ids
    BY <1>2, <1>3, <1>7, <2>5 DEF Same, SaveTyped
  <2> HIDE DEF k
  <2>8. SaveTyped(k)
    BY <2>2, <2>3, <2>4, <2>5, <2>7 DEF SaveTyped
  <2> QED
    BY <1>2, <1>5, <1>7, <2>1, <2>2, <2>4, <2>5, <2>6, <2>8
<1>8. ASSUME NEW s \in Places, Trust!Moves(c, s),
             (s = "close" /\ Trust!UpsertEdit(c)) \/ (s = "upsert" /\ Trust!CopyTrust(c))
      PROVE  \E k : /\ Step(c, k) /\ Same(k, x) /\ k.value = x.value /\ k.old = x.old
                    /\ \/ k.step = "close" /\ Trust!UpsertEdit(c)
                       \/ k.step = "upsert" /\ Trust!CopyTrust(c)
  <2> DEFINE k == [x EXCEPT !.step = s]
  <2>1. k \in Locals /\ Same(k, x) /\ k.step = s /\ k.value = x.value /\ k.old = x.old
        /\ trustCall' = [trustCall EXCEPT ![c] = k]
    BY <1>1, <1>8, MoveSteps
  <2> HIDE DEF k
  <2>2. SaveTyped(k)
    BY <1>2, <1>3, <1>8, <2>1 DEF SaveTyped, Same
  <2> QED
    BY <1>5, <1>8, <2>1, <2>2
<1>9. \/ Trust!Returns(c) \/ Trust!LoadForEdit(c) \/ Trust!LoadForCopy(c)
      \/ Trust!UpsertEdit(c) /\ Trust!Moves(c, "close")
      \/ Trust!CopyTrust(c) /\ Trust!Moves(c, "upsert")
  BY DEF Trust!UpsertEdit, Trust!CopyTrust, Trust!UpsertCopy
<1>10. {"close", "upsert"} \subseteq Places
  BY DEF Places
<1>11. CASE \/ Trust!UpsertEdit(c) /\ Trust!Moves(c, "close")
            \/ Trust!CopyTrust(c) /\ Trust!Moves(c, "upsert")
  BY <1>2, <1>8, <1>10, <1>11
<1> QED
  BY <1>4, <1>6, <1>7, <1>9, <1>11

LEMMA SaveTypes ==
  ASSUME TypeInv, NEW c \in Callers,
         \/ Trust!LoadForEdit(c) \/ Trust!UpsertEdit(c)
         \/ Trust!LoadForCopy(c) \/ Trust!CopyTrust(c) \/ Trust!UpsertCopy(c)
  PROVE  TypeInv'
<1> DEFINE x == trustCall[c]
<1>1. CallsTyped'
  BY SaveSteps, StepTyped DEF TypeInv
<1>2. x.op \in {"edit", "copy"} /\ Shaped(x)
  BY SaveSteps DEF TypeInv, CallsTyped
<1>3. x.value \in Trust!Profiles /\ x.id \in Trust!Ids /\ (x.op = "copy" => x.from \in Trust!Ids)
  BY <1>2 DEF Shaped, SaveTyped
<1> USE DEF TypeInv, Trust!TypeOK, Trust!stores, Trust!At
<1>4. CASE Trust!LoadForEdit(c) \/ Trust!LoadForCopy(c)
  BY <1>1, <1>4 DEF Trust!LoadForEdit, Trust!LoadForCopy
<1>5. CASE Trust!UpsertEdit(c)
  BY <1>1, <1>3, <1>5 DEF Trust!UpsertEdit
<1>6. CASE Trust!CopyTrust(c)
  BY <1>1, <1>3, <1>6 DEF Trust!CopyTrust
<1>7. CASE Trust!UpsertCopy(c)
  BY <1>1, <1>3, <1>7 DEF Trust!UpsertCopy
<1> QED
  BY <1>4, <1>5, <1>6, <1>7

LEMMA BeginTypes ==
  ASSUME TypeInv, NEW c \in Callers, NEW i \in Trust!Ids,
         NEW s \in Sites, NEW t \in Sites \cup {None}, NEW p \in Prints,
         \/ Trust!BeginConnect(c, i) \/ Trust!BeginEdit(c, i, s, t) \/ Trust!BeginCopy(c, i, s, t)
         \/ Trust!BeginDelete(c, i) \/ Trust!BeginAccept(c, i, p)
  PROVE  TypeInv'
<1>1. CallsTyped'
  BY BeginSteps, StepTyped DEF TypeInv
<1> USE DEF TypeInv, Trust!TypeOK, Trust!stores
<1>2. CASE Trust!BeginCopy(c, i, s, t)
  <2>1. trustLast' \in Trust!Ids
    BY <1>2, StoresAssumption DEF Trust!TrustAssumption, Trust!BeginCopy, Trust!Ids
  <2> QED
    BY <1>1, <1>2, <2>1 DEF Trust!BeginCopy
<1>3. CASE Trust!BeginAccept(c, i, p)
  BY <1>1, <1>3 DEF Trust!BeginAccept
<1>4. CASE Trust!BeginConnect(c, i) \/ Trust!BeginEdit(c, i, s, t) \/ Trust!BeginDelete(c, i)
  BY <1>1, <1>4 DEF Trust!BeginConnect, Trust!BeginEdit, Trust!BeginDelete
<1> QED
  BY <1>2, <1>3, <1>4

\* A confirmation or a deletion goes on, or returns; a store that fails ends a call.
LEMMA OtherSteps ==
  ASSUME TypeInv, NEW c \in Callers,
         \/ Trust!ReadForAccept(c) \/ Trust!CheckPending(c) \/ Trust!UpsertAccept(c)
         \/ Trust!ClearPending(c) \/ Trust!Erase(c) \/ Trust!Forget(c) \/ Trust!StoreFails(c)
  PROVE  LET x == trustCall[c] IN
           /\ x.op \in {"accept", "delete", "edit", "copy"}
           /\ x.op \in {"edit", "copy"} => ~Trust!At(c, "edit", "close")
           /\ \E k : /\ Step(c, k)
                     /\ \/ k = Resting
                        \/ Same(k, x) /\ x.op \in {"accept", "delete"}
<1> DEFINE x == trustCall[c]
<1>1. x \in Locals /\ Shaped(x) /\ CallsTyped
  BY DEF TypeInv, CallsTyped
<1>2. /\ x.op \in {"accept", "delete", "edit", "copy"}
      /\ x.op \in {"edit", "copy"} => Trust!StoreFails(c)
  BY DEF Trust!ReadForAccept, Trust!CheckPending, Trust!UpsertAccept, Trust!ClearPending,
         Trust!Erase, Trust!Forget, Trust!StoreFails, Trust!At
<1>3. Trust!StoreFails(c) => ~Trust!At(c, "edit", "close") /\ Trust!Returns(c)
  BY DEF Trust!StoreFails, Trust!At
<1>4. CASE Trust!Returns(c)
  BY <1>2, <1>3, <1>4, ReturnSteps
<1>5. CASE Trust!ReadForAccept(c) /\ ~Trust!Returns(c)
  <2> DEFINE old == profile[x.id]
             k == [x EXCEPT !.step = "check", !.old = old, !.value = [old EXCEPT !.cert = x.from]]
  <2>1. old \in Trust!Profiles /\ x.op = "accept" /\ x.from \in Prints /\ x.id \in Trust!Ids
        /\ trustCall' = [trustCall EXCEPT ![c] = k]
    BY <1>1, <1>5 DEF Trust!ReadForAccept, Trust!At, Shaped, AcceptTyped, TypeInv, Trust!TypeOK
  <2>2. [old EXCEPT !.cert = x.from] \in Trust!Profiles
    BY <2>1 DEF Trust!Profiles
  <2>3. /\ k \in Locals /\ Same(k, x) /\ k.step = "check" /\ k.old = old
        /\ k.value = [old EXCEPT !.cert = x.from]
    BY <1>1, <2>1, <2>2 DEF Locals, Same, Places
  <2> HIDE DEF k, old
  <2>4. Shaped(k)
    BY <2>1, <2>3 DEF Shaped, AcceptTyped, Same
  <2> QED
    BY <1>2, <2>1, <2>3, <2>4 DEF Step
<1>6. CASE Trust!Moves(c, "upsert") /\ Trust!CheckPending(c)
  <2> DEFINE k == [x EXCEPT !.step = "upsert"]
  <2>1. k \in Locals /\ Same(k, x) /\ k.step = "upsert" /\ k.value = x.value /\ k.old = x.old
        /\ trustCall' = [trustCall EXCEPT ![c] = k]
    BY <1>1, <1>6, MoveSteps DEF Places
  <2> HIDE DEF k
  <2>2. Shaped(k) /\ x.op = "accept"
    BY <1>1, <1>6, <2>1 DEF Shaped, AcceptTyped, Same, Trust!CheckPending, Trust!At
  <2> QED
    BY <1>2, <2>1, <2>2 DEF Step
<1>7. CASE Trust!Moves(c, "clear") /\ Trust!UpsertAccept(c)
  <2> DEFINE k == [x EXCEPT !.step = "clear"]
  <2>1. k \in Locals /\ Same(k, x) /\ k.step = "clear" /\ k.value = x.value /\ k.old = x.old
        /\ trustCall' = [trustCall EXCEPT ![c] = k]
    BY <1>1, <1>7, MoveSteps DEF Places
  <2> HIDE DEF k
  <2>2. Shaped(k) /\ x.op = "accept"
    BY <1>1, <1>7, <2>1 DEF Shaped, AcceptTyped, Same, Trust!UpsertAccept, Trust!At
  <2> QED
    BY <1>2, <2>1, <2>2 DEF Step
<1>8. CASE Trust!Moves(c, "forget") /\ Trust!Erase(c)
  <2> DEFINE k == [x EXCEPT !.step = "forget"]
  <2>1. k \in Locals /\ Same(k, x) /\ k.step = "forget" /\ k.value = x.value /\ k.old = x.old
        /\ trustCall' = [trustCall EXCEPT ![c] = k]
    BY <1>1, <1>8, MoveSteps DEF Places
  <2> HIDE DEF k
  <2>2. Shaped(k) /\ x.op = "delete"
    BY <1>1, <1>8, <2>1 DEF Shaped, Same, Trust!Erase, Trust!At
  <2> QED
    BY <1>2, <2>1, <2>2 DEF Step
<1>9. \/ Trust!Returns(c) \/ Trust!ReadForAccept(c)
      \/ Trust!Moves(c, "upsert") /\ Trust!CheckPending(c)
      \/ Trust!Moves(c, "clear") /\ Trust!UpsertAccept(c)
      \/ Trust!Moves(c, "forget") /\ Trust!Erase(c)
  BY <1>3 DEF Trust!CheckPending, Trust!UpsertAccept, Trust!ClearPending, Trust!Erase, Trust!Forget
<1> QED
  BY <1>4, <1>5, <1>6, <1>7, <1>8, <1>9

LEMMA OtherTypes ==
  ASSUME TypeInv, NEW c \in Callers,
         \/ Trust!ReadForAccept(c) \/ Trust!CheckPending(c) \/ Trust!UpsertAccept(c)
         \/ Trust!ClearPending(c) \/ Trust!Erase(c) \/ Trust!Forget(c) \/ Trust!StoreFails(c)
  PROVE  TypeInv'
<1> DEFINE x == trustCall[c]
<1>1. CallsTyped'
  <2>1. PICK k : Step(c, k)
    BY OtherSteps
  <2> QED
    BY <2>1, StepTyped DEF TypeInv
<1>2. Shaped(x)
  BY DEF TypeInv, CallsTyped
<1> USE DEF TypeInv, Trust!TypeOK, Trust!stores, Trust!At
<1>3. CASE Trust!ReadForAccept(c) \/ Trust!CheckPending(c) \/ Trust!StoreFails(c)
  BY <1>1, <1>3 DEF Trust!ReadForAccept, Trust!CheckPending, Trust!StoreFails
<1>4. CASE Trust!UpsertAccept(c)
  <2>1. x.value \in Trust!Profiles /\ x.id \in Trust!Ids
    BY <1>2, <1>4 DEF Trust!UpsertAccept, Shaped, AcceptTyped, Trust!Profiles
  <2> QED
    BY <1>1, <1>4, <2>1 DEF Trust!UpsertAccept
<1>5. CASE Trust!ClearPending(c)
  BY <1>1, <1>5 DEF Trust!ClearPending
<1>6. CASE Trust!Erase(c)
  BY <1>1, <1>6 DEF Trust!Erase
<1>7. CASE Trust!Forget(c)
  BY <1>1, <1>7 DEF Trust!Forget
<1> QED
  BY <1>3, <1>4, <1>5, <1>6, <1>7

\* Cut tells every Connect of the profile and nobody else.
LEMMA CutSteps ==
  ASSUME TypeInv, NEW i \in Trust!Ids, NEW c \in Callers, trustCall[c].op # "connect",
         NEW k \in Locals, Shaped(k), k.op # "connect",
         Trust!Cut(i, [trustCall EXCEPT ![c] = k])
  PROVE  /\ CallsTyped' /\ trustCall'[c] = k
         /\ live' = [live EXCEPT ![i] = None] /\ link' \in [Trust!Ids -> Sites \cup {None}]
         /\ \A d \in Callers \ {c} : LET x == trustCall[d] IN
              IF x.op = "connect" /\ x.id = i THEN trustCall'[d] = [x EXCEPT !.cut = TRUE]
              ELSE trustCall'[d] = x
<1> DEFINE Told(d) == [trustCall[d] EXCEPT !.cut = TRUE]
<1>1. /\ trustCall'[c] = k
      /\ \A d \in Callers \ {c} :
           IF trustCall[d].op = "connect" /\ trustCall[d].id = i THEN trustCall'[d] = Told(d)
           ELSE trustCall'[d] = trustCall[d]
      /\ \E f : trustCall' = [d \in Callers |-> f[d]]
  <2> DEFINE f == [d \in Callers |->
               IF trustCall[d].op = "connect" /\ trustCall[d].id = i THEN Told(d)
               ELSE [trustCall EXCEPT ![c] = k][d]]
  <2>1. trustCall' = f /\ trustCall' = [d \in Callers |-> f[d]]
    BY DEF Trust!Cut
  <2>2. \A d \in Callers : [trustCall EXCEPT ![c] = k][d] = IF d = c THEN k ELSE trustCall[d]
    BY DEF TypeInv, CallsTyped
  <2> QED
    BY <2>1, <2>2
<1>2. ASSUME NEW d \in Callers PROVE trustCall'[d] \in Locals /\ Shaped(trustCall'[d])
  <2>1. trustCall[d] \in Locals /\ Shaped(trustCall[d])
    BY DEF TypeInv, CallsTyped
  <2>2. CASE d # c /\ trustCall[d].op = "connect" /\ trustCall[d].id = i
    <3> DEFINE x == trustCall[d]
               y == trustCall'[d]
    <3>1. y = [x EXCEPT !.cut = TRUE]
      BY <1>1, <2>2
    <3>2. y \in Locals /\ y.op = x.op /\ y.step = x.step /\ y.id = x.id /\ y.value = x.value
          /\ y.old = x.old
      BY <2>1, <3>1 DEF Locals
    <3> QED
      BY <2>1, <2>2, <3>2 DEF Shaped, ConnectTyped
  <2> QED
    BY <1>1, <2>1, <2>2
<1>3. CallsTyped'
  BY <1>1, <1>2 DEF CallsTyped
<1> QED
  BY <1>1, <1>3 DEF Trust!Cut, TypeInv, Trust!TypeOK

-----------------------------------------------------------------------------
(* Every step keeps what was confirmed                                     *)

LEMMA CallStaysConfirmed ==
  ASSUME CallsTyped, CallsConfirmed, approved \subseteq approved',
         NEW c \in Callers, NEW k, Step(c, k), CallConfirmed(k)'
  PROVE  CallsConfirmed'
BY StepTyped DEF CallsConfirmed, CallConfirmed, Confirmed

LEMMA RestingConfirmed == CallConfirmed(Resting) /\ CallConfirmed(Resting)'
BY RestingTyped DEF CallConfirmed, Resting, Trust!Resting

LEMMA ConnectConfirmed ==
  ASSUME TypeInv, Trust!OnlyConfirmedServers, CallsConfirmed, NEW c \in Callers,
         \/ Trust!ReadForConnect(c) \/ Trust!ReadForTunnel(c) \/ Trust!TunnelRefused(c)
         \/ Trust!TunnelOpened(c) \/ Trust!Dial(c) \/ Trust!KeyRefused(c) \/ Trust!KeyMatches(c)
         \/ Trust!Install(c) \/ Trust!ConnectFails(c)
  PROVE  Trust!OnlyConfirmedServers' /\ CallsConfirmed'
<1> DEFINE x == trustCall[c]
<1>1. UNCHANGED <<profile, known, approved>>
  BY DEF Trust!ReadForConnect, Trust!ReadForTunnel, Trust!TunnelRefused, Trust!TunnelOpened,
         Trust!Dial, Trust!KeyRefused, Trust!KeyMatches, Trust!Install, Trust!ConnectFails,
         Trust!stores
<1>2. x.op = "connect" /\ Shaped(x) /\ x.id \in Trust!Ids
  BY ConnectSteps DEF TypeInv, CallsTyped, Shaped
<1>3. PICK k : /\ Step(c, k)
               /\ \/ k = Resting
                  \/ k.op = "connect" /\ k.step # "install"
                  \/ k.op = "connect" /\ k.step = "install" /\ k.old = known[x.id]
  BY <1>2, ConnectSteps DEF Same
<1>4. CallConfirmed(k)'
  <2>1. k.op = "connect" /\ k.step = "install" => k.old \in Prints /\ k.old = known[x.id]
    BY <1>3, RestingTyped DEF Step, Shaped, ConnectTyped
  <2>2. k.op = "connect" /\ k.step = "install" => k.old \in approved
    BY <1>2, <2>1, StoresAssumption DEF Trust!OnlyConfirmedServers, Trust!TrustAssumption
  <2>3. k.op \in {"connect", "none"}
    BY <1>3, RestingTyped
  <2> QED
    BY <1>1, <2>2, <2>3 DEF CallConfirmed
<1>5. CallsConfirmed'
  BY <1>1, <1>3, <1>4, CallStaysConfirmed DEF TypeInv
<1>6. \/ live' = live
      \/ live' = [live EXCEPT ![x.id] = [at |-> x.value.ssh, print |-> x.old]] /\ x.step = "install"
  BY DEF Trust!ReadForConnect, Trust!ReadForTunnel, Trust!TunnelRefused, Trust!TunnelOpened,
         Trust!Dial, Trust!KeyRefused, Trust!KeyMatches, Trust!Install, Trust!ConnectFails, Trust!At
<1>7. x.step = "install" => x.old \in approved
  BY <1>2 DEF CallsConfirmed, CallConfirmed
<1>8. Trust!OnlyConfirmedServers'
  <2>1. live \in [Trust!Ids -> Trust!Clients \cup {None}]
    BY DEF TypeInv, Trust!TypeOK
  <2>2. ASSUME NEW i \in Trust!Ids, live'[i] # None PROVE live'[i].print \in approved
    BY <1>6, <1>7, <2>1, <2>2 DEF Trust!OnlyConfirmedServers
  <2> QED
    BY <1>1, <2>2 DEF Trust!OnlyConfirmedServers
<1> QED
  BY <1>5, <1>8

LEMMA BeginConfirmed ==
  ASSUME TypeInv, Trust!OnlyConfirmedServers, CallsConfirmed, NEW c \in Callers, NEW i \in Trust!Ids,
         NEW s \in Sites, NEW t \in Sites \cup {None}, NEW p \in Prints,
         \/ Trust!BeginConnect(c, i) \/ Trust!BeginEdit(c, i, s, t) \/ Trust!BeginCopy(c, i, s, t)
         \/ Trust!BeginDelete(c, i) \/ Trust!BeginAccept(c, i, p)
  PROVE  Trust!OnlyConfirmedServers' /\ CallsConfirmed'
<1>1. UNCHANGED <<profile, known, live>> /\ approved \subseteq approved'
  BY DEF Trust!BeginConnect, Trust!BeginEdit, Trust!BeginCopy, Trust!BeginDelete,
         Trust!BeginAccept, Trust!stores
<1>2. Trust!OnlyConfirmedServers'
  BY <1>1 DEF Trust!OnlyConfirmedServers
<1>3. CASE Trust!BeginEdit(c, i, s, t)
  <2>1. PICK k : Step(c, k) /\ k.op = "edit" /\ k.value.cert = profile[i].cert
    BY <1>3, BeginSteps
  <2>2. profile[i] # None
    BY <1>3 DEF Trust!BeginEdit
  <2>3. CallConfirmed(k)'
    BY <1>1, <2>1, <2>2 DEF CallConfirmed, Confirmed, Trust!OnlyConfirmedServers
  <2> QED
    BY <1>1, <1>2, <2>1, <2>3, CallStaysConfirmed DEF TypeInv
<1>4. CASE Trust!BeginAccept(c, i, p)
  <2>1. PICK k : Step(c, k) /\ k.op = "accept" /\ k.from = p
    BY <1>4, BeginSteps
  <2>2. p \in approved'
    BY <1>4 DEF Trust!BeginAccept
  <2>3. CallConfirmed(k)'
    BY <2>1, <2>2 DEF CallConfirmed
  <2> QED
    BY <1>1, <1>2, <2>1, <2>3, CallStaysConfirmed DEF TypeInv
<1>5. CASE Trust!BeginConnect(c, i) \/ Trust!BeginCopy(c, i, s, t) \/ Trust!BeginDelete(c, i)
  <2>1. PICK k : /\ Step(c, k)
                 /\ \/ k.op = "connect" /\ k.step = "read"
                    \/ k.op = "delete"
                    \/ k.op = "copy" /\ k.value.cert = None
    BY <1>5, BeginSteps
  <2>2. CallConfirmed(k)'
    BY <2>1 DEF CallConfirmed, Confirmed
  <2> QED
    BY <1>1, <1>2, <2>1, <2>2, CallStaysConfirmed DEF TypeInv
<1> QED
  BY <1>3, <1>4, <1>5

LEMMA SaveConfirmed ==
  ASSUME TypeInv, Trust!OnlyConfirmedServers, CallsConfirmed, NEW c \in Callers,
         \/ Trust!LoadForEdit(c) \/ Trust!UpsertEdit(c)
         \/ Trust!LoadForCopy(c) \/ Trust!CopyTrust(c) \/ Trust!UpsertCopy(c)
  PROVE  Trust!OnlyConfirmedServers' /\ CallsConfirmed'
<1> DEFINE x == trustCall[c]
<1>1. UNCHANGED <<live, approved>>
  BY DEF Trust!LoadForEdit, Trust!UpsertEdit, Trust!LoadForCopy, Trust!CopyTrust,
         Trust!UpsertCopy, Trust!stores
<1>2. x.op \in {"edit", "copy"} /\ SaveTyped(x) /\ x.id \in Trust!Ids /\ x.value.cert \in Confirmed
  <2>1. x.op \in {"edit", "copy"}
    BY SaveSteps
  <2> QED
    BY <2>1 DEF TypeInv, CallsTyped, Shaped, CallsConfirmed, CallConfirmed
<1>3. PICK k : /\ Step(c, k)
               /\ \/ k = Resting
                  \/ k.op = x.op /\ k.value.cert \in {x.value.cert, None}
                  \/ /\ k.op = "copy" /\ k.value.cert \in {profile[x.from].cert, None}
                     /\ profile[x.from] # None /\ x.op = "copy"
  <2>1. Trust!LoadForCopy(c) => x.op = "copy"
    BY DEF Trust!LoadForCopy, Trust!At
  <2> QED
    BY <1>2, <2>1, SaveSteps DEF Same
<1>4. CallConfirmed(k)'
  <2>1. CASE k = Resting
    BY <2>1, RestingConfirmed DEF CallConfirmed
  <2>2. CASE k.op = x.op /\ k.value.cert \in {x.value.cert, None}
    BY <1>1, <1>2, <2>2 DEF CallConfirmed, Confirmed
  <2>3. CASE k.op = "copy" /\ k.value.cert \in {profile[x.from].cert, None}
             /\ profile[x.from] # None /\ x.op = "copy"
    <3>1. profile[x.from].cert \in Confirmed
      BY <1>2, <2>3 DEF SaveTyped, Trust!OnlyConfirmedServers, Confirmed
    <3> QED
      BY <1>1, <2>3, <3>1 DEF CallConfirmed, Confirmed
  <2> QED
    BY <1>3, <2>1, <2>2, <2>3
<1>5. CallsConfirmed'
  BY <1>1, <1>3, <1>4, CallStaysConfirmed DEF TypeInv
<1>6. \/ profile' = profile
      \/ profile' = [profile EXCEPT ![x.id] = x.value]
  BY DEF Trust!LoadForEdit, Trust!UpsertEdit, Trust!LoadForCopy, Trust!CopyTrust,
         Trust!UpsertCopy, Trust!stores
<1>7. \/ known' = known \/ known' = [known EXCEPT ![x.id] = None]
      \/ known' = [known EXCEPT ![x.id] = known[x.from]] /\ x.op = "copy"
  BY DEF Trust!LoadForEdit, Trust!UpsertEdit, Trust!LoadForCopy, Trust!CopyTrust,
         Trust!UpsertCopy, Trust!stores, Trust!At
<1>8. Trust!OnlyConfirmedServers'
  <2>1. x.op = "copy" => known[x.from] \in approved \cup {None}
    BY <1>2 DEF SaveTyped, Trust!OnlyConfirmedServers
  <2>2. \A i \in Trust!Ids : known'[i] \in approved \cup {None}
    BY <1>7, <2>1 DEF Trust!OnlyConfirmedServers, TypeInv, Trust!TypeOK
  <2>3. \A i \in Trust!Ids : profile'[i] # None => profile'[i].cert \in approved \cup {None}
    BY <1>2, <1>6 DEF Trust!OnlyConfirmedServers, TypeInv, Trust!TypeOK, Confirmed
  <2> QED
    BY <1>1, <2>2, <2>3 DEF Trust!OnlyConfirmedServers
<1> QED
  BY <1>5, <1>8

LEMMA OtherConfirmed ==
  ASSUME TypeInv, Trust!OnlyConfirmedServers, CallsConfirmed, NEW c \in Callers,
         \/ Trust!ReadForAccept(c) \/ Trust!CheckPending(c) \/ Trust!UpsertAccept(c)
         \/ Trust!ClearPending(c) \/ Trust!Erase(c) \/ Trust!Forget(c) \/ Trust!StoreFails(c)
  PROVE  Trust!OnlyConfirmedServers' /\ CallsConfirmed'
<1> DEFINE x == trustCall[c]
<1>1. UNCHANGED <<live, approved>>
  BY DEF Trust!ReadForAccept, Trust!CheckPending, Trust!UpsertAccept, Trust!ClearPending,
         Trust!Erase, Trust!Forget, Trust!StoreFails, Trust!stores
<1>2. PICK k : /\ Step(c, k)
               /\ k = Resting \/ (Same(k, x) /\ x.op \in {"accept", "delete"})
  BY OtherSteps
<1>3. Shaped(x) /\ CallConfirmed(x) /\ x.op # "none"
  BY OtherSteps DEF TypeInv, CallsTyped, CallsConfirmed
<1>4. CallConfirmed(k)'
  <2>1. CASE k = Resting
    BY <2>1, RestingConfirmed DEF CallConfirmed
  <2>2. CASE Same(k, x) /\ x.op \in {"accept", "delete"}
    BY <1>1, <1>3, <2>2 DEF CallConfirmed, Same
  <2> QED
    BY <1>2, <2>1, <2>2
<1>5. CallsConfirmed'
  BY <1>1, <1>2, <1>4, CallStaysConfirmed DEF TypeInv
<1>6. \/ profile' = profile \/ profile' = [profile EXCEPT ![x.id] = None]
      \/ profile' = [profile EXCEPT ![x.id] = x.value] /\ x.op = "accept" /\ x.step = "upsert"
  BY DEF Trust!ReadForAccept, Trust!CheckPending, Trust!UpsertAccept, Trust!ClearPending,
         Trust!Erase, Trust!Forget, Trust!StoreFails, Trust!stores, Trust!At
<1>7. known' = known \/ known' = [known EXCEPT ![x.id] = None]
  BY DEF Trust!ReadForAccept, Trust!CheckPending, Trust!UpsertAccept, Trust!ClearPending,
         Trust!Erase, Trust!Forget, Trust!StoreFails, Trust!stores
<1>8. Trust!OnlyConfirmedServers'
  <2>1. x.op = "accept" /\ x.step = "upsert" => x.value.cert \in approved /\ x.id \in Trust!Ids
    BY <1>3 DEF Shaped, AcceptTyped, CallConfirmed, Trust!Profiles
  <2>2. \A i \in Trust!Ids : known'[i] \in approved \cup {None}
    BY <1>7 DEF Trust!OnlyConfirmedServers, TypeInv, Trust!TypeOK
  <2>3. \A i \in Trust!Ids : profile'[i] # None => profile'[i].cert \in approved \cup {None}
    BY <1>6, <2>1 DEF Trust!OnlyConfirmedServers, TypeInv, Trust!TypeOK
  <2> QED
    BY <1>1, <2>2, <2>3 DEF Trust!OnlyConfirmedServers
<1> QED
  BY <1>5, <1>8

\* The user's decision on a key, a server that changes, a connection that is lost.
LEMMA WorldKeeps ==
  ASSUME TypeInv, Trust!OnlyConfirmedServers, CallsConfirmed,
         \/ \E i \in Trust!Ids, p \in Prints : Trust!AcceptKey(i, p)
         \/ \E s \in Sites : Trust!ServerChanges(s)
         \/ \E i \in Trust!Ids : Trust!ConnectionLost(i)
  PROVE  TypeInv' /\ Trust!OnlyConfirmedServers' /\ CallsConfirmed'
<1> USE DEF TypeInv, Trust!TypeOK, Trust!stores
<1>1. UNCHANGED trustCall /\ approved \subseteq approved'
  BY DEF Trust!AcceptKey, Trust!ServerChanges, Trust!ConnectionLost
<1>2. CallsTyped' /\ CallsConfirmed'
  BY <1>1 DEF CallsTyped, CallsConfirmed, CallConfirmed, Confirmed
<1>3. ASSUME NEW i \in Trust!Ids, NEW p \in Prints, Trust!AcceptKey(i, p)
      PROVE  TypeInv' /\ Trust!OnlyConfirmedServers'
  BY <1>2, <1>3 DEF Trust!AcceptKey, Trust!OnlyConfirmedServers
<1>4. ASSUME NEW s \in Sites, Trust!ServerChanges(s)
      PROVE  TypeInv' /\ Trust!OnlyConfirmedServers'
  BY <1>2, <1>4 DEF Trust!ServerChanges, Trust!OnlyConfirmedServers
<1>5. ASSUME NEW i \in Trust!Ids, Trust!ConnectionLost(i)
      PROVE  TypeInv' /\ Trust!OnlyConfirmedServers'
  BY <1>2, <1>5 DEF Trust!ConnectionLost, Trust!OnlyConfirmedServers
<1> QED
  BY <1>2, <1>3, <1>4, <1>5

\* The two steps that cut a profile.
LEMMA CuttingSteps ==
  ASSUME TypeInv, NEW c \in Callers, Trust!CloseAfterEdit(c) \/ Trust!CloseForDelete(c)
  PROVE  LET i == trustCall[c].id IN
           /\ i \in Trust!Ids /\ trustCall[c].op \in {"edit", "delete"}
           /\ UNCHANGED <<trustLast, profile, known, shows, told, approved, reverted, pending, pendingCert>>
           /\ CallsTyped' /\ trustCall'[c].op \in {"none", "delete"}
           /\ live' = [live EXCEPT ![i] = None] /\ link' \in [Trust!Ids -> Sites \cup {None}]
           /\ \A d \in Callers \ {c} : LET x == trustCall[d] IN
                IF x.op = "connect" /\ x.id = i THEN trustCall'[d] = [x EXCEPT !.cut = TRUE]
                ELSE trustCall'[d] = x
<1> DEFINE x == trustCall[c]
<1>1. /\ x.op \in {"edit", "delete"} /\ x \in Locals /\ Shaped(x) /\ x.id \in Trust!Ids
      /\ Trust!CloseForDelete(c) => x.op = "delete"
  BY DEF Trust!CloseAfterEdit, Trust!CloseForDelete, Trust!At, TypeInv, CallsTyped, Shaped
<1>2. UNCHANGED <<trustLast, profile, known, shows, told, approved, reverted, pending, pendingCert>>
  BY DEF Trust!CloseAfterEdit, Trust!CloseForDelete, Trust!stores
<1>3. PICK k \in Locals : /\ Shaped(k) /\ k.op \in {"none", "delete"}
                          /\ Trust!Cut(x.id, [trustCall EXCEPT ![c] = k])
  <2>1. CASE Trust!CloseAfterEdit(c)
    BY <2>1, RestingTyped DEF Trust!CloseAfterEdit, Resting
  <2>2. CASE Trust!CloseForDelete(c)
    <3> DEFINE k == [x EXCEPT !.step = "erase"]
    <3>1. k \in Locals /\ Same(k, x) /\ k.step = "erase"
      BY <1>1 DEF Locals, Same, Places
    <3>2. Trust!Cut(x.id, [trustCall EXCEPT ![c] = k])
      BY <2>2 DEF Trust!CloseForDelete
    <3> HIDE DEF k
    <3>3. Shaped(k) /\ k.op = "delete"
      BY <1>1, <2>2, <3>1 DEF Shaped, Same
    <3> QED
      BY <3>1, <3>2, <3>3
  <2> QED
    BY <2>1, <2>2
<1>4. x.op # "connect" /\ k.op # "connect"
  BY <1>1, <1>3
<1> QED
  BY <1>1, <1>2, <1>3, <1>4, CutSteps

LEMMA CuttingKeeps ==
  ASSUME TypeInv, Trust!OnlyConfirmedServers, CallsConfirmed,
         NEW c \in Callers, Trust!CloseAfterEdit(c) \/ Trust!CloseForDelete(c)
  PROVE  TypeInv' /\ Trust!OnlyConfirmedServers' /\ CallsConfirmed'
<1> DEFINE i == trustCall[c].id
<1>1. /\ i \in Trust!Ids /\ CallsTyped' /\ trustCall'[c].op \in {"none", "delete"}
      /\ UNCHANGED <<trustLast, profile, known, shows, told, approved, pending, pendingCert>>
      /\ live' = [live EXCEPT ![i] = None] /\ link' \in [Trust!Ids -> Sites \cup {None}]
  BY CuttingSteps
<1>2. ASSUME NEW d \in Callers PROVE CallConfirmed(trustCall'[d])
  <2>1. CASE d = c
    BY <1>1, <2>1 DEF CallConfirmed
  <2>2. CASE d # c
    <3>1. trustCall'[d] = trustCall[d] \/ trustCall'[d] = [trustCall[d] EXCEPT !.cut = TRUE]
      BY <2>2, CuttingSteps
    <3>2. trustCall[d] \in Locals /\ CallConfirmed(trustCall[d])
      BY DEF TypeInv, CallsTyped, CallsConfirmed
    <3> QED
      BY <3>1, <3>2 DEF CallConfirmed, Locals
  <2> QED
    BY <2>1, <2>2
<1>3. CallsConfirmed'
  BY <1>1, <1>2 DEF CallsConfirmed, CallConfirmed, Confirmed
<1>4. TypeInv'
  BY <1>1 DEF TypeInv, Trust!TypeOK
<1>5. Trust!OnlyConfirmedServers'
  BY <1>1 DEF Trust!OnlyConfirmedServers, TypeInv, Trust!TypeOK
<1> QED
  BY <1>3, <1>4, <1>5

-----------------------------------------------------------------------------
(* Every step leaves connections leading to what is stored                 *)

\* Leads, of the next state.
WillLead(i, site) ==
  /\ live'[i] # None => live'[i].at = site
  /\ \A c \in Callers : LET k == trustCall'[c] IN
       k.op = "connect" /\ k.id = i /\ k.step \in {"handshake", "install"} /\ ~k.cut =>
         k.value.ssh = site

\* The caller's locals put no connection in the way of a site.
Harmless(k, i, site) ==
  k.op = "connect" /\ k.id = i /\ k.step \in {"handshake", "install"} /\ ~k.cut => k.value.ssh = site

LEMMA StillLeads ==
  ASSUME CallsTyped, NEW c \in Callers, NEW k, Step(c, k), NEW i, NEW site, Leads(i, site),
         live'[i] \in {None, live[i]} \/ live'[i].at = site, Harmless(k, i, site)
  PROVE  WillLead(i, site)
BY StepTyped DEF Leads, WillLead, Harmless

\* Who is saving, when a step begins no call and does not cut.
LEMMA StillSaving ==
  ASSUME CallsTyped, NEW c \in Callers, NEW k, Step(c, k), ~Trust!At(c, "edit", "close")
  PROVE  \A i : Trust!Saving(i) => Trust!Saving(i)'
BY StepTyped DEF Trust!Saving, Trust!At

\* The forms and the identities, when a call goes on or returns.
LEMMA FormsKept ==
  ASSUME TypeInv, OneForm, NEW c \in Callers, NEW k, Step(c, k), trustLast' = trustLast,
         \/ k.op \notin {"edit", "copy"}
         \/ k.op = trustCall[c].op /\ k.id = trustCall[c].id
  PROVE  OneForm' /\ \A i : Fresh(i)' => Fresh(i)
<1>1. \A d \in Callers : trustCall'[d] = IF d = c THEN k ELSE trustCall[d]
  BY StepTyped DEF TypeInv
<1> QED
  BY <1>1 DEF OneForm, Fresh

\* A step that changes no connection, and of the profiles that were not reverted
\* no SSH address.
LEMMA QuietStep ==
  ASSUME TypeInv, LeadsInv, NEW c \in Callers, NEW k, Step(c, k),
         UNCHANGED <<trustLast, live>>, reverted \subseteq reverted',
         \A i \in Trust!Ids \ reverted' :
           profile'[i] # None => profile[i] # None /\ profile'[i].ssh = profile[i].ssh,
         ~Trust!At(c, "edit", "close"), ~(k.op = "edit" /\ k.step = "close"),
         k.op # "none" => k.op = trustCall[c].op /\ k.id = trustCall[c].id,
         k.op = "edit" /\ k.step = "upsert" => k.old = profile[k.id] /\ k.old # None /\ profile' = profile,
         \A site : Leads(k.id, site) /\ (profile[k.id] # None => profile[k.id].ssh = site) =>
                     Harmless(k, k.id, site)
  PROVE  LeadsInv'
<1> DEFINE x == trustCall[c]
<1>1. CallsTyped /\ \A d \in Callers : trustCall'[d] = IF d = c THEN k ELSE trustCall[d]
  BY StepTyped DEF TypeInv
<1>2. ASSUME NEW i, NEW site, Leads(i, site), profile[i] # None => profile[i].ssh = site
      PROVE  WillLead(i, site)
  <2>1. Harmless(k, i, site)
    BY <1>2 DEF Harmless
  <2> QED
    BY <1>1, <1>2, <2>1, StillLeads
<1>3. OneForm' /\ \A i : Fresh(i)' => Fresh(i)
  BY FormsKept DEF LeadsInv
<1>4. FreshIsUnused'
  BY <1>1, <1>3 DEF LeadsInv, FreshIsUnused
<1>5. \A i : Trust!Saving(i) => Trust!Saving(i)'
  BY <1>1, StillSaving
<1>6. SavedIsFollowed'
  <2> SUFFICES ASSUME NEW i \in Trust!Ids \ reverted', profile'[i] # None, ~Trust!Saving(i)'
               PROVE  WillLead(i, profile'[i].ssh)
    BY DEF SavedIsFollowed, Leads, WillLead
  <2> QED
    BY <1>2, <1>5 DEF LeadsInv, SavedIsFollowed
<1>7. EditIsAlone'
  <2> SUFFICES ASSUME NEW d \in Callers, trustCall'[d].op = "edit", trustCall'[d].step = "upsert",
                      trustCall'[d].id \notin reverted'
               PROVE  LET y == trustCall'[d] IN
                        /\ profile'[y.id] # None => profile'[y.id].ssh = y.old.ssh
                        /\ WillLead(y.id, y.old.ssh)
    BY DEF EditIsAlone, Trust!At, Leads, WillLead
  <2>1. CASE d # c
    <3>1. trustCall[d].op = "edit" => trustCall[d].id \in Trust!Ids
      BY DEF TypeInv, CallsTyped, Shaped
    <3> QED
      BY <1>1, <1>2, <2>1, <3>1 DEF LeadsInv, EditIsAlone, Trust!At
  <2>2. CASE d = c
    <3>1. k.op = "edit" /\ k.step = "upsert" /\ k.id = x.id /\ x.op = "edit"
          /\ k.old = profile[k.id] /\ k.old # None /\ k.id \in Trust!Ids \ reverted
          /\ profile' = profile
      BY <1>1, <2>2 DEF Step, Shaped
    <3>2. ~Trust!Saving(k.id)
      BY <3>1 DEF Trust!Saving, Trust!At, LeadsInv, OneForm
    <3>3. Leads(k.id, profile[k.id].ssh)
      BY <3>1, <3>2 DEF LeadsInv, SavedIsFollowed
    <3> QED
      BY <1>1, <1>2, <2>2, <3>1, <3>3
  <2> QED
    BY <2>1, <2>2
<1> QED
  BY <1>3, <1>4, <1>6, <1>7 DEF LeadsInv

LEMMA ConnectLeads ==
  ASSUME TypeInv, LeadsInv, NEW c \in Callers,
         \/ Trust!ReadForConnect(c) \/ Trust!ReadForTunnel(c) \/ Trust!TunnelRefused(c)
         \/ Trust!TunnelOpened(c) \/ Trust!Dial(c) \/ Trust!KeyRefused(c) \/ Trust!KeyMatches(c)
         \/ Trust!ConnectFails(c)
  PROVE  LeadsInv'
<1> DEFINE x == trustCall[c]
<1>1. UNCHANGED <<trustLast, profile, live, reverted>>
  BY DEF Trust!ReadForConnect, Trust!ReadForTunnel, Trust!TunnelRefused, Trust!TunnelOpened,
         Trust!Dial, Trust!KeyRefused, Trust!KeyMatches, Trust!ConnectFails, Trust!stores
<1>2. x.op = "connect"
  BY ConnectSteps
<1>3. PICK k : /\ Step(c, k)
               /\ \/ k = Resting
                  \/ Same(k, x) /\ k.step \in {"tunnel", "open", "dial"}
                  \/ Same(k, x) /\ k.step = "handshake" /\ k.value = x.value /\ Trust!Dial(c)
                  \/ Same(k, x) /\ k.step = "install" /\ k.value = x.value /\ x.step = "handshake"
  BY ConnectSteps
<1>4. \/ k = Resting /\ k.op = "none"
      \/ Same(k, x) /\ k.op = "connect" /\ k.id = x.id /\ k.cut = x.cut
  BY <1>2, <1>3, RestingTyped DEF Same
<1>5. ASSUME NEW site, Leads(k.id, site), profile[k.id] # None => profile[k.id].ssh = site
      PROVE  Harmless(k, k.id, site)
  <2>1. CASE k.op = "none" \/ k.step \in {"tunnel", "open", "dial"}
    BY <2>1 DEF Harmless
  <2>2. CASE Same(k, x) /\ k.step = "handshake" /\ k.value = x.value /\ Trust!Dial(c)
    <3>1. Same(k, x) /\ k.id = x.id
      BY <2>2 DEF Same
    <3>2. ~Trust!Returns(c)
      <4>1. trustCall'[c] = k /\ k.step # "idle"
        BY <1>3, <2>2, StepTyped DEF TypeInv
      <4>2. Trust!Returns(c) => trustCall'[c].step = "idle"
        BY RestingTyped, ReturnSteps, StepTyped DEF TypeInv
      <4> QED
        BY <4>1, <4>2
    <3>3. profile[x.id] # None /\ profile[x.id].ssh = x.value.ssh
      BY <2>2, <3>2 DEF Trust!Dial
    <3> QED
      BY <1>5, <2>2, <3>1, <3>3 DEF Harmless
  <2>3. CASE Same(k, x) /\ k.step = "install" /\ k.value = x.value /\ x.step = "handshake"
    BY <1>2, <1>4, <1>5, <2>3 DEF Harmless, Leads
  <2>4. \/ k.op = "none" \/ k.step \in {"tunnel", "open", "dial"}
        \/ Same(k, x) /\ k.step = "handshake" /\ k.value = x.value /\ Trust!Dial(c)
        \/ Same(k, x) /\ k.step = "install" /\ k.value = x.value /\ x.step = "handshake"
    BY <1>3, RestingTyped
  <2> QED
    BY <2>1, <2>2, <2>3, <2>4
<1>6. ~Trust!At(c, "edit", "close")
  BY <1>2 DEF Trust!At
<1> QED
  BY <1>1, <1>2, <1>3, <1>4, <1>5, <1>6, QuietStep

\* The connection that was made is cached: it leads where its Connect led.
LEMMA InstallLeads ==
  ASSUME TypeInv, LeadsInv, NEW c \in Callers, Trust!Install(c)
  PROVE  LeadsInv'
<1> DEFINE x == trustCall[c]
<1>1. /\ UNCHANGED <<trustLast, profile, reverted>> /\ Step(c, Resting)
      /\ x.op = "connect" /\ x.step = "install" /\ x.id \in Trust!Ids /\ CallsTyped
  BY ReturnSteps DEF Trust!Install, Trust!At, Trust!stores, TypeInv, CallsTyped, Shaped
<1>2. \A d \in Callers : trustCall'[d] = IF d = c THEN Resting ELSE trustCall[d]
  BY <1>1, StepTyped
<1>3. /\ \A i \in Trust!Ids \ {x.id} : live'[i] = live[i]
      /\ IF x.cut THEN live' = live ELSE live'[x.id].at = x.value.ssh
  <2>1. live \in [Trust!Ids -> Trust!Clients \cup {None}]
    BY DEF TypeInv, Trust!TypeOK
  <2>2. live' = IF x.cut THEN live
                ELSE [live EXCEPT ![x.id] = [at |-> x.value.ssh, print |-> x.old]]
    BY DEF Trust!Install
  <2>3. CASE x.cut
    BY <2>2, <2>3
  <2>4. CASE ~x.cut
    BY <1>1, <2>1, <2>2, <2>4
  <2> QED
    BY <2>3, <2>4
<1>4. ASSUME NEW i \in Trust!Ids, NEW site, Leads(i, site) PROVE WillLead(i, site)
  <2>1. live'[i] \in {None, live[i]} \/ live'[i].at = site
    <3>1. CASE i # x.id \/ x.cut
      BY <1>3, <3>1
    <3>2. CASE i = x.id /\ ~x.cut
      BY <1>1, <1>3, <1>4, <3>2 DEF Leads
    <3> QED
      BY <1>3, <3>1, <3>2
  <2>2. Harmless(Resting, i, site)
    BY RestingTyped DEF Harmless
  <2> QED
    BY <1>1, <1>4, <2>1, <2>2, StillLeads
<1>5. OneForm' /\ \A i : Fresh(i)' => Fresh(i)
  BY <1>1, RestingTyped, FormsKept DEF LeadsInv
<1>6. FreshIsUnused'
  BY <1>1, <1>2, <1>3, <1>5, RestingTyped DEF LeadsInv, FreshIsUnused
<1>7. \A i : Trust!Saving(i) => Trust!Saving(i)'
  BY <1>1, StillSaving DEF Trust!At
<1>8. SavedIsFollowed'
  <2> SUFFICES ASSUME NEW i \in Trust!Ids \ reverted', profile'[i] # None, ~Trust!Saving(i)'
               PROVE  WillLead(i, profile'[i].ssh)
    BY DEF SavedIsFollowed, Leads, WillLead
  <2> QED
    BY <1>1, <1>4, <1>7 DEF LeadsInv, SavedIsFollowed
<1>9. EditIsAlone'
  <2> SUFFICES ASSUME NEW d \in Callers, trustCall'[d].op = "edit", trustCall'[d].step = "upsert",
                      trustCall'[d].id \notin reverted'
               PROVE  LET y == trustCall'[d] IN
                        /\ profile'[y.id] # None => profile'[y.id].ssh = y.old.ssh
                        /\ WillLead(y.id, y.old.ssh)
    BY DEF EditIsAlone, Trust!At, Leads, WillLead
  <2>1. d # c /\ trustCall'[d] = trustCall[d] /\ trustCall[d].id \in Trust!Ids
    BY <1>2, RestingTyped DEF TypeInv, CallsTyped, Shaped
  <2> QED
    BY <1>1, <1>4, <2>1 DEF LeadsInv, EditIsAlone, Trust!At
<1> QED
  BY <1>5, <1>6, <1>8, <1>9 DEF LeadsInv

LEMMA BeginLeads ==
  ASSUME TypeInv, LeadsInv, NEW c \in Callers, NEW i \in Trust!Ids,
         NEW s \in Sites, NEW t \in Sites \cup {None}, NEW p \in Prints,
         \/ Trust!BeginConnect(c, i) \/ Trust!BeginEdit(c, i, s, t) \/ Trust!BeginCopy(c, i, s, t)
         \/ Trust!BeginDelete(c, i) \/ Trust!BeginAccept(c, i, p)
  PROVE  LeadsInv'
<1>1. UNCHANGED <<profile, live, reverted>>
  BY DEF Trust!BeginConnect, Trust!BeginEdit, Trust!BeginCopy, Trust!BeginDelete,
         Trust!BeginAccept, Trust!stores
<1>2. PICK k : /\ Step(c, k)
               /\ \/ k.op \in {"delete", "accept"} /\ trustLast' = trustLast
                  \/ /\ k.op = "connect" /\ k.step = "read" /\ k.id = i
                     /\ profile[i] # None /\ trustLast' = trustLast
                  \/ /\ k.op = "edit" /\ k.step = "load" /\ k.id = i
                     /\ profile[i] # None /\ trustLast' = trustLast /\ Trust!FormFree
                  \/ /\ k.op = "copy" /\ k.step = "load" /\ k.id = trustLast + 1
                     /\ trustLast' = trustLast + 1 /\ Trust!FormFree
  <2>1. CASE Trust!BeginConnect(c, i)
    <3>1. profile[i] # None /\ trustLast' = trustLast
      BY <2>1 DEF Trust!BeginConnect, Trust!stores
    <3> QED
      BY <2>1, <3>1, BeginSteps
  <2>2. CASE Trust!BeginEdit(c, i, s, t)
    <3>1. profile[i] # None /\ trustLast' = trustLast /\ Trust!FormFree
      BY <2>2 DEF Trust!BeginEdit, Trust!stores
    <3> QED
      BY <2>2, <3>1, BeginSteps
  <2>3. CASE Trust!BeginCopy(c, i, s, t)
    <3>1. trustLast' = trustLast + 1 /\ Trust!FormFree
      BY <2>3 DEF Trust!BeginCopy, Trust!stores
    <3> QED
      BY <2>3, <3>1, BeginSteps
  <2>4. CASE Trust!BeginDelete(c, i)
    <3>1. trustLast' = trustLast
      BY <2>4 DEF Trust!BeginDelete, Trust!stores
    <3> QED
      BY <2>4, <3>1, BeginSteps
  <2>5. CASE Trust!BeginAccept(c, i, p)
    <3>1. trustLast' = trustLast
      BY <2>5 DEF Trust!BeginAccept, Trust!stores
    <3> QED
      BY <2>5, <3>1, BeginSteps
  <2> QED
    BY <2>1, <2>2, <2>3, <2>4, <2>5
<1>3. /\ CallsTyped /\ trustCall[c].op = "none" /\ trustLast \in Nat
      /\ \A d \in Callers : trustCall'[d] = IF d = c THEN k ELSE trustCall[d]
  <2>1. trustCall[c].op = "none"
    BY BeginSteps
  <2>2. trustLast \in Nat /\ CallsTyped
    BY DEF TypeInv, Trust!TypeOK, Trust!Ids
  <2> QED
    BY <1>2, <2>1, <2>2, StepTyped
<1>4. ASSUME NEW j, NEW site, Leads(j, site) PROVE WillLead(j, site)
  <2>1. Harmless(k, j, site)
    BY <1>2 DEF Harmless
  <2> QED
    BY <1>1, <1>2, <1>3, <1>4, <2>1, StillLeads
<1>5. OneForm'
  <2>1. CASE k.op \in {"edit", "copy"}
    BY <1>2, <1>3, <2>1 DEF OneForm, Trust!FormFree
  <2>2. CASE k.op \notin {"edit", "copy"}
    BY <1>2, <1>3, <2>2 DEF LeadsInv, OneForm
  <2> QED
    BY <2>1, <2>2
<1>6. ASSUME NEW j \in Trust!Ids, Fresh(j)' PROVE Fresh(j)
  <2>1. j \in Nat
    BY DEF Trust!Ids
  <2> QED
    BY <1>2, <1>3, <1>6, <2>1 DEF Fresh
<1>7. FreshIsUnused'
  BY <1>1, <1>2, <1>3, <1>6 DEF LeadsInv, FreshIsUnused
<1>8. \A j : Trust!Saving(j) => Trust!Saving(j)'
  BY <1>2, <1>3, StillSaving DEF Trust!At
<1>9. SavedIsFollowed'
  <2> SUFFICES ASSUME NEW j \in Trust!Ids \ reverted', profile'[j] # None, ~Trust!Saving(j)'
               PROVE  WillLead(j, profile'[j].ssh)
    BY DEF SavedIsFollowed, Leads, WillLead
  <2> QED
    BY <1>1, <1>4, <1>8 DEF LeadsInv, SavedIsFollowed
<1>10. EditIsAlone'
  <2> SUFFICES ASSUME NEW d \in Callers, trustCall'[d].op = "edit", trustCall'[d].step = "upsert",
                      trustCall'[d].id \notin reverted'
               PROVE  LET y == trustCall'[d] IN
                        /\ profile'[y.id] # None => profile'[y.id].ssh = y.old.ssh
                        /\ WillLead(y.id, y.old.ssh)
    BY DEF EditIsAlone, Trust!At, Leads, WillLead
  <2>1. d # c /\ trustCall'[d] = trustCall[d]
    BY <1>2, <1>3
  <2> QED
    BY <1>1, <1>4, <2>1 DEF LeadsInv, EditIsAlone, Trust!At
<1> QED
  BY <1>5, <1>7, <1>9, <1>10 DEF LeadsInv

\* A save up to its last write, a confirmation and a deletion.
LEMMA LoadLeads ==
  ASSUME TypeInv, LeadsInv, NEW c \in Callers,
         Trust!LoadForEdit(c) \/ Trust!LoadForCopy(c) \/ Trust!CopyTrust(c)
  PROVE  LeadsInv'
<1> DEFINE x == trustCall[c]
<1>1. /\ UNCHANGED <<trustLast, profile, live, reverted>>
      /\ x.op \in {"edit", "copy"} /\ x.step # "close" /\ ~Trust!UpsertEdit(c)
      /\ Trust!LoadForEdit(c) => x.op = "edit"
      /\ Trust!LoadForCopy(c) \/ Trust!CopyTrust(c) => x.op = "copy"
  BY DEF Trust!LoadForEdit, Trust!LoadForCopy, Trust!CopyTrust, Trust!UpsertEdit, Trust!stores,
         Trust!At
<1>2. PICK k : /\ Step(c, k)
               /\ \/ k = Resting
                  \/ /\ Same(k, x) /\ k.old = profile[x.id] /\ k.step = "upsert"
                     /\ k.old # None /\ Trust!LoadForEdit(c)
                  \/ Same(k, x) /\ Trust!LoadForCopy(c)
                  \/ Same(k, x) /\ Trust!CopyTrust(c)
  BY <1>1, SaveSteps
<1>3. /\ k.op # "connect" /\ (k.op # "none" => k.op = x.op /\ k.id = x.id)
      /\ ~(k.op = "edit" /\ k.step = "close")
      /\ k.op = "edit" /\ k.step = "upsert" => k.old = profile[k.id] /\ k.old # None
  BY <1>1, <1>2, RestingTyped DEF Same
<1>4. ~Trust!At(c, "edit", "close")
  BY <1>1 DEF Trust!At
<1>5. \A site : Harmless(k, k.id, site)
  BY <1>3 DEF Harmless
<1> QED
  BY <1>1, <1>2, <1>3, <1>4, <1>5, QuietStep

LEMMA OtherLeads ==
  ASSUME TypeInv, LeadsInv, NEW c \in Callers,
         \/ Trust!ReadForAccept(c) \/ Trust!CheckPending(c) \/ Trust!UpsertAccept(c)
         \/ Trust!ClearPending(c) \/ Trust!Erase(c) \/ Trust!Forget(c) \/ Trust!StoreFails(c)
  PROVE  LeadsInv'
<1> DEFINE x == trustCall[c]
<1>1. UNCHANGED <<trustLast, live>>
  BY DEF Trust!ReadForAccept, Trust!CheckPending, Trust!UpsertAccept, Trust!ClearPending,
         Trust!Erase, Trust!Forget, Trust!StoreFails, Trust!stores
<1>2. PICK k : /\ Step(c, k)
               /\ k = Resting \/ (Same(k, x) /\ x.op \in {"accept", "delete"})
  BY OtherSteps
<1>3. /\ k.op \notin {"connect", "edit"} /\ (k.op # "none" => k.op = x.op /\ k.id = x.id)
      /\ ~Trust!At(c, "edit", "close") /\ Shaped(x) /\ x.op # "none"
  <2>1. k.op \notin {"connect", "edit"} /\ (k.op # "none" => k.op = x.op /\ k.id = x.id)
    BY <1>2, RestingTyped DEF Same
  <2>2. x.op \in {"accept", "delete", "edit", "copy"}
        /\ (x.op \in {"edit", "copy"} => ~Trust!At(c, "edit", "close"))
    BY OtherSteps
  <2> QED
    BY <2>1, <2>2 DEF Trust!At, TypeInv, CallsTyped
<1>4. /\ reverted \subseteq reverted'
      /\ \A i \in Trust!Ids \ reverted' :
           profile'[i] # None => profile[i] # None /\ profile'[i].ssh = profile[i].ssh
  <2>1. CASE profile' = profile /\ reverted' = reverted
    BY <2>1
  <2>2. CASE Trust!Erase(c)
    BY <2>2 DEF Trust!Erase, TypeInv, Trust!TypeOK
  <2>3. CASE Trust!UpsertAccept(c)
    <3>1. /\ x.old \in Trust!Profiles /\ x.old # None /\ x.value.ssh = x.old.ssh /\ x.id \in Trust!Ids
          /\ profile' = [profile EXCEPT ![x.id] = x.value]
          /\ reverted' = IF profile[x.id] = x.old THEN reverted ELSE reverted \cup {x.id}
      BY <1>3, <2>3, StoresAssumption
      DEF Shaped, AcceptTyped, Trust!UpsertAccept, Trust!At, Trust!TrustAssumption, Trust!Profiles
    <3> QED
      BY <3>1 DEF TypeInv, Trust!TypeOK
  <2> QED
    BY <2>1, <2>2, <2>3 DEF Trust!ReadForAccept, Trust!CheckPending, Trust!ClearPending,
       Trust!Forget, Trust!StoreFails, Trust!stores
<1>5. \A site : Harmless(k, k.id, site)
  BY <1>3 DEF Harmless
<1> QED
  BY <1>1, <1>2, <1>3, <1>4, <1>5, QuietStep

\* The last write of an edit: what was read is replaced, and a changed address is
\* about to be cut.
LEMMA UpsertEditLeads ==
  ASSUME TypeInv, LeadsInv, NEW c \in Callers, Trust!UpsertEdit(c)
  PROVE  LeadsInv'
<1> DEFINE x == trustCall[c]
<1>1. /\ UNCHANGED <<trustLast, live, reverted>> /\ x.op = "edit" /\ x.step = "upsert"
      /\ x.id \in Trust!Ids /\ profile' = [profile EXCEPT ![x.id] = x.value] /\ CallsTyped
  BY DEF Trust!UpsertEdit, Trust!At, TypeInv, CallsTyped, Shaped
<1>2. PICK k : /\ Step(c, k)
               /\ \/ k = Resting /\ x.old.ssh = x.value.ssh
                  \/ Same(k, x) /\ k.step = "close"
  <2>1. PICK k : /\ Step(c, k)
                 /\ \/ k = Resting
                    \/ Same(k, x) /\ k.step = "close"
    <3>1. ~Trust!LoadForEdit(c) /\ ~Trust!LoadForCopy(c) /\ ~Trust!CopyTrust(c)
      BY <1>1 DEF Trust!LoadForEdit, Trust!LoadForCopy, Trust!CopyTrust, Trust!At
    <3> QED
      BY <3>1, SaveSteps
  <2>2. k = Resting => x.old.ssh = x.value.ssh
    <3>1. k = Resting => ~Trust!Moves(c, "close")
      <4>1. k = Resting => trustCall'[c].step = "idle"
        BY <2>1, RestingTyped, StepTyped DEF TypeInv
      <4>2. Trust!Moves(c, "close") => trustCall'[c].step = "close"
        BY DEF Trust!Moves, TypeInv, CallsTyped, Locals
      <4> QED
        BY <4>1, <4>2
    <3>2. ~Trust!Moves(c, "close") => ~Trust!ConnectionChanged(x.old, x.value)
      BY DEF Trust!UpsertEdit
    <3> QED
      BY <3>1, <3>2 DEF Trust!ConnectionChanged
  <2> QED
    BY <2>1, <2>2
<1>3. \A d \in Callers : trustCall'[d] = IF d = c THEN k ELSE trustCall[d]
  BY <1>2, StepTyped DEF TypeInv
<1>4. k.op \in {"none", "edit"} /\ (k.op = "edit" => k.id = x.id /\ k.step = "close")
  BY <1>1, <1>2, RestingTyped DEF Same
<1>5. ASSUME NEW i, NEW site, Leads(i, site) PROVE WillLead(i, site)
  <2>1. Harmless(k, i, site)
    BY <1>4 DEF Harmless
  <2> QED
    BY <1>1, <1>2, <1>5, <2>1, StillLeads
<1>6. OneForm' /\ \A i : Fresh(i)' => Fresh(i)
  BY <1>1, <1>2, <1>4, FormsKept DEF LeadsInv
<1>7. FreshIsUnused'
  <2>1. ASSUME NEW i \in Trust!Ids \ reverted, Fresh(i) PROVE i # x.id
    BY <1>1, <2>1 DEF LeadsInv, FreshIsUnused
  <2> QED
    BY <1>1, <1>3, <1>4, <1>6, <2>1 DEF LeadsInv, FreshIsUnused, TypeInv, Trust!TypeOK
<1>8. SavedIsFollowed'
  <2> SUFFICES ASSUME NEW i \in Trust!Ids \ reverted', profile'[i] # None, ~Trust!Saving(i)'
               PROVE  WillLead(i, profile'[i].ssh)
    BY DEF SavedIsFollowed, Leads, WillLead
  <2>1. CASE i # x.id
    <3>1. ~Trust!Saving(i) /\ profile'[i] = profile[i]
      <4>1. Trust!Saving(i) => Trust!Saving(i)'
        BY <1>1, <1>2, StillSaving DEF Trust!At
      <4> QED
        BY <4>1, <1>1, <2>1 DEF TypeInv, Trust!TypeOK
    <3> QED
      BY <1>1, <1>5, <3>1 DEF LeadsInv, SavedIsFollowed
  <2>2. CASE i = x.id
    <3>1. k = Resting
      <4>1. Same(k, x) /\ k.step = "close" => Trust!Saving(i)'
        BY <1>1, <1>3, <2>2 DEF Same, Trust!Saving, Trust!At
      <4> QED
        BY <4>1, <1>2
    <3>2. profile'[i].ssh = x.old.ssh
      BY <1>1, <1>2, <2>2, <3>1, RestingTyped DEF TypeInv, Trust!TypeOK, Same
    <3>3. Leads(i, x.old.ssh)
      BY <1>1, <2>2 DEF LeadsInv, EditIsAlone, Trust!At
    <3> QED
      BY <1>5, <3>2, <3>3
  <2> QED
    BY <2>1, <2>2
<1>9. EditIsAlone'
  <2>1. ASSUME NEW d \in Callers PROVE ~Trust!At(d, "edit", "upsert")'
    BY <1>1, <1>3, <1>4 DEF LeadsInv, OneForm, Trust!At
  <2> QED
    BY <2>1 DEF EditIsAlone
<1> QED
  BY <1>6, <1>7, <1>8, <1>9 DEF LeadsInv

\* The last write of a copy: nothing has been connected under its identity.
LEMMA UpsertCopyLeads ==
  ASSUME TypeInv, LeadsInv, NEW c \in Callers, Trust!UpsertCopy(c)
  PROVE  LeadsInv'
<1> DEFINE x == trustCall[c]
<1>1. /\ UNCHANGED <<trustLast, live, reverted>> /\ x.op = "copy" /\ Step(c, Resting)
      /\ x.id \in Trust!Ids /\ CallsTyped
      /\ profile' = profile \/ profile' = [profile EXCEPT ![x.id] = x.value]
  BY ReturnSteps DEF Trust!UpsertCopy, Trust!At, TypeInv, CallsTyped, Shaped
<1>2. \A d \in Callers : trustCall'[d] = IF d = c THEN Resting ELSE trustCall[d]
  BY <1>1, StepTyped
<1>3. ASSUME NEW i, NEW site, Leads(i, site) PROVE WillLead(i, site)
  <2>1. Harmless(Resting, i, site)
    BY RestingTyped DEF Harmless
  <2> QED
    BY <1>1, <1>3, <2>1, StillLeads
<1>4. OneForm' /\ \A i : Fresh(i)' => Fresh(i)
  BY <1>1, RestingTyped, FormsKept DEF LeadsInv
<1>5. ASSUME NEW i, i = x.id PROVE ~Fresh(i)' /\ Fresh(i)
  <2>1. trustLast \in Nat /\ i \in Nat /\ i <= trustLast
    BY <1>1, <1>5 DEF TypeInv, Trust!TypeOK, Trust!Ids, LeadsInv, OneForm
  <2>2. \A d \in Callers : trustCall'[d].op # "copy"
    BY <1>1, <1>2, RestingTyped DEF LeadsInv, OneForm
  <2> QED
    BY <1>1, <1>5, <2>1, <2>2 DEF Fresh
<1>6. \A i \in Trust!Ids \ {x.id} : profile'[i] = profile[i]
  BY <1>1 DEF TypeInv, Trust!TypeOK
<1>7. FreshIsUnused'
  BY <1>1, <1>2, <1>4, <1>5, <1>6, RestingTyped DEF LeadsInv, FreshIsUnused
<1>8. SavedIsFollowed'
  <2> SUFFICES ASSUME NEW i \in Trust!Ids \ reverted', profile'[i] # None, ~Trust!Saving(i)'
               PROVE  WillLead(i, profile'[i].ssh)
    BY DEF SavedIsFollowed, Leads, WillLead
  <2>1. CASE i # x.id
    <3>1. ~Trust!Saving(i)
      BY <1>1, StillSaving DEF Trust!At
    <3> QED
      BY <1>1, <1>3, <1>6, <2>1, <3>1 DEF LeadsInv, SavedIsFollowed
  <2>2. CASE i = x.id
    <3>1. Leads(i, profile'[i].ssh)
      BY <1>1, <1>5, <2>2 DEF LeadsInv, FreshIsUnused, Leads
    <3> QED
      BY <1>3, <3>1
  <2> QED
    BY <2>1, <2>2
<1>9. EditIsAlone'
  <2>1. ASSUME NEW d \in Callers PROVE ~Trust!At(d, "edit", "upsert")'
    BY <1>1, <1>2, RestingTyped DEF LeadsInv, OneForm, Trust!At
  <2> QED
    BY <2>1 DEF EditIsAlone
<1> QED
  BY <1>4, <1>7, <1>8, <1>9 DEF LeadsInv

\* A cut leaves nothing that leads anywhere.
LEMMA CuttingLeads ==
  ASSUME TypeInv, LeadsInv, NEW c \in Callers, Trust!CloseAfterEdit(c) \/ Trust!CloseForDelete(c)
  PROVE  LeadsInv'
<1> DEFINE i == trustCall[c].id
<1>1. /\ i \in Trust!Ids /\ trustCall[c].op \in {"edit", "delete"}
      /\ UNCHANGED <<trustLast, profile, reverted>>
      /\ trustCall'[c].op \in {"none", "delete"} /\ live' = [live EXCEPT ![i] = None]
  BY CuttingSteps
<1>2. ASSUME NEW d \in Callers \ {c}
      PROVE  LET x == trustCall[d]
                 y == trustCall'[d] IN
               /\ y.op = x.op /\ y.id = x.id /\ y.step = x.step /\ y.value = x.value /\ y.old = x.old
               /\ IF x.op = "connect" /\ x.id = i THEN y.cut ELSE y.cut = x.cut
  <2>1. trustCall[d] \in Locals
    BY DEF TypeInv, CallsTyped
  <2>2. CASE trustCall[d].op = "connect" /\ trustCall[d].id = i
    <3>1. trustCall'[d] = [trustCall[d] EXCEPT !.cut = TRUE]
      BY <2>2, CuttingSteps
    <3> QED
      BY <2>1, <2>2, <3>1 DEF Locals
  <2>3. CASE ~(trustCall[d].op = "connect" /\ trustCall[d].id = i)
    <3>1. trustCall'[d] = trustCall[d]
      BY <2>3, CuttingSteps
    <3> QED
      BY <2>3, <3>1
  <2> QED
    BY <2>2, <2>3
<1>3. /\ \A j \in Trust!Ids \ {i} : live'[j] = live[j]
      /\ live'[i] = None
  BY <1>1 DEF TypeInv, Trust!TypeOK
<1>4. ASSUME NEW j \in Trust!Ids, NEW site, j = i \/ Leads(j, site) PROVE WillLead(j, site)
  BY <1>1, <1>2, <1>3, <1>4 DEF WillLead, Leads
<1>5. OneForm' /\ \A j : Fresh(j)' => Fresh(j)
  BY <1>1, <1>2 DEF LeadsInv, OneForm, Fresh
<1>6. FreshIsUnused'
  BY <1>1, <1>2, <1>3, <1>5 DEF LeadsInv, FreshIsUnused
<1>7. \A j \in Trust!Ids : j # i /\ Trust!Saving(j) => Trust!Saving(j)'
  BY <1>1, <1>2 DEF Trust!Saving, Trust!At
<1>8. SavedIsFollowed'
  <2> SUFFICES ASSUME NEW j \in Trust!Ids \ reverted', profile'[j] # None, ~Trust!Saving(j)'
               PROVE  WillLead(j, profile'[j].ssh)
    BY DEF SavedIsFollowed, Leads, WillLead
  <2> QED
    BY <1>1, <1>4, <1>7 DEF LeadsInv, SavedIsFollowed
<1>9. EditIsAlone'
  <2> SUFFICES ASSUME NEW d \in Callers, trustCall'[d].op = "edit", trustCall'[d].step = "upsert",
                      trustCall'[d].id \notin reverted'
               PROVE  LET y == trustCall'[d] IN
                        /\ profile'[y.id] # None => profile'[y.id].ssh = y.old.ssh
                        /\ WillLead(y.id, y.old.ssh)
    BY DEF EditIsAlone, Trust!At, Leads, WillLead
  <2>1. d # c /\ trustCall[d].op = "edit" /\ trustCall[d].id \in Trust!Ids
    BY <1>1, <1>2 DEF TypeInv, CallsTyped, Shaped
  <2> QED
    BY <1>1, <1>2, <1>4, <2>1 DEF LeadsInv, EditIsAlone, Trust!At
<1> QED
  BY <1>5, <1>6, <1>8, <1>9 DEF LeadsInv

\* Confirmations of keys, other servers and lost connections lead nowhere new.
LEMMA WorldLeads ==
  ASSUME TypeInv, LeadsInv,
         \/ \E i \in Trust!Ids, p \in Prints : Trust!AcceptKey(i, p)
         \/ \E s \in Sites : Trust!ServerChanges(s)
         \/ \E i \in Trust!Ids : Trust!ConnectionLost(i)
  PROVE  LeadsInv'
<1>1. UNCHANGED <<trustCall, profile, trustLast, reverted>>
  BY DEF Trust!AcceptKey, Trust!ServerChanges, Trust!ConnectionLost, Trust!stores
<1>2. \A i \in Trust!Ids : live'[i] \in {None, live[i]}
  BY DEF Trust!AcceptKey, Trust!ServerChanges, Trust!ConnectionLost, Trust!stores, TypeInv,
         Trust!TypeOK
<1>3. ASSUME NEW i \in Trust!Ids, NEW site, Leads(i, site) PROVE WillLead(i, site)
  BY <1>1, <1>2, <1>3 DEF Leads, WillLead
<1>4. OneForm'
  BY <1>1 DEF LeadsInv, OneForm
<1>5. FreshIsUnused'
  BY <1>1, <1>2 DEF LeadsInv, FreshIsUnused, Fresh
<1>6. SavedIsFollowed'
  <2> SUFFICES ASSUME NEW i \in Trust!Ids \ reverted', profile'[i] # None, ~Trust!Saving(i)'
               PROVE  WillLead(i, profile'[i].ssh)
    BY DEF SavedIsFollowed, Leads, WillLead
  <2>1. ~Trust!Saving(i)
    BY <1>1 DEF Trust!Saving, Trust!At
  <2> QED
    BY <1>1, <1>3, <2>1 DEF LeadsInv, SavedIsFollowed
<1>7. EditIsAlone'
  <2> SUFFICES ASSUME NEW d \in Callers, trustCall'[d].op = "edit", trustCall'[d].step = "upsert",
                      trustCall'[d].id \notin reverted'
               PROVE  LET y == trustCall'[d] IN
                        /\ profile'[y.id] # None => profile'[y.id].ssh = y.old.ssh
                        /\ WillLead(y.id, y.old.ssh)
    BY DEF EditIsAlone, Trust!At, Leads, WillLead
  <2>1. trustCall[d].id \in Trust!Ids
    BY <1>1 DEF TypeInv, CallsTyped, Shaped
  <2> QED
    BY <1>1, <1>3, <2>1 DEF LeadsInv, EditIsAlone, Trust!At
<1> QED
  BY <1>4, <1>5, <1>6, <1>7 DEF LeadsInv

-----------------------------------------------------------------------------
(* The invariant of ServerTrust                                            *)

LEMMA TrustInit ==
  ASSUME Trust!Init
  PROVE  TrustInv
<1> USE DEF Trust!Init
<1>1. trustCall = [c \in Callers |-> Resting]
  BY DEF Resting
<1>2. CallsTyped /\ \A c \in Callers : trustCall[c].op = "none" /\ trustCall[c].step = "idle"
  BY <1>1, RestingTyped DEF CallsTyped
<1>3. 1 \in Trust!Ids
  BY StoresAssumption DEF Trust!TrustAssumption, Trust!Ids
<1>4. TypeInv
  BY <1>2, <1>3 DEF TypeInv, Trust!TypeOK, Trust!Profiles
<1>5. Trust!OnlyConfirmedServers
  BY DEF Trust!OnlyConfirmedServers
<1>6. CallsConfirmed
  BY <1>2 DEF CallsConfirmed, CallConfirmed
<1>7. OneForm /\ EditIsAlone
  BY <1>2 DEF OneForm, EditIsAlone, Trust!At
<1>8. FreshIsUnused
  BY <1>2 DEF FreshIsUnused, Fresh, Trust!Ids
<1>9. SavedIsFollowed
  BY <1>2 DEF SavedIsFollowed, Leads
<1> QED
  BY <1>4, <1>5, <1>6, <1>7, <1>8, <1>9 DEF TrustInv, LeadsInv

LEMMA TrustStutters ==
  ASSUME TrustInv, UNCHANGED trustVars
  PROVE  TrustInv'
<1> USE DEF trustVars
<1>1. TypeInv'
  BY DEF TrustInv, TypeInv, Trust!TypeOK, CallsTyped
<1>2. Trust!OnlyConfirmedServers' /\ CallsConfirmed'
  BY DEF TrustInv, Trust!OnlyConfirmedServers, CallsConfirmed, CallConfirmed, Confirmed
<1>3. OneForm' /\ FreshIsUnused' /\ SavedIsFollowed' /\ EditIsAlone'
  BY DEF TrustInv, LeadsInv, OneForm, FreshIsUnused, Fresh, SavedIsFollowed, EditIsAlone, Leads,
         Trust!Saving, Trust!At
<1> QED
  BY <1>1, <1>2, <1>3 DEF TrustInv, LeadsInv

\* The parameters of a form that a call without a form does not use.
LEMMA FormsExist ==
  ASSUME TypeInv, NEW i \in Trust!Ids, profile[i] # None
  PROVE  Sites # {} /\ Prints # {}
<1>1. profile[i].ssh \in Sites
  BY DEF TypeInv, Trust!TypeOK, Trust!Profiles
<1>2. shows[profile[i].ssh] \in Prints
  BY <1>1 DEF TypeInv
<1> QED
  BY <1>1, <1>2

LEMMA BeginKeeps ==
  ASSUME TrustInv, NEW c \in Callers,
         \/ \E i \in Trust!Ids : Trust!BeginConnect(c, i) \/ Trust!BeginDelete(c, i)
         \/ \E i \in Trust!Ids, s \in Sites, t \in Sites \cup {None} :
              Trust!BeginEdit(c, i, s, t) \/ Trust!BeginCopy(c, i, s, t)
         \/ \E i \in Trust!Ids, p \in Prints : Trust!BeginAccept(c, i, p)
  PROVE  TrustInv'
<1>1. ASSUME NEW i \in Trust!Ids,
             NEW s \in Sites, NEW t \in Sites \cup {None}, NEW p \in Prints,
             \/ Trust!BeginConnect(c, i) \/ Trust!BeginEdit(c, i, s, t) \/ Trust!BeginCopy(c, i, s, t)
             \/ Trust!BeginDelete(c, i) \/ Trust!BeginAccept(c, i, p)
      PROVE  TrustInv'
  BY <1>1, BeginTypes, BeginConfirmed, BeginLeads DEF TrustInv
<1>2. ASSUME NEW i \in Trust!Ids, Trust!BeginConnect(c, i) \/ Trust!BeginDelete(c, i)
      PROVE  TrustInv'
  <2>1. profile[i] # None
    BY <1>2 DEF Trust!BeginConnect, Trust!BeginDelete
  <2> QED
    BY <1>1, <1>2, <2>1, FormsExist DEF TrustInv
<1>3. ASSUME NEW i \in Trust!Ids, NEW s \in Sites, NEW t \in Sites \cup {None},
             Trust!BeginEdit(c, i, s, t) \/ Trust!BeginCopy(c, i, s, t)
      PROVE  TrustInv'
  <2>1. profile[i] # None
    BY <1>3 DEF Trust!BeginEdit, Trust!BeginCopy
  <2> QED
    BY <1>1, <1>3, <2>1, FormsExist DEF TrustInv
<1>4. Sites # {}
  BY StoresAssumption DEF Trust!TrustAssumption
<1> QED
  BY <1>1, <1>2, <1>3, <1>4

LEMMA TrustStep ==
  ASSUME TrustInv, Trust!Next
  PROVE  TrustInv'
<1>1. ASSUME NEW c \in Callers, Trust!Connects(c)
      PROVE  TrustInv'
  <2>1. CASE \E i \in Trust!Ids : Trust!BeginConnect(c, i)
    BY <2>1, BeginKeeps
  <2>2. CASE ~\E i \in Trust!Ids : Trust!BeginConnect(c, i)
    <3>1. \/ Trust!ReadForConnect(c) \/ Trust!ReadForTunnel(c) \/ Trust!TunnelRefused(c)
          \/ Trust!TunnelOpened(c) \/ Trust!Dial(c) \/ Trust!KeyRefused(c) \/ Trust!KeyMatches(c)
          \/ Trust!Install(c) \/ Trust!ConnectFails(c)
      BY <1>1, <2>2 DEF Trust!Connects
    <3> QED
      BY <3>1, ConnectTypes, ConnectConfirmed, ConnectLeads, InstallLeads DEF TrustInv
  <2> QED
    BY <2>1, <2>2
<1>2. ASSUME NEW c \in Callers, Trust!Saves(c)
      PROVE  TrustInv'
  <2>1. CASE \E i \in Trust!Ids, s \in Sites, t \in Sites \cup {None} :
               Trust!BeginEdit(c, i, s, t) \/ Trust!BeginCopy(c, i, s, t)
    BY <2>1, BeginKeeps
  <2>2. CASE Trust!CloseAfterEdit(c)
    BY <2>2, CuttingKeeps, CuttingLeads DEF TrustInv
  <2>3. CASE \/ Trust!LoadForEdit(c) \/ Trust!UpsertEdit(c)
             \/ Trust!LoadForCopy(c) \/ Trust!CopyTrust(c) \/ Trust!UpsertCopy(c)
    BY <2>3, SaveTypes, SaveConfirmed, LoadLeads, UpsertEditLeads, UpsertCopyLeads DEF TrustInv
  <2> QED
    BY <1>2, <2>1, <2>2, <2>3 DEF Trust!Saves
<1>3. ASSUME NEW c \in Callers, Trust!Deletes(c) \/ Trust!Accepts(c) \/ Trust!StoreFails(c)
      PROVE  TrustInv'
  <2>1. CASE \/ \E i \in Trust!Ids : Trust!BeginDelete(c, i)
             \/ \E i \in Trust!Ids, p \in Prints : Trust!BeginAccept(c, i, p)
    BY <2>1, BeginKeeps
  <2>2. CASE Trust!CloseForDelete(c)
    BY <2>2, CuttingKeeps, CuttingLeads DEF TrustInv
  <2>3. CASE \/ Trust!ReadForAccept(c) \/ Trust!CheckPending(c) \/ Trust!UpsertAccept(c)
             \/ Trust!ClearPending(c) \/ Trust!Erase(c) \/ Trust!Forget(c) \/ Trust!StoreFails(c)
    BY <2>3, OtherTypes, OtherConfirmed, OtherLeads DEF TrustInv
  <2> QED
    BY <1>3, <2>1, <2>2, <2>3 DEF Trust!Deletes, Trust!Accepts
<1>4. CASE \/ \E i \in Trust!Ids, p \in Prints : Trust!AcceptKey(i, p)
           \/ \E s \in Sites : Trust!ServerChanges(s)
           \/ \E i \in Trust!Ids : Trust!ConnectionLost(i)
  BY <1>4, WorldKeeps, WorldLeads DEF TrustInv
<1> QED
  BY <1>1, <1>2, <1>3, <1>4 DEF Trust!Next

LEMMA TrustInvariant == Spec => []TrustPart
<1>1. Init => TrustPart
  BY TrustInit DEF Init, TrustPart
<1>2. TrustPart /\ [Next]_vars => TrustPart'
  <2> SUFFICES ASSUME TrustPart, [Next]_vars, part' = "trust" PROVE TrustInv'
    BY DEF TrustPart
  <2>1. part = "trust" /\ TrustInv
    BY DEF TrustPart, Next, vars
  <2>2. CASE Trust!Next
    BY <2>1, <2>2, TrustStep
  <2>3. CASE UNCHANGED trustVars
    BY <2>1, <2>3, TrustStutters
  <2> QED
    BY <2>1, <2>2, <2>3 DEF Next, vars
<1> QED
  BY <1>1, <1>2, PTL DEF Spec

\* No server is trusted, and no connection is made, by a fingerprint the user has not
\* confirmed, however dialogs, saves, copies and changes of servers interleave: AcceptPending
\* compares what is confirmed with what waits under the lock (known_hosts.go:70).
THEOREM TrustIsConfirmed == Spec => []OnlyConfirmedServers
<1>1. TrustPart => OnlyConfirmedServers
  BY DEF TrustPart, TrustInv, OnlyConfirmedServers
<1> QED
  BY <1>1, TrustInvariant, PTL

\* After a save the connection leads to the SSH address that is stored, a Connect that was
\* under way included: SaveProfile closes the profile after the upsert (service.go:251),
\* and the generation keeps the older client out.
THEOREM ConnectionsFollowSaves == Spec => []LiveFollowsSaved
<1>1. TrustPart => LiveFollowsSaved
  BY DEF TrustPart, TrustInv, LeadsInv, SavedIsFollowed, Leads, LiveFollowsSaved,
         Trust!LiveFollowsSaved
<1> QED
  BY <1>1, TrustInvariant, PTL
=============================================================================
