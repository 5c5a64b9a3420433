------------------------------ MODULE ServerTrust ------------------------------
(* Which server a connection trusts: the profile with the pinned certificate of its *)
(* tunnel server, the table of SSH host keys, and the keys and certificates that    *)
(* wait for the user's decision, while connections are made, profiles edited,       *)
(* copied and deleted, and servers replaced. internal/sshclient/known_hosts.go,     *)
(* internal/app/service.go (SaveProfile, DeleteProfile), and what                   *)
(* internal/vpn/isolated_manager.go and internal/sshclient/manager.go read of them. *)
EXTENDS Naturals

CONSTANTS
  Callers,    \* goroutines in a method of the service
  MaxIds,     \* bound on the profiles that ever exist
  Sites,      \* addresses of servers
  Prints,     \* fingerprints of keys and certificates
  None,
  MaxCalls    \* bound on the calls of a behaviour

VARIABLES
  last,         \* the last identity given out; they are UUIDs, never used again
  profile,      \* profiles.json: the profile of an identity, or None
  known,        \* known_hosts: the fingerprint recorded for an identity, or None
  pending,      \* KnownHosts.pending
  pendingCert,  \* IsolatedManager.pending
  shows,        \* the fingerprint the server at an address shows at present
  told,         \* <<id, fingerprint>>: what the window has shown to the user
  approved,     \* fingerprints the user has confirmed
  link,         \* the address the tunnel of an identity leads to, or None
  live,         \* the cached SSH client: the address and key it was made with, or None
  call,         \* the place and the locals of a caller
  calls,        \* number of calls so far
  reverted      \* identities into which a confirmation wrote an outdated profile

vars == <<last, profile, known, pending, pendingCert, shows, told, approved, link, live, call,
          calls, reverted>>
stores == <<last, profile, known, pending, pendingCert>>

\* A tunnel of None stands for the mode direct_ssh.
Ids == 1..MaxIds
Profiles == [ssh : Sites, tunnel : Sites \cup {None}, cert : Prints \cup {None}]
Clients == [at : Sites, print : Prints]

TrustAssumption ==
  /\ MaxIds \in Nat \ {0} /\ Sites # {}
  /\ None \notin Sites \cup Prints \cup Profiles

Resting == [op |-> "none", step |-> "idle", id |-> None, from |-> None, value |-> None,
            old |-> None, cut |-> FALSE]

Isolated(value) == value.tunnel # None
SameTunnel(left, right) == Isolated(left) /\ left.tunnel = right.tunnel

\* One profile is stored: a new one, or one the user has connected before.
Init ==
  /\ last = 1
  /\ \E value \in Profiles, print \in Prints \cup {None} :
       /\ IF Isolated(value) THEN value.cert = None <=> print = None ELSE value.cert = None
       /\ profile = [i \in Ids |-> IF i = 1 THEN value ELSE None]
       /\ known = [i \in Ids |-> IF i = 1 THEN print ELSE None]
       /\ approved = {value.cert, print} \ {None}
  /\ pending = [i \in Ids |-> None]
  /\ pendingCert = [i \in Ids |-> None]
  /\ shows \in [Sites -> Prints]
  /\ told = {}
  /\ link = [i \in Ids |-> None]
  /\ live = [i \in Ids |-> None]
  /\ call = [c \in Callers |-> Resting]
  /\ calls = 0
  /\ reverted = {}

Begins(c, how) ==
  /\ call[c].step = "idle" /\ calls < MaxCalls
  /\ call' = [call EXCEPT ![c] = how]
  /\ calls' = calls + 1

Moves(c, step) == call' = [call EXCEPT ![c].step = step]
Returns(c) == call' = [call EXCEPT ![c] = Resting]
At(c, op, step) == call[c].op = op /\ call[c].step = step

-----------------------------------------------------------------------------
(* Connect                                                                 *)

\* Manager.Connect without a usable client; the gate admits one per profile.
BeginConnect(c, i) ==
  /\ profile[i] # None /\ live[i] = None
  /\ \A d \in Callers : ~(call[d].op = "connect" /\ call[d].id = i)
  /\ Begins(c, [Resting EXCEPT !.op = "connect", !.step = "read", !.id = i])
  /\ UNCHANGED <<stores, shows, told, approved, link, live, reverted>>

ReadForConnect(c) ==
  /\ At(c, "connect", "read")
  /\ LET value == profile[call[c].id] IN
       IF value = None THEN Returns(c)
       ELSE call' = [call EXCEPT ![c].step = "tunnel", ![c].value = value]
  /\ UNCHANGED <<stores, shows, told, approved, link, live, calls, reverted>>

\* dialer.Connect reads the profile itself (TunnelRuntime has its steps apart): no
\* tunnel is needed, there is one, or one is opened with what was read.
ReadForTunnel(c) ==
  /\ At(c, "connect", "tunnel")
  /\ LET i == call[c].id
         value == profile[i] IN
       \/ value = None /\ Returns(c) /\ UNCHANGED link
       \/ /\ value # None /\ ~Isolated(value)
          /\ link' = [link EXCEPT ![i] = None]
          /\ Moves(c, "dial")
       \/ /\ value # None /\ Isolated(value) /\ UNCHANGED link
          /\ IF link[i] # None THEN Moves(c, "dial")
             ELSE call' = [call EXCEPT ![c].step = "open", ![c].old = value]
  /\ UNCHANGED <<stores, shows, told, approved, live, calls, reverted>>

\* softether.Open: an unknown certificate waits for the user, a changed one blocks.
TunnelRefused(c) ==
  /\ At(c, "connect", "open")
  /\ LET i == call[c].id
         value == call[c].old IN
       /\ value.cert # shows[value.tunnel]
       /\ IF value.cert = None
            THEN /\ pendingCert' = [pendingCert EXCEPT ![i] = shows[value.tunnel]]
                 /\ told' = told \cup {<<i, shows[value.tunnel]>>}
            ELSE UNCHANGED <<pendingCert, told>>
  /\ Returns(c)
  /\ UNCHANGED <<last, profile, known, pending, shows, approved, link, live, calls, reverted>>

TunnelOpened(c) ==
  /\ At(c, "connect", "open")
  /\ call[c].old.cert = shows[call[c].old.tunnel]
  /\ IF call[c].cut THEN Returns(c) /\ UNCHANGED link
     ELSE /\ link' = [link EXCEPT ![call[c].id] = call[c].old.tunnel]
          /\ Moves(c, "dial")
  /\ UNCHANGED <<stores, shows, told, approved, live, calls, reverted>>

\* IsolatedManager.DialContext compares the address with the profile stored now.
Dial(c) ==
  /\ At(c, "connect", "dial")
  /\ LET i == call[c].id
         allowed == /\ profile[i] # None /\ profile[i].ssh = call[c].value.ssh
                    /\ Isolated(profile[i]) => link[i] # None IN
       IF allowed THEN Moves(c, "handshake") ELSE Returns(c)
  /\ UNCHANGED <<stores, shows, told, approved, link, live, calls, reverted>>

\* The key the handshake shows is unknown or differs from the record.
KeyRefused(c) ==
  /\ At(c, "connect", "handshake")
  /\ LET i == call[c].id
         seen == shows[call[c].value.ssh] IN
       /\ known[i] # seen
       /\ pending' = [pending EXCEPT ![i] = seen]
       /\ told' = told \cup {<<i, seen>>}
  /\ Returns(c)
  /\ UNCHANGED <<last, profile, known, pendingCert, shows, approved, link, live, calls, reverted>>

KeyMatches(c) ==
  /\ At(c, "connect", "handshake")
  /\ LET i == call[c].id IN
       /\ known[i] = shows[call[c].value.ssh]
       /\ pending' = [pending EXCEPT ![i] = None]
       /\ call' = [call EXCEPT ![c].step = "install", ![c].old = known[i]]
  /\ UNCHANGED <<last, profile, known, pendingCert, shows, told, approved, link, live, calls, reverted>>

\* The generation has changed when the connection was closed in between.
Install(c) ==
  /\ At(c, "connect", "install")
  /\ live' = IF call[c].cut THEN live
             ELSE [live EXCEPT ![call[c].id] =
                     [at |-> call[c].value.ssh, print |-> call[c].old]]
  /\ Returns(c)
  /\ UNCHANGED <<stores, shows, told, approved, link, calls, reverted>>

\* The network, a missing password or the deadline ends a Connect at any place.
ConnectFails(c) ==
  /\ call[c].op = "connect"
  /\ Returns(c)
  /\ UNCHANGED <<stores, shows, told, approved, link, live, calls, reverted>>

\* A bug: a Connect that is under way is not told that the profile was closed.
CutOnlyWhatIsThere(i, after) ==
  /\ live' = [live EXCEPT ![i] = None]
  /\ link' = [link EXCEPT ![i] = None]
  /\ call' = after

\* browser.CloseProfile, ssh.CloseProfile and vpn.Disconnect: nothing is connected
\* afterwards and no Connect that has begun will be. Disconnect looks the profile up
\* and leaves the tunnel of one that is gone.
Cut(i, after) ==
  /\ live' = [live EXCEPT ![i] = None]
  /\ link' = IF profile[i] = None THEN link ELSE [link EXCEPT ![i] = None]
  /\ call' = [d \in Callers |->
                IF call[d].op = "connect" /\ call[d].id = i
                  THEN [call[d] EXCEPT !.cut = TRUE] ELSE after[d]]

-----------------------------------------------------------------------------
(* SaveProfile and DeleteProfile                                           *)

\* The form is modal and waits for the answer: one save at a time
\* (frontend/src/components/ProfileDialog.tsx:280).
FormFree == \A d \in Callers : call[d].op \notin {"edit", "copy"}

\* The form shows the profile as it was listed when the dialog opened.
BeginEdit(c, i, site, tunnel) ==
  /\ FormFree /\ profile[i] # None
  /\ Begins(c, [Resting EXCEPT !.op = "edit", !.step = "load", !.id = i,
                  !.value = [ssh |-> site, tunnel |-> tunnel, cert |-> profile[i].cert]])
  /\ UNCHANGED <<stores, shows, told, approved, link, live, reverted>>

\* A changed tunnel address gives up the pinned certificate.
LoadForEdit(c) ==
  /\ At(c, "edit", "load")
  /\ LET old == profile[call[c].id]
         form == call[c].value IN
       IF old = None THEN Returns(c)
       ELSE call' = [call EXCEPT ![c].step = "upsert", ![c].old = old,
                       ![c].value.cert = IF Isolated(form) /\ ~SameTunnel(old, form)
                                           THEN None ELSE @]
  /\ UNCHANGED <<stores, shows, told, approved, link, live, calls, reverted>>

\* connectionChanged: the mode or the SSH address is another one. A new method of
\* authentication or a new secret, which the module does not have, counts as well.
ConnectionChanged(old, value) ==
  Isolated(old) # Isolated(value) \/ old.ssh # value.ssh

UpsertEdit(c) ==
  /\ At(c, "edit", "upsert")
  /\ profile' = [profile EXCEPT ![call[c].id] = call[c].value]
  /\ \/ Moves(c, "close")
     \/ ~ConnectionChanged(call[c].old, call[c].value) /\ Returns(c)
  /\ UNCHANGED <<last, known, pending, pendingCert, shows, told, approved, link, live, calls, reverted>>

CloseAfterEdit(c) ==
  /\ At(c, "edit", "close")
  /\ Cut(call[c].id, [call EXCEPT ![c] = Resting])
  /\ UNCHANGED <<stores, shows, told, approved, calls, reverted>>

\* A copy gets an identity of its own (uuid.NewString).
BeginCopy(c, i, site, tunnel) ==
  /\ FormFree /\ profile[i] # None /\ last < MaxIds
  /\ last' = last + 1
  /\ Begins(c, [Resting EXCEPT !.op = "copy", !.step = "load", !.id = last', !.from = i,
                  !.value = [ssh |-> site, tunnel |-> tunnel, cert |-> None]])
  /\ UNCHANGED <<profile, known, pending, pendingCert, shows, told, approved, link, live, reverted>>

\* The certificate of the source is kept for the same tunnel address.
LoadForCopy(c) ==
  /\ At(c, "copy", "load")
  /\ LET source == profile[call[c].from] IN
       IF source = None THEN Returns(c)
       ELSE call' = [call EXCEPT ![c].step = "trust", ![c].old = source,
                       ![c].value.cert = IF SameTunnel(source, call[c].value)
                                           THEN source.cert ELSE None]
  /\ UNCHANGED <<stores, shows, told, approved, link, live, calls, reverted>>

\* So is its host key for the same SSH address.
CopyTrust(c) ==
  /\ At(c, "copy", "trust")
  /\ known' = IF call[c].old.ssh = call[c].value.ssh
                THEN [known EXCEPT ![call[c].id] = known[call[c].from]] ELSE known
  /\ Moves(c, "upsert")
  /\ UNCHANGED <<last, profile, pending, pendingCert, shows, told, approved, link, live, calls, reverted>>

UpsertCopy(c) ==
  /\ At(c, "copy", "upsert")
  /\ \/ profile' = [profile EXCEPT ![call[c].id] = call[c].value] /\ UNCHANGED known
     \/ known' = [known EXCEPT ![call[c].id] = None] /\ UNCHANGED profile  \* the write failed
  /\ Returns(c)
  /\ UNCHANGED <<last, pending, pendingCert, shows, told, approved, link, live, calls, reverted>>

\* DeleteProfile closes first and deletes then.
BeginDelete(c, i) ==
  /\ profile[i] # None
  /\ Begins(c, [Resting EXCEPT !.op = "delete", !.step = "close", !.id = i])
  /\ UNCHANGED <<stores, shows, told, approved, link, live, reverted>>

CloseForDelete(c) ==
  /\ At(c, "delete", "close")
  /\ Cut(call[c].id, [call EXCEPT ![c].step = "erase"])
  /\ UNCHANGED <<stores, shows, told, approved, calls, reverted>>

Erase(c) ==
  /\ At(c, "delete", "erase")
  /\ profile' = [profile EXCEPT ![call[c].id] = None]
  /\ Moves(c, "forget")
  /\ UNCHANGED <<last, known, pending, pendingCert, shows, told, approved, link, live, calls, reverted>>

\* KnownHosts.Remove
Forget(c) ==
  /\ At(c, "delete", "forget")
  /\ known' = [known EXCEPT ![call[c].id] = None]
  /\ pending' = [pending EXCEPT ![call[c].id] = None]
  /\ Returns(c)
  /\ UNCHANGED <<last, profile, pendingCert, shows, told, approved, link, live, calls, reverted>>

\* A store cannot be read or written: the call ends before the write.
StoreFails(c) ==
  /\ \/ At(c, "edit", "upsert") \/ At(c, "copy", "trust") \/ At(c, "accept", "upsert")
     \/ At(c, "delete", "erase") \/ At(c, "delete", "forget")
  /\ Returns(c)
  /\ UNCHANGED <<stores, shows, told, approved, link, live, calls, reverted>>

-----------------------------------------------------------------------------
(* The user's decisions                                                    *)

\* A bug: whatever waits is accepted, without comparing it with what was confirmed.
AcceptWhatWaits(i, print) ==
  /\ <<i, print>> \in told
  /\ approved' = approved \cup {print}
  /\ IF pending[i] # None
       THEN /\ known' = [known EXCEPT ![i] = pending[i]]
            /\ pending' = [pending EXCEPT ![i] = None]
       ELSE UNCHANGED <<known, pending>>
  /\ UNCHANGED <<last, profile, pendingCert, shows, told, link, live, call, calls, reverted>>

\* AcceptPending: under the lock, only what waits now can be confirmed.
AcceptKey(i, print) ==
  /\ <<i, print>> \in told
  /\ approved' = approved \cup {print}
  /\ IF pending[i] = print
       THEN /\ known' = [known EXCEPT ![i] = print]
            /\ pending' = [pending EXCEPT ![i] = None]
       ELSE UNCHANGED <<known, pending>>
  /\ UNCHANGED <<last, profile, pendingCert, shows, told, link, live, call, calls, reverted>>

\* AcceptCertificate reads the profile, then what waits, and writes it back whole.
BeginAccept(c, i, print) ==
  /\ <<i, print>> \in told
  /\ approved' = approved \cup {print}
  /\ Begins(c, [Resting EXCEPT !.op = "accept", !.step = "read", !.id = i, !.from = print])
  /\ UNCHANGED <<stores, shows, told, link, live, reverted>>

ReadForAccept(c) ==
  /\ At(c, "accept", "read")
  /\ LET value == profile[call[c].id] IN
       IF value = None \/ ~Isolated(value) THEN Returns(c)
       ELSE call' = [call EXCEPT ![c].step = "check", ![c].old = value,
                       ![c].value = [value EXCEPT !.cert = call[c].from]]
  /\ UNCHANGED <<stores, shows, told, approved, link, live, calls, reverted>>

CheckPending(c) ==
  /\ At(c, "accept", "check")
  /\ IF pendingCert[call[c].id] = call[c].from THEN Moves(c, "upsert") ELSE Returns(c)
  /\ UNCHANGED <<stores, shows, told, approved, link, live, calls, reverted>>

UpsertAccept(c) ==
  /\ At(c, "accept", "upsert")
  /\ profile' = [profile EXCEPT ![call[c].id] = call[c].value]
  /\ reverted' = IF profile[call[c].id] = call[c].old THEN reverted
                 ELSE reverted \cup {call[c].id}
  /\ Moves(c, "clear")
  /\ UNCHANGED <<last, known, pending, pendingCert, shows, told, approved, link, live, calls>>

ClearPending(c) ==
  /\ At(c, "accept", "clear")
  /\ pendingCert' = [pendingCert EXCEPT ![call[c].id] = None]
  /\ Returns(c)
  /\ UNCHANGED <<last, profile, known, pending, shows, told, approved, link, live, calls, reverted>>

\* A server is set up anew, or another machine answers at its address.
ServerChanges(s) ==
  /\ shows' \in [Sites -> Prints] /\ shows'[s] # shows[s]
  /\ \A r \in Sites \ {s} : shows'[r] = shows[r]
  /\ UNCHANGED <<stores, told, approved, link, live, call, calls, reverted>>

\* The transport ends by itself; its watcher empties the cache.
ConnectionLost(i) ==
  /\ live[i] # None
  /\ live' = [live EXCEPT ![i] = None]
  /\ link' \in {link, [link EXCEPT ![i] = None]}
  /\ UNCHANGED <<stores, shows, told, approved, call, calls, reverted>>

-----------------------------------------------------------------------------

Connects(c) ==
  \/ \E i \in Ids : BeginConnect(c, i)
  \/ ReadForConnect(c) \/ ReadForTunnel(c) \/ TunnelRefused(c) \/ TunnelOpened(c)
  \/ Dial(c) \/ KeyRefused(c) \/ KeyMatches(c) \/ Install(c) \/ ConnectFails(c)

Saves(c) ==
  \/ \E i \in Ids, s \in Sites, t \in Sites \cup {None} : BeginEdit(c, i, s, t)
  \/ LoadForEdit(c) \/ UpsertEdit(c) \/ CloseAfterEdit(c)
  \/ \E i \in Ids, s \in Sites, t \in Sites \cup {None} : BeginCopy(c, i, s, t)
  \/ LoadForCopy(c) \/ CopyTrust(c) \/ UpsertCopy(c)

Deletes(c) ==
  \/ \E i \in Ids : BeginDelete(c, i)
  \/ CloseForDelete(c) \/ Erase(c) \/ Forget(c)

Accepts(c) ==
  \/ \E i \in Ids, p \in Prints : BeginAccept(c, i, p)
  \/ ReadForAccept(c) \/ CheckPending(c) \/ UpsertAccept(c) \/ ClearPending(c)

Next ==
  \/ \E c \in Callers : Connects(c) \/ Saves(c) \/ Deletes(c) \/ Accepts(c) \/ StoreFails(c)
  \/ \E i \in Ids, p \in Prints : AcceptKey(i, p)
  \/ \E s \in Sites : ServerChanges(s)
  \/ \E i \in Ids : ConnectionLost(i)

Spec == Init /\ [][Next]_vars

-----------------------------------------------------------------------------
(* Properties                                                              *)

TypeOK ==
  /\ last \in Ids
  /\ profile \in [Ids -> Profiles \cup {None}]
  /\ known \in [Ids -> Prints \cup {None}]
  /\ pending \in [Ids -> Prints \cup {None}]
  /\ pendingCert \in [Ids -> Prints \cup {None}]
  /\ told \subseteq Ids \X Prints /\ approved \subseteq Prints
  /\ link \in [Ids -> Sites \cup {None}]
  /\ live \in [Ids -> Clients \cup {None}]

\* No server is trusted, and no connection made, by a fingerprint the user has not
\* confirmed: not when the key changes while a dialog is open (known_hosts.go:70),
\* when trust is copied, or when two writers of one profile meet.
OnlyConfirmedServers ==
  \A i \in Ids :
    /\ known[i] \in approved \cup {None}
    /\ live[i] # None => live[i].print \in approved
    /\ profile[i] # None => profile[i].cert \in approved \cup {None}

Saving(i) == \E c \in Callers : At(c, "edit", "close") /\ call[c].id = i

\* Once a save is over, the connection leads to the SSH address that is stored: also
\* one that was being made from the older profile (service.go:251). The exceptions
\* are what a confirmation wrote back, and a profile that was deleted.
LiveFollowsSaved ==
  \A i \in Ids \ reverted :
    live[i] # None /\ profile[i] # None /\ ~Saving(i) => live[i].at = profile[i].ssh
=============================================================================
