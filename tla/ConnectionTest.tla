---------------------------- MODULE ConnectionTest ----------------------------
(***************************************************************************)
(* "Test tunnel" and "test SSH server" of the profile dialog:              *)
(* runConnectionTest and connectProbeTunnel of internal/app/service.go.  A *)
(* test connects with what the form says, in stores and managers of its    *)
(* own: there it confirms by itself a server nobody has confirmed yet, but *)
(* the trust that is saved for the same address stays in force.            *)
(***************************************************************************)
CONSTANTS Sites, Prints, None

VARIABLES
  saved,     \* the stored profile the form belongs to, or None
  recorded,  \* the host key that is recorded for it, or None
  shows,     \* the fingerprint the server at each address shows at present
  form,      \* what is tested
  base,      \* the stored profile as the test has read it
  place,
  cert, key, \* the test's own profile and known_hosts: what they trust
  seen,      \* the unknown fingerprint a server has shown to the test
  temporary, \* what the test has made: folder, link, client
  made,      \* the fingerprints link and client were made with
  outcome
stores == <<saved, recorded>>
vars == <<stores, shows, form, base, place, cert, key, seen, temporary, made, outcome>>

\* A tunnel of None stands for the mode direct_ssh; a whole test goes on to SSH.
Profiles == [ssh : Sites, tunnel : Sites \cup {None}, cert : Prints \cup {None}]
Forms == [ssh : Sites, tunnel : Sites \cup {None}, whole : BOOLEAN]
Isolated(value) == value.tunnel # None
SameTunnel(left, right) == Isolated(left) /\ left.tunnel = right.tunnel

TypeOK ==
  /\ saved \in Profiles \cup {None} /\ base \in Profiles \cup {None}
  /\ recorded \in Prints \cup {None} /\ shows \in [Sites -> Prints]
  /\ form \in Forms \cup {None}
  /\ {cert, key, seen} \subseteq Prints \cup {None}
  /\ temporary \subseteq {"folder", "link", "client"}
  /\ made \in [{"link", "client"} -> Prints \cup {None}]
  /\ outcome \in {"none", "ok", "failed"}

Init ==
  /\ saved \in {value \in Profiles : Isolated(value) \/ value.cert = None} \cup {None}
  /\ recorded \in IF saved = None THEN {None} ELSE Prints \cup {None}
  /\ shows \in [Sites -> Prints]
  /\ form = None /\ base = None /\ place = "form"
  /\ cert = None /\ key = None /\ seen = None
  /\ temporary = {} /\ made = [link |-> None, client |-> None] /\ outcome = "none"

\* TestTunnelConnection is refused for a form without a tunnel.
Begin ==
  /\ place = "form"
  /\ form' \in {f \in Forms : f.whole \/ Isolated(f)}
  /\ place' = "read"
  /\ UNCHANGED <<stores, shows, base, cert, key, seen, temporary, made, outcome>>

\* A bug: the test trusts no certificate to begin with.
CertificateForgotten(f, old) == None

\* The pinned certificate is taken over for the same tunnel address only.
CertificateFor(f, old) == IF old # None /\ Isolated(old) /\ SameTunnel(f, old)
                          THEN old.cert ELSE None

ReadSaved ==
  /\ place = "read"
  /\ base' = saved
  /\ cert' = CertificateFor(form, saved)
  /\ place' = "folder"
  /\ UNCHANGED <<stores, shows, form, key, seen, temporary, made, outcome>>

\* Folder, profile, secrets and manager of the test.
MakeFolder ==
  /\ place = "folder"
  /\ temporary' = {"folder"}
  /\ place' = IF Isolated(form) THEN "tunnel" ELSE "secret"
  /\ UNCHANGED <<stores, shows, form, base, cert, key, seen, made, outcome>>

\* A connect in the test's stores: made with the trusted fingerprint, or stopped
\* by an unknown one, which is then confirmed and connected to once more.  A
\* changed one blocks; that is among the failures.
ConnectPart(name, print, trusted, from, again, to) ==
  /\ place \in {from, again} /\ trusted = print
  /\ temporary' = temporary \cup {name}
  /\ made' = [made EXCEPT ![name] = print]
  /\ place' = to
  /\ UNCHANGED <<stores, shows, form, base, cert, key, seen, outcome>>

Unknown(print, trusted, from, to) ==
  /\ place = from /\ trusted = None
  /\ seen' = print
  /\ place' = to
  /\ UNCHANGED <<stores, shows, form, base, cert, key, temporary, made, outcome>>

ConnectTunnel ==
  ConnectPart("link", shows[form.tunnel], cert, "tunnel", "tunnelAgain",
              IF form.whole THEN "secret" ELSE "passed")
UnknownTunnel == Unknown(shows[form.tunnel], cert, "tunnel", "acceptCert")

AcceptCertificate ==
  /\ place = "acceptCert"
  /\ cert' = seen /\ seen' = None
  /\ place' = "tunnelAgain"
  /\ UNCHANGED <<stores, shows, form, base, key, temporary, made, outcome>>

\* The record of the profile is taken over for the same SSH address only; it is
\* read now, not when the profile was.
LookupKey ==
  /\ place = "secret"
  /\ key' = IF base # None /\ base.ssh = form.ssh THEN recorded ELSE None
  /\ place' = "ssh"
  /\ UNCHANGED <<stores, shows, form, base, cert, seen, temporary, made, outcome>>

ConnectSSH == ConnectPart("client", shows[form.ssh], key, "ssh", "sshAgain", "probe")
UnknownKey == Unknown(shows[form.ssh], key, "ssh", "acceptKey")

AcceptHostKey ==
  /\ place = "acceptKey"
  /\ key' = seen /\ seen' = None
  /\ place' = "sshAgain"
  /\ UNCHANGED <<stores, shows, form, base, cert, temporary, made, outcome>>

ProbeTerminal ==
  /\ place = "probe"
  /\ place' = "passed"
  /\ UNCHANGED <<stores, shows, form, base, cert, key, seen, temporary, made, outcome>>

Passes ==
  /\ place = "passed"
  /\ outcome' = "ok" /\ place' = "closeAll"
  /\ UNCHANGED <<stores, shows, form, base, cert, key, seen, temporary, made>>

\* Any step may fail: the form is invalid, a secret is neither typed nor saved for a
\* profile of this kind, a fingerprint has changed, the network or the 50 s end it.
Fails ==
  /\ place \notin {"form", "passed", "closeAll", "shutdown", "remove", "done"}
  /\ outcome' = "failed" /\ place' = "closeAll"
  /\ UNCHANGED <<stores, shows, form, base, cert, key, seen, temporary, made>>

\* The deferred calls, in this order; one that was not reached undoes nothing.
Undo(from, what, to) ==
  /\ place = from
  /\ temporary' = temporary \ what
  /\ place' = to
  /\ UNCHANGED <<stores, shows, form, base, cert, key, seen, made, outcome>>

CloseAll == Undo("closeAll", {"client"}, "shutdown")
Shutdown == Undo("shutdown", {"link"}, "remove")
RemoveAll == Undo("remove", {"folder"}, "done")

ServerChanges ==
  /\ place \in {"tunnel", "acceptCert", "tunnelAgain", "secret", "ssh", "acceptKey", "sshAgain"}
  /\ \E s \in Sites, print \in Prints : shows' = [shows EXCEPT ![s] = print]
  /\ UNCHANGED <<stores, form, base, place, cert, key, seen, temporary, made, outcome>>

\* Another call deletes the profile; had it done so before, the test would have
\* failed when it read it.
SavedDeleted ==
  /\ saved # None /\ base # None /\ place \in {"folder", "tunnel", "tunnelAgain", "secret"}
  /\ saved' = None /\ recorded' = None
  /\ UNCHANGED <<shows, form, base, place, cert, key, seen, temporary, made, outcome>>

Next ==
  \/ Begin \/ ReadSaved \/ MakeFolder
  \/ ConnectTunnel \/ UnknownTunnel \/ AcceptCertificate
  \/ LookupKey \/ ConnectSSH \/ UnknownKey \/ AcceptHostKey \/ ProbeTerminal
  \/ Passes \/ Fails \/ CloseAll \/ Shutdown \/ RemoveAll
  \/ ServerChanges \/ SavedDeleted

Spec == Init /\ [][Next]_vars

-----------------------------------------------------------------------------
(* Properties                                                              *)

\* A test that passes went to the servers that are trusted: where a certificate or a
\* key is saved for the address, to the one that has it ("a test does not change
\* what is trusted", user manual, line 61), elsewhere to the one it has looked at
\* before.  However it ended, nothing of it is left.
TestIsHonest ==
  /\ place = "done" => temporary = {}
  /\ outcome = "ok" =>
       /\ Isolated(form) =>
            /\ made["link"] = cert
            /\ base # None /\ SameTunnel(form, base) /\ base.cert # None => cert = base.cert
       /\ form.whole =>
            /\ made["client"] = key
            /\ base # None /\ base.ssh = form.ssh /\ recorded # None => key = recorded
=============================================================================
