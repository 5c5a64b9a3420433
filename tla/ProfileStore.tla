------------------------------ MODULE ProfileStore ------------------------------
(* The stores a saved connection consists of: the profile in profiles.json, its      *)
(* secrets in the system's vault, its record in known_hosts and, when it was         *)
(* imported, a private key file. No transaction spans them: a call writes one after  *)
(* the other, each write may fail, other calls come between, and the program may be  *)
(* quit. internal/app/service.go, internal/app/connection_bundle.go,                 *)
(* internal/profile/json_repository.go.                                              *)
EXTENDS Naturals, SequencesExt

CONSTANTS
  Callers,    \* goroutines in a method of the service
  MaxIds,     \* bound on the profiles that ever exist
  Names,      \* display names
  Kinds,      \* the combinations of authentication and mode that forms hold
  Given,      \* the secrets a form or a bundle may bring along
  None,
  MaxCalls,   \* bound on the calls of a behaviour
  MaxFaults   \* bound on the writes that fail

VARIABLES
  file,       \* profiles.json: the profile of an identity, or None
  vault,      \* the secrets of an identity
  trust,      \* identities with a record in known_hosts
  keyFiles,   \* identities with a file in private_keys
  last,       \* the last identity given out; they are UUIDs, never used again
  bundle,     \* the connections a bundle file at hand holds
  imports,    \* what became of the import of an identity
  call,       \* the place and the locals of a caller
  calls,      \* number of calls so far
  faults,     \* number of failures so far
  impaired    \* identities of which a call was broken off, or which a call took apart

vars == <<file, vault, trust, keyFiles, last, bundle, imports, call, calls, faults, impaired>>
stores == <<file, vault, trust, keyFiles>>

Ids == 1..MaxIds
Profiles == {[name |-> n, auth |-> k.auth, isolated |-> k.isolated] : n \in Names, k \in Kinds}

StoreAssumption == MaxIds \in Nat \ {0} /\ None \notin Profiles

\* The five keys of model/profile.go; path is that of a private key file, which is
\* plain or sealed with a passphrase.
Secrets == [psk : BOOLEAN, vpn : BOOLEAN, password : BOOLEAN, phrase : BOOLEAN,
            path : {"none", "plain", "sealed"}]

NoSecrets == [psk |-> FALSE, vpn |-> FALSE, password |-> FALSE, phrase |-> FALSE,
              path |-> "none"]

\* What connecting needs: authenticationMethods and IsolatedManager.Connect find it.
Enough(value, secrets) ==
  /\ value.isolated => secrets.vpn
  /\ value.auth = "password" => secrets.password
  /\ value.auth = "key" => secrets.path # "none" /\ (secrets.path = "sealed" => secrets.phrase)

\* The order of DeleteProfile and profileSecretKeys.
Keys == <<"psk", "vpn", "password", "path", "phrase">>

Resting == [op |-> "none", step |-> "idle", id |-> None, from |-> None, value |-> None,
            source |-> None, given |-> NoSecrets, copied |-> FALSE, all |-> <<>>, todo |-> <<>>]

\* A bundle from another computer: the names in it differ, as they did in its store.
Received ==
  {b \in {<<[value |-> u, secrets |-> g, trusted |-> TRUE],
           [value |-> v, secrets |-> [g EXCEPT !.password = TRUE], trusted |-> FALSE]>> :
             u \in {w \in Profiles : w.auth = "key"},
             v \in {w \in Profiles : w.auth = "password"},
             g \in {h \in Given : h.path = "sealed" /\ h.vpn /\ h.phrase}} :
     b[1].value.name # b[2].value.name}

Init ==
  /\ \E v \in Profiles, g \in Given :
       /\ Enough(v, g)
       /\ file = [i \in Ids |-> IF i = 1 THEN v ELSE None]
       /\ vault = [i \in Ids |-> IF i = 1 THEN g ELSE NoSecrets]
  /\ trust = {1} /\ last = 1
  /\ keyFiles = {}
  /\ bundle \in {<<>>} \cup Received
  /\ imports = [i \in Ids |-> "none"]
  /\ call = [c \in Callers |-> Resting]
  /\ calls = 0 /\ faults = 0
  /\ impaired = {}

At(c, op, step) == call[c].op = op /\ call[c].step = step
Returns(c) == call' = [call EXCEPT ![c] = Resting]

Begins(c, how) ==
  /\ call[c].step = "idle" /\ calls < MaxCalls
  /\ call' = [call EXCEPT ![c] = how]
  /\ calls' = calls + 1

-----------------------------------------------------------------------------
(* Writes: every one is atomic, under the lock of its store and by renaming a     *)
(* finished file over the old one (JSONRepository.write, KnownHosts.write,        *)
(* writeImportedPrivateKey).                                                      *)

Write(kind, i, arg, val) == [kind |-> kind, id |-> i, arg |-> arg, val |-> val]
Put(i, key, val) == Write("put", i, key, val)

\* A bug: a removed secret stays as an entry without a value.
DropAsEmpty(i, key) == Write("put", i, key, None)

Drop(i, key) == Write("put", i, key, NoSecrets[key])

\* Upsert looks for another profile of the same name under the lock.
NameFree(i, name) == \A j \in Ids \ {i} : file[j] # None => file[j].name # name

Possible(w) == w.kind = "upsert" => NameFree(w.id, w.val.name)

\* A copy takes over the record its source has now; ServerTrust has the addresses.
Trusts(w) == w.kind = "trust" /\ (w.arg = None \/ w.arg \in trust)

Performed(w) ==
  /\ file' = IF w.kind = "upsert" THEN [file EXCEPT ![w.id] = w.val]
             ELSE IF w.kind = "erase" THEN [file EXCEPT ![w.id] = None] ELSE file
  /\ vault' = IF w.kind = "put" THEN [vault EXCEPT ![w.id][w.arg] = w.val]
              ELSE IF w.kind = "dropAll" THEN [vault EXCEPT ![w.id] = NoSecrets] ELSE vault
  /\ trust' = IF Trusts(w) THEN trust \cup {w.id}
              ELSE IF w.kind = "untrust" THEN trust \ {w.id} ELSE trust
  /\ keyFiles' = IF w.kind = "keyFile" THEN keyFiles \cup {w.id}
                 ELSE IF w.kind = "unlink" THEN keyFiles \ {w.id} ELSE keyFiles

\* The next write of a call, and its return after the last one.
WriteNext(c) ==
  /\ call[c].step = "write" /\ call[c].todo # <<>>
  /\ Possible(Head(call[c].todo))
  /\ Performed(Head(call[c].todo))
  /\ call' = [call EXCEPT ![c].todo = Tail(@),
                          ![c].copied = @ \/ Trusts(Head(call[c].todo))]
  /\ UNCHANGED <<last, bundle, imports, calls, faults, impaired>>

Finish(c) ==
  /\ call[c].step = "write" /\ call[c].todo = <<>>
  /\ imports' = [i \in Ids |-> IF call[c].op = "import" /\ i \in ToSet(call[c].all)
                                 THEN "done" ELSE imports[i]]
  /\ Returns(c)
  /\ UNCHANGED <<stores, last, bundle, calls, faults, impaired>>

-----------------------------------------------------------------------------
(* SaveProfile                                                             *)

\* One form at a time (frontend/src/components/ProfileDialog.tsx:280).
FormFree == \A d \in Callers : call[d].op \notin {"new", "copy", "edit"}

BeginNew(c, value, given) ==
  /\ FormFree /\ last < MaxIds
  /\ last' = last + 1
  /\ Begins(c, [Resting EXCEPT !.op = "new", !.step = "check", !.id = last', !.value = value,
                  !.given = given])
  /\ UNCHANGED <<stores, bundle, imports, faults, impaired>>

BeginCopy(c, i, value, given) ==
  /\ FormFree /\ file[i] # None /\ last < MaxIds
  /\ last' = last + 1
  /\ Begins(c, [Resting EXCEPT !.op = "copy", !.step = "load", !.id = last', !.from = i,
                  !.value = value, !.given = given])
  /\ UNCHANGED <<stores, bundle, imports, faults, impaired>>

BeginEdit(c, i, value, given) ==
  /\ FormFree /\ file[i] # None
  /\ Begins(c, [Resting EXCEPT !.op = "edit", !.step = "load", !.id = i, !.value = value,
                  !.given = given])
  /\ impaired' = IF imports[i] = "running" THEN impaired \cup {i} ELSE impaired
  /\ UNCHANGED <<stores, last, bundle, imports, faults>>

\* The source of a copy, or the profile as it was.
LoadForSave(c) ==
  /\ call[c].op \in {"copy", "edit"} /\ call[c].step = "load"
  /\ LET source == file[IF call[c].op = "copy" THEN call[c].from ELSE call[c].id] IN
       IF source = None THEN Returns(c)
       ELSE call' = [call EXCEPT ![c].step = "check", ![c].source = source]
  /\ UNCHANGED <<stores, last, bundle, imports, calls, faults, impaired>>

\* Whose secrets stand in for those the form leaves blank: the source's when it uses
\* the same kind of them.
Behind(c, sameKind) == IF call[c].op = "copy" /\ sameKind THEN call[c].from ELSE call[c].id

\* resolvePrivateKeyCredential and resolvePasswordCredential.
Resolved(c) ==
  LET v == call[c].value
      g == call[c].given
      s == call[c].source
      copy == call[c].op = "copy"
      forSsh == vault[Behind(c, copy /\ s.auth = v.auth)]
      forTunnel == vault[Behind(c, copy /\ s.isolated)] IN
    [path |-> IF g.path # "none" THEN g.path ELSE forSsh.path,
     phrase |-> g.phrase \/ forSsh.phrase,
     password |-> g.password \/ forSsh.password,
     vpn |-> g.vpn \/ forTunnel.vpn,
     psk |-> g.psk \/ (copy /\ s.isolated /\ forTunnel.psk)]

\* A bug: the profile is stored before its secrets.
ProfileFirst(c, r, sameSite) ==
  LET i == call[c].id
      v == call[c].value
      If(cond, w) == IF cond THEN <<w>> ELSE <<>> IN
    <<Write("upsert", i, None, v)>>
    \o If(v.auth = "key", Put(i, "path", r.path))
    \o If(v.auth = "key" /\ r.path = "sealed", Put(i, "phrase", TRUE))
    \o If(v.auth # "key", Put(i, "password", TRUE))
    \o If(v.isolated, Put(i, "vpn", TRUE))

\* secretValues and what follows: a secret is written when the profile is new or the form brings it.
SaveWrites(c, r, sameSite) ==
  LET i == call[c].id
      v == call[c].value
      g == call[c].given
      isNew == call[c].op # "edit"
      If(cond, w) == IF cond THEN <<w>> ELSE <<>>
      key == v.auth = "key" IN
    If(key /\ (isNew \/ g.path # "none"), Put(i, "path", r.path))
    \o If(key /\ r.path = "sealed" /\ (isNew \/ g.phrase), Put(i, "phrase", TRUE))
    \o If(~key /\ (isNew \/ g.password), Put(i, "password", TRUE))
    \o If(v.isolated /\ (isNew \/ g.vpn), Put(i, "vpn", TRUE))
    \o If(v.isolated /\ r.psk, Put(i, "psk", TRUE))
    \o If(key /\ r.path = "plain", Drop(i, "phrase"))
    \o If(call[c].op = "copy" /\ sameSite, Write("trust", i, call[c].from, TRUE))
    \o <<Write("upsert", i, None, v)>>

\* Names first, then the secrets: what is missing ends the call before any write.
\* sameSite: a copy keeps the SSH address of its source (sameSSHEndpoint).
Check(c) ==
  /\ call[c].op \in {"new", "copy", "edit"} /\ call[c].step = "check"
  /\ LET r == Resolved(c) IN
       IF NameFree(call[c].id, call[c].value.name) /\ Enough(call[c].value, r)
         THEN \E sameSite \in BOOLEAN :
                call' = [call EXCEPT ![c] = [Resting EXCEPT !.op = call[c].op, !.step = "write",
                           !.id = call[c].id, !.todo = SaveWrites(c, r, sameSite)]]
         ELSE Returns(c)
  /\ UNCHANGED <<stores, last, bundle, imports, calls, faults, impaired>>

-----------------------------------------------------------------------------
(* DeleteProfile and ClearCredential                                       *)

BeginDelete(c, i, deleteSecrets) ==
  /\ file[i] # None
  /\ Begins(c, [Resting EXCEPT !.op = "delete", !.step = "write", !.id = i,
                  !.todo = <<Write("erase", i, None, None), Write("untrust", i, None, None)>>
                           \o IF deleteSecrets THEN [n \in 1..5 |-> Drop(i, Keys[n])] ELSE <<>>])
  /\ impaired' = impaired \cup {i}
  /\ UNCHANGED <<stores, last, bundle, imports, faults>>

BeginClear(c, i, keys) ==
  /\ file[i] # None
  /\ Begins(c, [Resting EXCEPT !.op = "clear", !.step = "write", !.id = i,
                  !.todo = [n \in DOMAIN keys |-> Drop(i, keys[n])]])
  /\ impaired' = impaired \cup {i}
  /\ UNCHANGED <<stores, last, bundle, imports, faults>>

-----------------------------------------------------------------------------
(* ExportConnectionBundle and ImportConnectionBundle                       *)

BeginExport(c, i) ==
  /\ file[i] # None
  /\ Begins(c, [Resting EXCEPT !.op = "export", !.step = "collect", !.id = i, !.value = file[i]])
  /\ UNCHANGED <<stores, last, bundle, imports, faults, impaired>>

\* collectBundleProfile: the secrets are read after the profile; a missing one ends it.
Collect(c) ==
  /\ At(c, "export", "collect")
  /\ LET i == call[c].id IN
       bundle' = IF Enough(call[c].value, vault[i])
                   THEN <<[value |-> call[c].value, secrets |-> vault[i], trusted |-> i \in trust]>>
                   ELSE bundle
  /\ Returns(c)
  /\ UNCHANGED <<stores, last, imports, calls, faults, impaired>>

\* Every connection of the bundle gets a new identity.
BeginImport(c) ==
  /\ bundle # <<>> /\ last + Len(bundle) <= MaxIds
  /\ last' = last + Len(bundle)
  /\ imports' = [i \in Ids |-> IF i > last /\ i <= last' THEN "running" ELSE imports[i]]
  /\ Begins(c, [Resting EXCEPT !.op = "import", !.step = "plan", !.source = bundle,
                  !.all = [n \in DOMAIN bundle |-> last + n]])
  /\ UNCHANGED <<stores, bundle, faults, impaired>>

ImportWrites(i, item, name) ==
  LET v == item.value
      g == item.secrets
      If(cond, w) == IF cond THEN <<w>> ELSE <<>>
      key == v.auth = "key" IN
    If(key, Write("keyFile", i, None, TRUE))
    \o If(key, Put(i, "path", g.path))
    \o If(key /\ g.path = "sealed", Put(i, "phrase", TRUE))
    \o If(~key, Put(i, "password", TRUE))
    \o If(v.isolated, Put(i, "vpn", TRUE))
    \o If(v.isolated /\ g.psk, Put(i, "psk", TRUE))
    \o <<Write("upsert", i, None, [v EXCEPT !.name = name])>>
    \o If(item.trusted, Write("trust", i, None, TRUE))

\* uniqueImportedProfileName: a name that is taken is replaced by one that was free
\* when the profiles were listed.
Plan(c) ==
  /\ At(c, "import", "plan")
  /\ \E names \in [DOMAIN call[c].all -> Names] :
       LET taken(n) == {file[i].name : i \in {j \in Ids : file[j] # None}}
                         \cup {names[m] : m \in 1..(n - 1)} IN
         /\ \A n \in DOMAIN names :
              /\ names[n] \notin taken(n)
              /\ call[c].source[n].value.name \notin taken(n) =>
                   names[n] = call[c].source[n].value.name
         /\ call' = [call EXCEPT ![c].step = "write", ![c].source = None,
                       ![c].todo = FlattenSeq([n \in DOMAIN names |->
                         ImportWrites(call[c].all[n], call[c].source[n], names[n])])]
  /\ UNCHANGED <<stores, last, bundle, imports, calls, faults, impaired>>

\* A bug: the key file that was written is not removed.
RollbackWithoutFile(i) ==
  <<Write("erase", i, None, None), Write("untrust", i, None, None),
    Write("dropAll", i, None, None)>>

\* rollback: for each connection of the import everything it may have written; the
\* five keys go together, since what fails here is passed over.
RollbackWrites(i) ==
  <<Write("erase", i, None, None), Write("untrust", i, None, None),
    Write("dropAll", i, None, None), Write("unlink", i, None, None)>>

Rollback(c) ==
  /\ At(c, "rollback", "undo") /\ call[c].todo # <<>>
  /\ Performed(Head(call[c].todo))
  /\ call' = [call EXCEPT ![c].todo = Tail(@)]
  /\ UNCHANGED <<last, bundle, imports, calls, faults, impaired>>

\* A step of the rollback that fails is passed over.
RollbackFault(c) ==
  /\ At(c, "rollback", "undo") /\ call[c].todo # <<>> /\ faults < MaxFaults
  /\ faults' = faults + 1
  /\ impaired' = impaired \cup {Head(call[c].todo).id}
  /\ call' = [call EXCEPT ![c].todo = Tail(@)]
  /\ UNCHANGED <<stores, last, bundle, imports, calls>>

RolledBack(c) ==
  /\ At(c, "rollback", "undo") /\ call[c].todo = <<>>
  /\ imports' = [i \in Ids |-> IF i \in ToSet(call[c].all) THEN "undone" ELSE imports[i]]
  /\ Returns(c)
  /\ UNCHANGED <<stores, last, bundle, calls, faults, impaired>>

-----------------------------------------------------------------------------
(* Failures                                                                *)

\* A write fails, or a name was taken since the names were looked at. An import rolls
\* back, a copy takes back the trust it has copied when its last write fails, any
\* other call returns as it is.
WriteFails(c) ==
  /\ call[c].step = "write" /\ call[c].todo # <<>>
  /\ LET w == Head(call[c].todo) IN
       /\ IF Possible(w) THEN faults < MaxFaults /\ faults' = faults + 1 ELSE faults' = faults
       /\ IF call[c].op = "import"
            THEN /\ call' = [call EXCEPT ![c].op = "rollback", ![c].step = "undo",
                               ![c].todo = FlattenSeq([n \in DOMAIN call[c].all |->
                                                         RollbackWrites(call[c].all[n])])]
                 /\ UNCHANGED <<trust, impaired>>
            ELSE /\ Returns(c)
                 /\ trust' = IF w.kind = "upsert" /\ call[c].copied THEN trust \ {w.id} ELSE trust
                 /\ impaired' = IF call[c].op = "edit" THEN impaired \cup {w.id} ELSE impaired
  /\ UNCHANGED <<file, vault, keyFiles, last, bundle, imports, calls>>

\* The program is quit: what was written stays, what was not is never written.
Quit ==
  /\ faults < MaxFaults
  /\ faults' = faults + 1
  /\ \E c \in Callers : call[c].step # "idle"
  /\ impaired' = impaired \cup UNION {{call[c].id} \cup ToSet(call[c].all) : c \in Callers}
  /\ call' = [c \in Callers |-> Resting]
  /\ UNCHANGED <<stores, last, bundle, imports, calls>>

-----------------------------------------------------------------------------

Saves(c) ==
  \/ \E i \in Ids, v \in Profiles, g \in Given :
       BeginEdit(c, i, v, g) \/ BeginCopy(c, i, v, g)
  \/ \E v \in Profiles, g \in Given : BeginNew(c, v, g)
  \/ LoadForSave(c) \/ Check(c)

Removes(c) ==
  \E i \in Ids :
    \/ \E deleteSecrets \in BOOLEAN : BeginDelete(c, i, deleteSecrets)
    \/ \E keys \in {<<"psk">>, <<"vpn">>, <<"password">>, <<"path", "phrase">>} :
         BeginClear(c, i, keys)

Bundles(c) ==
  \/ \E i \in Ids : BeginExport(c, i)
  \/ Collect(c)
  \/ BeginImport(c)
  \/ Plan(c) \/ Rollback(c) \/ RollbackFault(c) \/ RolledBack(c)

Next ==
  \/ \E c \in Callers :
       Saves(c) \/ Removes(c) \/ Bundles(c) \/ WriteNext(c) \/ Finish(c) \/ WriteFails(c)
  \/ Quit

Spec == Init /\ [][Next]_vars

-----------------------------------------------------------------------------
(* Properties                                                              *)

TypeOK ==
  /\ file \in [Ids -> Profiles \cup {None}]
  /\ vault \in [Ids -> Secrets]
  /\ trust \subseteq Ids /\ keyFiles \subseteq Ids /\ last \in Ids
  /\ imports \in [Ids -> {"none", "running", "done", "undone"}]
  /\ impaired \subseteq Ids \cup {None}

Editing(i) == \E c \in Callers : call[c].op = "edit" /\ call[c].id = i

\* A stored profile has the secrets it needs at every moment, whatever else is being
\* saved, copied, imported or rolled back: a Connect that reads it finds them. Left out
\* are profiles that are being edited, and those a broken edit, a deletion or a
\* cleared credential has taken apart.
CredentialsInPlace ==
  \A i \in Ids :
    file[i] # None /\ i \notin impaired /\ ~Editing(i) => Enough(file[i], vault[i])

\* An import is there as a whole or not at all (the comment at connection_bundle.go:305),
\* whichever write failed and whatever name another call took meanwhile.
ImportAllOrNothing ==
  \A i \in Ids \ impaired :
    /\ imports[i] = "done" => file[i] # None
    /\ imports[i] = "undone" =>
         file[i] = None /\ vault[i] = NoSecrets /\ i \notin trust /\ i \notin keyFiles
=============================================================================
