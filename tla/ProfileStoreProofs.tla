--------------------------- MODULE ProfileStoreProofs ---------------------------
(***************************************************************************)
(* Theorems about the stores of a saved connection (ProfileStore), for any *)
(* number of callers, profiles, names, calls and failures: a stored        *)
(* profile has its secrets, and an import is whole or leaves nothing.      *)
(***************************************************************************)
EXTENDS StoresProofs, SequenceTheorems

-----------------------------------------------------------------------------
(* Types                                                                   *)

Secret == {"psk", "vpn", "password", "phrase", "path"}
ValuesOf(key) == IF key = "path" THEN {"none", "plain", "sealed"} ELSE BOOLEAN

Writes ==
  {w \in [kind : {"put", "dropAll", "upsert", "erase", "trust", "untrust", "keyFile", "unlink"},
          id : Store!Ids, arg : Secret \cup Store!Ids \cup {None},
          val : Store!Profiles \cup BOOLEAN \cup ValuesOf("path") \cup {None}] :
     /\ w.kind = "upsert" => w.val \in Store!Profiles
     /\ w.kind = "put" => w.arg \in Secret /\ w.val \in ValuesOf(w.arg)}

\* A connection of a bundle can be connected.
Items ==
  {b \in [value : Store!Profiles, secrets : Store!Secrets, trusted : BOOLEAN] :
     Store!Enough(b.value, b.secrets)}

Bundles == {b \in Seq(Items) : Len(b) <= 2}

StoreLocals ==
  [op : {"none", "new", "copy", "edit", "delete", "clear", "export", "import", "rollback"},
   step : {"idle", "load", "check", "write", "collect", "plan", "undo"},
   id : Store!Ids \cup {None}, from : Store!Ids \cup {None},
   value : Store!Profiles \cup {None}, source : Store!Profiles \cup Bundles \cup {None},
   given : Store!Secrets, copied : BOOLEAN, all : Seq(Store!Ids), todo : Seq(Writes)]

\* The identities a call is about.
Aims(k) == IF k.op \in {"import", "rollback"} THEN Store!ToSet(k.all) ELSE {k.id}

\* Two connections of an import have two identities.
Distinct(all) == \A m, n \in 1..Len(all) : all[m] = all[n] => m = n

StepOf(k) ==
  CASE k.op = "none" -> {"idle"}
    [] k.op = "new" -> {"check", "write"}
    [] k.op \in {"copy", "edit"} -> {"load", "check", "write"}
    [] k.op \in {"delete", "clear"} -> {"write"}
    [] k.op = "export" -> {"collect"}
    [] k.op = "import" -> {"plan", "write"}
    [] k.op = "rollback" -> {"undo"}

CallShaped(k) ==
  /\ k.step \in StepOf(k)
  /\ k.op \notin {"none", "import", "rollback"} => k.id \in Store!Ids
  /\ k.op \in {"new", "copy", "edit"} /\ k.step # "write" => k.value \in Store!Profiles
  /\ k.op \in {"copy", "edit"} /\ k.step = "check" => k.source \in Store!Profiles
  /\ k.op = "copy" /\ k.step # "write" => k.from \in Store!Ids
  /\ k.op = "export" => k.value \in Store!Profiles
  /\ k.op = "import" /\ k.step = "plan" => k.source \in Bundles /\ Len(k.source) = Len(k.all)
  /\ k.op \in {"import", "rollback"} => Distinct(k.all) /\ Len(k.all) \in {1, 2}
  /\ \A n \in 1..Len(k.todo) : k.todo[n].id \in Aims(k)
  /\ k.op = "rollback" =>
       \A n \in 1..Len(k.todo) : k.todo[n].kind \in {"erase", "untrust", "dropAll", "unlink"}

StoreTyped ==
  /\ Store!TypeOK /\ bundle \in Bundles
  /\ call \in [Callers -> StoreLocals]
  /\ \A c \in Callers : CallShaped(call[c])

-----------------------------------------------------------------------------
(* What a call that writes an identity has done and has still to do; f, s  *)
(* and m stand for the identity's profile, secrets and import              *)

\* The writes a sequence holds for an identity lead to the profile v and the secrets r,
\* the profile after the secrets.
Planned(t, i, v, r) ==
  /\ \A n \in 1..Len(t) : t[n].id = i =>
       /\ t[n].kind \notin {"erase", "dropAll"}
       /\ t[n].kind = "upsert" => t[n].val = v
       /\ t[n].kind = "put" =>
            /\ t[n].val = r[t[n].arg]
            /\ \E l \in 1..Len(t) : n < l /\ t[l].kind = "upsert" /\ t[l].id = i
  /\ \A n, l \in 1..Len(t) :
       t[n].kind = "upsert" /\ t[n].id = i /\ t[l].kind = "upsert" /\ t[l].id = i => n = l

Has(t, kind, i) == \E n \in 1..Len(t) : t[n].kind = kind /\ t[n].id = i
HasPut(t, key, i) == \E n \in 1..Len(t) : t[n].kind = "put" /\ t[n].id = i /\ t[n].arg = key

\* The profile is stored once its secrets are; a new one is not there before.
Coming(t, i, f, s, isNew) ==
  \E v \in Store!Profiles, r \in Store!Secrets :
    /\ Store!Enough(v, r)
    /\ Planned(t, i, v, r)
    /\ \A key \in Secret \ {"psk"} : s[key] = r[key] \/ HasPut(t, key, i)
    /\ IF Has(t, "upsert", i) THEN isNew => f = None ELSE f = v

\* Everything is taken back, the profile before its secrets.
Undoing(t, i, f, s, trusted, hasFile) ==
  /\ f = None \/ Has(t, "erase", i)
  /\ s = Store!NoSecrets \/ Has(t, "dropAll", i)
  /\ trusted => Has(t, "untrust", i)
  /\ hasFile => Has(t, "unlink", i)
  /\ \A n \in 1..Len(t) : t[n].kind = "dropAll" /\ t[n].id = i =>
       f = None \/ \E l \in 1..Len(t) : l < n /\ t[l].kind = "erase" /\ t[l].id = i

Writing(k, i) == k.op \in {"new", "copy", "edit", "import", "rollback"} /\ i \in Aims(k)

Phase(k, i, f, s, m, trusted, hasFile) ==
  /\ k.op \in {"new", "copy"} =>
       /\ m = "none"
       /\ IF k.step = "write" THEN Coming(k.todo, i, f, s, TRUE) ELSE f = None /\ s = Store!NoSecrets
  /\ k.op = "edit" =>
       /\ m \notin {"running", "undone"} /\ f # None
       /\ IF k.step = "write" THEN Coming(k.todo, i, f, s, FALSE) ELSE Store!Enough(f, s)
  /\ k.op = "import" =>
       /\ m = "running"
       /\ IF k.step = "write" THEN Coming(k.todo, i, f, s, TRUE) ELSE f = None /\ s = Store!NoSecrets
  /\ k.op = "rollback" => m = "running" /\ Undoing(k.todo, i, f, s, trusted, hasFile)

-----------------------------------------------------------------------------
(* The invariant                                                           *)

InPhase(i) ==
  \A c \in Callers : Writing(call[c], i) =>
    Phase(call[c], i, file[i], vault[i], imports[i], i \in trust, i \in keyFiles)

OneWriter(i) ==
  /\ \A c, d \in Callers : Writing(call[c], i) /\ Writing(call[d], i) => c = d
  /\ \A c \in Callers : call[c].op \in {"delete", "clear"} => call[c].id # i

Secured(i) == file[i] # None /\ ~Store!Editing(i) => Store!Enough(file[i], vault[i])

Settled(i) ==
  /\ imports[i] = "done" => file[i] # None
  /\ imports[i] = "undone" =>
       file[i] = None /\ vault[i] = Store!NoSecrets /\ i \notin trust /\ i \notin keyFiles

\* An identity that was not given out yet.
Untouched(i) ==
  /\ file[i] = None /\ vault[i] = Store!NoSecrets /\ i \notin trust /\ i \notin keyFiles
  /\ imports[i] = "none"
  /\ \A c \in Callers : call[c].op # "none" => i \notin Aims(call[c])

StoreInv ==
  /\ StoreTyped
  /\ \A i \in Store!Ids : i > last => Untouched(i)
  /\ \A i \in Store!Ids \ impaired : InPhase(i) /\ OneWriter(i) /\ Secured(i) /\ Settled(i)

StorePart == part = "store" => StoreInv

-----------------------------------------------------------------------------
(* Secrets and sequences of writes                                         *)

LEMMA PutTyped ==
  ASSUME NEW s \in Store!Secrets, NEW key \in Secret, NEW x \in ValuesOf(key)
  PROVE  LET r == [s EXCEPT ![key] = x] IN
           /\ r \in Store!Secrets
           /\ \A k \in Secret : r[k] = IF k = key THEN x ELSE s[k]
<1>1. CASE key = "path"
  BY <1>1 DEF Store!Secrets, Secret, ValuesOf
<1>2. CASE key # "path"
  BY <1>2 DEF Store!Secrets, Secret, ValuesOf
<1> QED
  BY <1>1, <1>2

LEMMA EnoughSame ==
  ASSUME NEW v, NEW r \in Store!Secrets, NEW s \in Store!Secrets, Store!Enough(v, r),
         \A key \in Secret \ {"psk"} : s[key] = r[key]
  PROVE  Store!Enough(v, s)
<1>1. s.vpn = r.vpn /\ s.password = r.password /\ s.phrase = r.phrase /\ s.path = r.path
  BY DEF Secret
<1> QED
  BY <1>1 DEF Store!Enough

LEMMA TailShifts ==
  ASSUME NEW S, NEW t \in Seq(S), t # <<>>
  PROVE  /\ Tail(t) \in Seq(S) /\ Len(Tail(t)) = Len(t) - 1 /\ Len(t) \in Nat \ {0}
         /\ Head(t) = t[1] /\ t[1] \in S
         /\ \A n \in 1..Len(Tail(t)) : n + 1 \in 1..Len(t) /\ Tail(t)[n] = t[n + 1]
         /\ \A n \in 1..Len(t) : n = 1 \/ (n - 1 \in 1..Len(Tail(t)) /\ Tail(t)[n - 1] = t[n])
<1>1. /\ Head(t) \in S /\ Tail(t) \in Seq(S) /\ Len(Tail(t)) = Len(t) - 1
      /\ \A n \in 1..Len(Tail(t)) : Tail(t)[n] = t[n + 1]
  BY HeadTailProperties
<1>2. Len(t) \in Nat \ {0} /\ Head(t) = t[1]
  BY EmptySeq, LenProperties
<1> QED
  BY <1>1, <1>2

\* What is pending after the first write.
LEMMA HasTail ==
  ASSUME NEW t \in Seq(Writes), t # <<>>, NEW i
  PROVE  /\ \A kind : Has(t, kind, i) <=>
                        Has(Tail(t), kind, i) \/ (t[1].kind = kind /\ t[1].id = i)
         /\ \A key : HasPut(t, key, i) <=>
                       \/ HasPut(Tail(t), key, i)
                       \/ t[1].kind = "put" /\ t[1].id = i /\ t[1].arg = key
<1>1. 1 \in 1..Len(t)
  BY TailShifts
<1>2. ASSUME NEW kind
      PROVE  Has(t, kind, i) <=> Has(Tail(t), kind, i) \/ (t[1].kind = kind /\ t[1].id = i)
  BY <1>1, TailShifts DEF Has
<1>3. ASSUME NEW key
      PROVE  HasPut(t, key, i) <=> \/ HasPut(Tail(t), key, i)
                                   \/ t[1].kind = "put" /\ t[1].id = i /\ t[1].arg = key
  <2>1. CASE HasPut(Tail(t), key, i)
    BY <1>1, <2>1, TailShifts DEF HasPut
  <2>2. CASE HasPut(t, key, i)
    <3>1. PICK n \in 1..Len(t) : t[n].kind = "put" /\ t[n].id = i /\ t[n].arg = key
      BY <2>2 DEF HasPut
    <3>2. CASE n = 1
      BY <1>1, <3>1, <3>2 DEF HasPut
    <3>3. CASE n # 1
      <4>1. n - 1 \in 1..Len(Tail(t)) /\ Tail(t)[n - 1] = t[n]
        BY <3>3, TailShifts
      <4> QED
        BY <2>2, <3>1, <4>1 DEF HasPut
    <3> QED
      BY <3>2, <3>3
  <2> QED
    BY <1>1, <2>1, <2>2 DEF HasPut
<1> QED
  BY <1>2, <1>3

LEMMA PlannedTail ==
  ASSUME NEW t \in Seq(Writes), t # <<>>, NEW i, NEW v, NEW r, Planned(t, i, v, r)
  PROVE  /\ Planned(Tail(t), i, v, r)
         /\ t[1].id = i => /\ t[1].kind \notin {"erase", "dropAll"}
                           /\ t[1].kind = "upsert" => t[1].val = v /\ ~Has(Tail(t), "upsert", i)
                           /\ t[1].kind = "put" => t[1].val = r[t[1].arg]
<1> DEFINE u == Tail(t)
<1>1. /\ Len(u) = Len(t) - 1 /\ Len(t) \in Nat \ {0} /\ 1 \in 1..Len(t)
      /\ \A n \in 1..Len(u) : n + 1 \in 1..Len(t) /\ u[n] = t[n + 1]
      /\ \A n \in 1..Len(t) : n = 1 \/ (n - 1 \in 1..Len(u) /\ u[n - 1] = t[n])
  BY TailShifts
<1> HIDE DEF u
<1>2. ASSUME NEW n \in 1..Len(u), u[n].id = i, u[n].kind = "put"
      PROVE  \E l \in 1..Len(u) : n < l /\ u[l].kind = "upsert" /\ u[l].id = i
  <2>1. PICK l \in 1..Len(t) : n + 1 < l /\ t[l].kind = "upsert" /\ t[l].id = i
    BY <1>1, <1>2 DEF Planned
  <2>2. l - 1 \in 1..Len(u) /\ u[l - 1] = t[l] /\ n < l - 1
    BY <1>1, <2>1
  <2> QED
    BY <2>1, <2>2
<1>3. \A n \in 1..Len(u) : u[n].id = i =>
        /\ u[n].kind \notin {"erase", "dropAll"}
        /\ u[n].kind = "upsert" => u[n].val = v
        /\ u[n].kind = "put" => u[n].val = r[u[n].arg]
  BY <1>1 DEF Planned
<1>4. \A n, l \in 1..Len(u) :
        u[n].kind = "upsert" /\ u[n].id = i /\ u[l].kind = "upsert" /\ u[l].id = i => n = l
  <2> SUFFICES ASSUME NEW n \in 1..Len(u), NEW l \in 1..Len(u), u[n].kind = "upsert", u[n].id = i,
                      u[l].kind = "upsert", u[l].id = i
               PROVE  n = l
    OBVIOUS
  <2>1. n + 1 \in 1..Len(t) /\ l + 1 \in 1..Len(t) /\ u[n] = t[n + 1] /\ u[l] = t[l + 1]
    BY <1>1
  <2>2. n + 1 = l + 1
    BY <2>1 DEF Planned
  <2> QED
    BY <1>1, <2>2
<1>5. Planned(u, i, v, r)
  BY <1>2, <1>3, <1>4 DEF Planned
<1>6. t[1].id = i /\ t[1].kind = "upsert" => ~Has(u, "upsert", i)
  BY <1>1 DEF Planned, Has
<1>7. t[1].id = i => /\ t[1].kind \notin {"erase", "dropAll"}
                     /\ t[1].kind = "upsert" => t[1].val = v
                     /\ t[1].kind = "put" => t[1].val = r[t[1].arg]
  BY <1>1 DEF Planned
<1> QED
  BY <1>5, <1>6, <1>7 DEF u

-----------------------------------------------------------------------------
(* One write of a call, as it changes the identity it is for               *)

FileAfter(w, i, f) ==
  IF w.id # i THEN f ELSE IF w.kind = "upsert" THEN w.val ELSE IF w.kind = "erase" THEN None ELSE f

VaultAfter(w, i, s) ==
  IF w.id # i THEN s
  ELSE IF w.kind = "put" THEN [s EXCEPT ![w.arg] = w.val]
  ELSE IF w.kind = "dropAll" THEN Store!NoSecrets ELSE s

LEMMA WriteParts ==
  ASSUME NEW w \in Writes
  PROVE  /\ w.id \in Store!Ids
         /\ w.kind = "upsert" => w.val \in Store!Profiles /\ w.val # None
         /\ w.kind = "put" => w.arg \in Secret /\ w.val \in ValuesOf(w.arg)
BY StoresAssumption DEF Writes, Store!StoreAssumption

LEMMA VaultAfterTyped ==
  ASSUME NEW w \in Writes, NEW i, NEW s \in Store!Secrets
  PROVE  /\ VaultAfter(w, i, s) \in Store!Secrets
         /\ w.id = i /\ w.kind = "put" =>
              \A k \in Secret : VaultAfter(w, i, s)[k] = IF k = w.arg THEN w.val ELSE s[k]
<1>1. Store!NoSecrets \in Store!Secrets
  BY DEF Store!NoSecrets, Store!Secrets
<1> QED
  BY <1>1, WriteParts, PutTyped DEF VaultAfter

\* A stored profile whose writes are under way has its secrets, or will get another value.
LEMMA ComingIsEnough ==
  ASSUME NEW t \in Seq(Writes), NEW i, NEW f, NEW s \in Store!Secrets, NEW isNew \in BOOLEAN,
         Coming(t, i, f, s, isNew)
  PROVE  /\ t = <<>> \/ (isNew /\ f # None) => f \in Store!Profiles /\ Store!Enough(f, s)
         /\ t = <<>> => f # None
<1>1. PICK v \in Store!Profiles, r \in Store!Secrets :
        /\ Store!Enough(v, r) /\ Planned(t, i, v, r)
        /\ \A key \in Secret \ {"psk"} : s[key] = r[key] \/ HasPut(t, key, i)
        /\ IF Has(t, "upsert", i) THEN isNew => f = None ELSE f = v
  BY DEF Coming
<1>2. ASSUME ~Has(t, "upsert", i)
      PROVE  f = v /\ Store!Enough(v, s)
  <2>1. \A key : ~HasPut(t, key, i)
    BY <1>1, <1>2 DEF Has, HasPut, Planned
  <2> QED
    BY <1>1, <1>2, <2>1, EnoughSame
<1>3. t = <<>> => ~Has(t, "upsert", i)
  BY DEF Has
<1>4. v # None
  BY StoresAssumption DEF Store!StoreAssumption
<1> QED
  BY <1>1, <1>2, <1>3, <1>4

LEMMA ComingGoesOn ==
  ASSUME NEW t \in Seq(Writes), t # <<>>, NEW i, NEW f, NEW s \in Store!Secrets,
         NEW isNew \in BOOLEAN, Coming(t, i, f, s, isNew)
  PROVE  Coming(Tail(t), i, FileAfter(t[1], i, f), VaultAfter(t[1], i, s), isNew)
<1> DEFINE w == t[1]
           g == FileAfter(w, i, f)
           q == VaultAfter(w, i, s)
<1>1. PICK v \in Store!Profiles, r \in Store!Secrets :
        /\ Store!Enough(v, r) /\ Planned(t, i, v, r)
        /\ \A key \in Secret \ {"psk"} : s[key] = r[key] \/ HasPut(t, key, i)
        /\ IF Has(t, "upsert", i) THEN isNew => f = None ELSE f = v
  BY DEF Coming
<1>2. w \in Writes
  BY TailShifts
<1>3. /\ Planned(Tail(t), i, v, r)
      /\ w.id = i => /\ w.kind \notin {"erase", "dropAll"}
                     /\ w.kind = "upsert" => w.val = v /\ ~Has(Tail(t), "upsert", i)
                     /\ w.kind = "put" => w.val = r[w.arg]
  BY <1>1, PlannedTail
<1>4. ASSUME NEW key \in Secret \ {"psk"}
      PROVE  q[key] = r[key] \/ HasPut(Tail(t), key, i)
  <2>1. CASE w.id = i /\ w.kind = "put"
    BY <1>1, <1>2, <1>3, <2>1, HasTail, VaultAfterTyped
  <2>2. CASE ~(w.id = i /\ w.kind = "put")
    BY <1>1, <1>3, <2>2, HasTail DEF VaultAfter
  <2> QED
    BY <2>1, <2>2
<1>5. IF Has(Tail(t), "upsert", i) THEN isNew => g = None ELSE g = v
  <2>1. CASE w.id = i /\ w.kind = "upsert"
    BY <1>3, <2>1 DEF FileAfter
  <2>2. CASE ~(w.id = i /\ w.kind = "upsert")
    BY <1>1, <1>3, <2>2, HasTail DEF FileAfter
  <2> QED
    BY <2>1, <2>2
<1> HIDE DEF w, g, q
<1> QED
  BY <1>1, <1>3, <1>4, <1>5 DEF Coming, w, g, q

LEMMA UndoingGoesOn ==
  ASSUME NEW t \in Seq(Writes), t # <<>>, NEW i, NEW f, NEW s, NEW trusted, NEW hasFile,
         Undoing(t, i, f, s, trusted, hasFile),
         \A n \in 1..Len(t) : t[n].kind \in {"erase", "untrust", "dropAll", "unlink"}
  PROVE  LET w == t[1] IN
           /\ Undoing(Tail(t), i, FileAfter(w, i, f), VaultAfter(w, i, s),
                      trusted /\ ~(w.id = i /\ w.kind = "untrust"),
                      hasFile /\ ~(w.id = i /\ w.kind = "unlink"))
           /\ FileAfter(w, i, f) \in {f, None}
           /\ FileAfter(w, i, f) # None => VaultAfter(w, i, s) = s
<1> DEFINE w == t[1]
           u == Tail(t)
           g == FileAfter(w, i, f)
           q == VaultAfter(w, i, s)
<1>1. /\ Len(u) = Len(t) - 1 /\ Len(t) \in Nat \ {0} /\ 1 \in 1..Len(t)
      /\ \A n \in 1..Len(u) : n + 1 \in 1..Len(t) /\ u[n] = t[n + 1]
      /\ \A n \in 1..Len(t) : n = 1 \/ (n - 1 \in 1..Len(u) /\ u[n - 1] = t[n])
  BY TailShifts
<1>2. w.kind \in {"erase", "untrust", "dropAll", "unlink"}
  BY <1>1
<1>3. g = None \/ Has(u, "erase", i)
  <2>1. Has(t, "erase", i) => Has(u, "erase", i) \/ (w.kind = "erase" /\ w.id = i)
    BY HasTail
  <2>2. f = None => g = None
    BY <1>2 DEF FileAfter
  <2>3. w.kind = "erase" /\ w.id = i => g = None
    BY DEF FileAfter
  <2> QED
    BY <2>1, <2>2, <2>3 DEF Undoing
<1>4. q = Store!NoSecrets \/ Has(u, "dropAll", i)
  BY <1>2, HasTail DEF Undoing, VaultAfter
<1>5. trusted /\ ~(w.id = i /\ w.kind = "untrust") => Has(u, "untrust", i)
  BY HasTail DEF Undoing
<1>6. hasFile /\ ~(w.id = i /\ w.kind = "unlink") => Has(u, "unlink", i)
  BY HasTail DEF Undoing
<1>7. g \in {f, None}
  BY <1>2 DEF FileAfter
<1>8. w.kind = "dropAll" /\ w.id = i => f = None
  BY <1>1 DEF Undoing
<1>9. g # None => q = s
  BY <1>2, <1>8 DEF FileAfter, VaultAfter
<1> HIDE DEF u
<1>10. ASSUME NEW n \in 1..Len(u), u[n].kind = "dropAll", u[n].id = i, g # None
       PROVE  \E l \in 1..Len(u) : l < n /\ u[l].kind = "erase" /\ u[l].id = i
  <2>1. PICK l \in 1..Len(t) : l < n + 1 /\ t[l].kind = "erase" /\ t[l].id = i
    BY <1>1, <1>7, <1>10 DEF Undoing
  <2>2. l # 1
    BY <1>10, <2>1 DEF FileAfter
  <2>3. l - 1 \in 1..Len(u) /\ u[l - 1] = t[l] /\ l - 1 < n
    BY <1>1, <2>1, <2>2
  <2> QED
    BY <2>1, <2>3
<1> HIDE DEF w, g, q
<1>11. Undoing(u, i, g, q, trusted /\ ~(w.id = i /\ w.kind = "untrust"),
               hasFile /\ ~(w.id = i /\ w.kind = "unlink"))
  BY <1>3, <1>4, <1>5, <1>6, <1>10 DEF Undoing
<1> QED
  BY <1>7, <1>9, <1>11 DEF u, w, g, q

-----------------------------------------------------------------------------
(* The steps of a caller, as changes of its locals                         *)

Goes(c, k) == k \in StoreLocals /\ CallShaped(k) /\ call' = [call EXCEPT ![c] = k]

Safe(i) == InPhase(i) /\ OneWriter(i) /\ Secured(i) /\ Settled(i)

\* Nothing of an identity is written.
Unwritten(i) ==
  /\ file'[i] = file[i] /\ vault'[i] = vault[i] /\ imports'[i] = imports[i]
  /\ i \in trust' <=> i \in trust
  /\ i \in keyFiles' <=> i \in keyFiles

LEMMA GoesTyped ==
  ASSUME StoreTyped, NEW c \in Callers, NEW k, Goes(c, k)
  PROVE  /\ call' \in [Callers -> StoreLocals] /\ \A d \in Callers : CallShaped(call'[d])
         /\ \A d \in Callers : call'[d] = IF d = c THEN k ELSE call[d]
         /\ call[c] \in StoreLocals /\ CallShaped(call[c])
BY DEF StoreTyped, Goes

\* An identity that is not written stays safe when its writer goes on as it should.
LEMMA StaysSafe ==
  ASSUME StoreTyped, NEW c \in Callers, NEW k, Goes(c, k), NEW i \in Store!Ids, Safe(i),
         Unwritten(i),
         Writing(k, i) =>
           /\ Phase(k, i, file[i], vault[i], imports[i], i \in trust, i \in keyFiles)
           /\ Writing(call[c], i) \/ \A d \in Callers : ~Writing(call[d], i),
         k.op \in {"delete", "clear"} => k.id # i,
         call[c].op = "edit" /\ call[c].id = i =>
           \/ k.op = "edit" /\ k.id = i
           \/ file[i] # None => Store!Enough(file[i], vault[i])
  PROVE  Safe(i)'
<1>1. \A d \in Callers : call'[d] = IF d = c THEN k ELSE call[d]
  BY GoesTyped
<1>2. InPhase(i)'
  <2> SUFFICES ASSUME NEW d \in Callers, Writing(call'[d], i)
               PROVE  Phase(call'[d], i, file'[i], vault'[i], imports'[i], i \in trust', i \in keyFiles')
    BY DEF InPhase
  <2>1. Phase(call'[d], i, file[i], vault[i], imports[i], i \in trust, i \in keyFiles)
    BY <1>1 DEF Safe, InPhase
  <2> QED
    BY <2>1 DEF Unwritten, Phase, Undoing
<1>3. OneWriter(i)'
  BY <1>1 DEF Safe, OneWriter
<1>4. ~Store!Editing(i)' => ~Store!Editing(i) \/ (file[i] # None => Store!Enough(file[i], vault[i]))
  BY <1>1 DEF Store!Editing
<1>5. Secured(i)' /\ Settled(i)'
  BY <1>4 DEF Safe, Secured, Settled, Unwritten
<1> QED
  BY <1>2, <1>3, <1>5 DEF Safe

\* So it does when the call has to do with other identities.
LEMMA OthersStaySafe ==
  ASSUME StoreTyped, NEW c \in Callers, NEW k, Goes(c, k), NEW i \in Store!Ids, Safe(i),
         Unwritten(i), i \notin Aims(k) \/ k.op \in {"none", "export"},
         i \notin Aims(call[c]) \/ call[c].op \in {"none", "export"}
  PROVE  Safe(i)'
<1>1. ~Writing(k, i) /\ (k.op \in {"delete", "clear"} => k.id # i)
  BY DEF Writing, Aims
<1>2. ~(call[c].op = "edit" /\ call[c].id = i)
  BY DEF Aims
<1> QED
  BY <1>1, <1>2, StaysSafe

LEMMA RestingShaped ==
  /\ Store!Resting \in StoreLocals /\ CallShaped(Store!Resting)
  /\ Store!Resting.op = "none" /\ Store!Resting.todo = <<>> /\ Store!Resting.all = <<>>
<1>1. <<>> \in Seq(Store!Ids) /\ <<>> \in Seq(Writes)
  BY EmptySeq
<1>2. Store!NoSecrets \in Store!Secrets
  BY DEF Store!NoSecrets, Store!Secrets
<1> QED
  BY <1>1, <1>2 DEF Store!Resting, StoreLocals, CallShaped, StepOf

LEMMA ReturnGoes ==
  ASSUME NEW c, Store!Returns(c)
  PROVE  Goes(c, Store!Resting)
BY RestingShaped DEF Goes, Store!Returns

\* A step that writes no store and decides no import.
LEMMA QuietKeeps ==
  ASSUME StoreInv, NEW c \in Callers, NEW k, Goes(c, k),
         UNCHANGED <<file, vault, trust, keyFiles, imports>>,
         bundle' \in Bundles, last' \in Store!Ids, last <= last',
         impaired \subseteq impaired', impaired' \subseteq Store!Ids \cup {None},
         \A i \in Store!Ids : i > last' /\ k.op # "none" => i \notin Aims(k),
         \A i \in Store!Ids \ impaired' :
           /\ Writing(k, i) =>
                /\ Phase(k, i, file[i], vault[i], imports[i], i \in trust, i \in keyFiles)
                /\ Writing(call[c], i) \/ \A d \in Callers : ~Writing(call[d], i)
           /\ k.op \in {"delete", "clear"} => k.id # i
           /\ call[c].op = "edit" /\ call[c].id = i =>
                \/ k.op = "edit" /\ k.id = i
                \/ file[i] # None => Store!Enough(file[i], vault[i])
  PROVE  StoreInv'
<1>1. StoreTyped /\ Store!TypeOK
  BY DEF StoreInv, StoreTyped
<1>2. StoreTyped'
  BY <1>1, GoesTyped DEF StoreTyped, Store!TypeOK
<1>3. \A i \in Store!Ids : Unwritten(i)
  BY DEF Unwritten
<1>4. ASSUME NEW i \in Store!Ids, i > last' PROVE Untouched(i)'
  <2>1. Untouched(i) /\ \A d \in Callers : call'[d] = IF d = c THEN k ELSE call[d]
    BY <1>1, <1>4, GoesTyped DEF StoreInv, Store!TypeOK, Store!Ids
  <2>2. k.op # "none" => i \notin Aims(k)
    BY <1>4
  <2>3. \A d \in Callers : call'[d].op # "none" => i \notin Aims(call'[d])
    BY <2>1, <2>2 DEF Untouched
  <2> QED
    BY <2>1, <2>3 DEF Untouched, Aims
<1>5. ASSUME NEW i \in Store!Ids \ impaired' PROVE Safe(i)'
  <2>1. Safe(i) /\ Unwritten(i)
    BY <1>3, <1>5 DEF StoreInv, Safe
  <2> QED
    BY <1>1, <1>5, <2>1, StaysSafe
<1> QED
  BY <1>2, <1>4, <1>5 DEF StoreInv, Safe

\* What is known of the identity an edit is about.
LEMMA EditHasEnough ==
  ASSUME StoreInv, NEW c \in Callers, call[c].op = "edit", call[c].id \notin impaired
  PROVE  LET i == call[c].id IN
           /\ Phase(call[c], i, file[i], vault[i], imports[i], i \in trust, i \in keyFiles)
           /\ call[c].step # "write" => Store!Enough(file[i], vault[i])
<1> DEFINE i == call[c].id
<1>1. i \in Store!Ids /\ Writing(call[c], i)
  BY DEF StoreInv, StoreTyped, CallShaped, Writing, Aims
<1>2. Phase(call[c], i, file[i], vault[i], imports[i], i \in trust, i \in keyFiles)
  BY <1>1 DEF StoreInv, InPhase
<1> QED
  BY <1>2 DEF Phase

\* A call returns before it has written anything.
LEMMA ReturnKeeps ==
  ASSUME StoreInv, NEW c \in Callers, Store!Returns(c), call[c].step # "write",
         UNCHANGED <<file, vault, trust, keyFiles, imports, last, impaired>>, bundle' \in Bundles
  PROVE  StoreInv'
<1> DEFINE k == Store!Resting
<1>1. Goes(c, k) /\ k.op = "none"
  BY ReturnGoes, RestingShaped
<1>2. ASSUME NEW i \in Store!Ids \ impaired', call[c].op = "edit", call[c].id = i
      PROVE  Store!Enough(file[i], vault[i])
  BY <1>2, EditHasEnough
<1>3. last' \in Store!Ids /\ last <= last' /\ impaired' \subseteq Store!Ids \cup {None}
  BY DEF StoreInv, StoreTyped, Store!TypeOK, Store!Ids
<1> HIDE DEF k
<1> QED
  BY <1>1, <1>2, <1>3, QuietKeeps DEF Writing

LEMMA IdleIsNone ==
  ASSUME StoreTyped, NEW c \in Callers, call[c].step = "idle"
  PROVE  call[c].op = "none"
<1>1. call[c] \in StoreLocals /\ call[c].step \in StepOf(call[c])
  BY DEF StoreTyped, CallShaped
<1>2. call[c].op \in {"none", "new", "copy", "edit", "delete", "clear", "export", "import", "rollback"}
  BY <1>1 DEF StoreLocals
<1> QED
  BY <1>1, <1>2 DEF StepOf

-----------------------------------------------------------------------------
(* SaveProfile                                                             *)

LEMMA GivenTyped == Given \subseteq Store!Secrets
BY DEF Given, Store!Secrets

\* The next identity is nobody's.
LEMMA NextIsFresh ==
  ASSUME StoreInv, last < MaxIds
  PROVE  /\ last + 1 \in Store!Ids /\ Untouched(last + 1)
         /\ \A d \in Callers : ~Writing(call[d], last + 1)
<1>1. last + 1 \in Store!Ids /\ last + 1 > last
  BY StoresAssumption DEF StoreInv, StoreTyped, Store!TypeOK, Store!Ids, Store!StoreAssumption
<1> QED
  BY <1>1 DEF StoreInv, Untouched, Writing

LEMMA BeginSaveKeeps ==
  ASSUME StoreInv, NEW c \in Callers, NEW i \in Store!Ids, NEW v \in Store!Profiles, NEW g \in Given,
         Store!BeginNew(c, v, g) \/ Store!BeginCopy(c, i, v, g)
  PROVE  StoreInv'
<1> DEFINE k == [Store!Resting EXCEPT !.op = "new", !.step = "check", !.id = last + 1, !.value = v,
                   !.given = g]
           m == [Store!Resting EXCEPT !.op = "copy", !.step = "load", !.id = last + 1, !.from = i,
                   !.value = v, !.given = g]
<1>1. last < MaxIds /\ last' = last + 1
      /\ UNCHANGED <<file, vault, trust, keyFiles, imports, bundle, impaired>>
  BY DEF Store!BeginNew, Store!BeginCopy, Store!stores
<1>2. /\ last + 1 \in Store!Ids /\ Untouched(last + 1)
      /\ \A d \in Callers : ~Writing(call[d], last + 1)
  BY <1>1, NextIsFresh
<1>3. g \in Store!Secrets
  BY GivenTyped
<1>4. call' = [call EXCEPT ![c] = k] \/ call' = [call EXCEPT ![c] = m]
  BY <1>1 DEF Store!BeginNew, Store!BeginCopy, Store!Begins
<1>5. Store!Resting \in StoreLocals /\ Store!Resting.todo = <<>>
  BY RestingShaped
<1>6. k \in StoreLocals /\ k.op = "new" /\ k.step = "check" /\ k.id = last + 1 /\ k.value = v
      /\ k.todo = <<>>
  BY <1>2, <1>3, <1>5 DEF StoreLocals
<1>7. m \in StoreLocals /\ m.op = "copy" /\ m.step = "load" /\ m.id = last + 1 /\ m.value = v
      /\ m.from = i /\ m.todo = <<>>
  BY <1>2, <1>3, <1>5 DEF StoreLocals
<1> HIDE DEF k, m
<1>8. CallShaped(k) /\ CallShaped(m)
  BY <1>2, <1>6, <1>7 DEF CallShaped, StepOf
<1>9. PICK n : Goes(c, n) /\ n \in {k, m}
  BY <1>4, <1>6, <1>7, <1>8 DEF Goes
<1>10. n.op \in {"new", "copy"} /\ n.step # "write" /\ n.id = last + 1 /\ Aims(n) = {last + 1}
  BY <1>6, <1>7, <1>9 DEF Aims
<1>11. Phase(n, last + 1, file[last + 1], vault[last + 1], imports[last + 1],
             last + 1 \in trust, last + 1 \in keyFiles)
  BY <1>2, <1>10 DEF Phase, Untouched
<1>12. last \in Store!Ids /\ last \in Nat /\ bundle \in Bundles
       /\ impaired \subseteq Store!Ids \cup {None}
  BY DEF StoreInv, StoreTyped, Store!TypeOK, Store!Ids
<1>13. ASSUME NEW j \in Store!Ids \ impaired', call[c].op = "edit", call[c].id = j
       PROVE  FALSE
  <2>1. call[c].step = "idle" /\ CallShaped(call[c])
    BY DEF Store!BeginNew, Store!BeginCopy, Store!Begins, StoreInv, StoreTyped
  <2> QED
    BY <1>13, <2>1 DEF CallShaped, StepOf
<1>14. \A j \in Store!Ids : j > last + 1 => j \notin Aims(n)
  BY <1>10, <1>12
<1> QED
  BY <1>1, <1>2, <1>9, <1>10, <1>11, <1>12, <1>13, <1>14, QuietKeeps DEF Writing

\* Nobody else writes the profile that a form edits: other forms are closed, and an
\* import of it is over.
LEMMA BeginEditKeeps ==
  ASSUME StoreInv, NEW c \in Callers, NEW i \in Store!Ids, NEW v \in Store!Profiles, NEW g \in Given,
         Store!BeginEdit(c, i, v, g)
  PROVE  StoreInv'
<1> DEFINE k == [Store!Resting EXCEPT !.op = "edit", !.step = "load", !.id = i, !.value = v,
                   !.given = g]
<1>1. /\ Store!FormFree /\ file[i] # None /\ call[c].step = "idle"
      /\ call' = [call EXCEPT ![c] = k]
      /\ impaired' = IF imports[i] = "running" THEN impaired \cup {i} ELSE impaired
      /\ UNCHANGED <<file, vault, trust, keyFiles, imports, bundle, last>>
  BY DEF Store!BeginEdit, Store!Begins, Store!stores
<1>2. g \in Store!Secrets /\ Store!Resting \in StoreLocals /\ Store!Resting.todo = <<>>
  BY GivenTyped, RestingShaped
<1>3. k \in StoreLocals /\ k.op = "edit" /\ k.step = "load" /\ k.id = i /\ k.value = v
      /\ k.todo = <<>>
  BY <1>2 DEF StoreLocals
<1> HIDE DEF k
<1>4. CallShaped(k) /\ Aims(k) = {i}
  BY <1>3 DEF CallShaped, StepOf, Aims
<1>5. Goes(c, k)
  BY <1>1, <1>3, <1>4 DEF Goes
<1>6. ASSUME i \notin impaired'
      PROVE  /\ Phase(k, i, file[i], vault[i], imports[i], i \in trust, i \in keyFiles)
             /\ \A d \in Callers : ~Writing(call[d], i)
  <2>1. i \notin impaired /\ imports[i] # "running"
    BY <1>1, <1>6
  <2>2. ~Store!Editing(i)
    BY <1>1 DEF Store!Editing, Store!FormFree
  <2>3. Store!Enough(file[i], vault[i]) /\ imports[i] # "undone"
    BY <1>1, <2>1, <2>2 DEF StoreInv, Secured, Settled
  <2>4. ASSUME NEW d \in Callers, Writing(call[d], i) PROVE FALSE
    <3>1. call[d].op \in {"import", "rollback"}
      BY <1>1, <2>4 DEF Writing, Store!FormFree
    <3>2. Phase(call[d], i, file[i], vault[i], imports[i], i \in trust, i \in keyFiles)
      BY <2>1, <2>4 DEF StoreInv, InPhase
    <3> QED
      BY <2>1, <3>1, <3>2 DEF Phase
  <2> QED
    BY <1>1, <1>3, <2>1, <2>3, <2>4 DEF Phase
<1>7. last \in Store!Ids /\ last \in Nat /\ bundle \in Bundles
      /\ impaired \subseteq Store!Ids \cup {None}
  BY DEF StoreInv, StoreTyped, Store!TypeOK, Store!Ids
<1>8. i <= last
  BY <1>1, <1>7 DEF StoreInv, Untouched, Store!Ids
<1>9. call[c].op # "edit"
  BY <1>1 DEF StoreInv, StoreTyped, CallShaped, StepOf
<1>10. /\ bundle' \in Bundles /\ last' \in Store!Ids /\ last <= last'
       /\ impaired \subseteq impaired' /\ impaired' \subseteq Store!Ids \cup {None}
  BY <1>1, <1>7
<1>11. \A j \in Store!Ids : j > last' => j \notin Aims(k)
  BY <1>1, <1>4, <1>7, <1>8 DEF Store!Ids
<1> QED
  BY <1>1, <1>3, <1>4, <1>5, <1>6, <1>9, <1>10, <1>11, QuietKeeps DEF Writing

LEMMA LoadForSaveKeeps ==
  ASSUME StoreInv, NEW c \in Callers, Store!LoadForSave(c)
  PROVE  StoreInv'
<1> DEFINE x == call[c]
           source == file[IF x.op = "copy" THEN x.from ELSE x.id]
           k == [x EXCEPT !.step = "check", !.source = source]
<1>1. /\ x.op \in {"copy", "edit"} /\ x.step = "load"
      /\ UNCHANGED <<file, vault, trust, keyFiles, imports, bundle, last, impaired>>
      /\ Store!Returns(c) \/ (source # None /\ call' = [call EXCEPT ![c] = k])
  BY DEF Store!LoadForSave, Store!stores
<1>2. /\ x \in StoreLocals /\ CallShaped(x) /\ bundle \in Bundles /\ last \in Store!Ids
      /\ last <= last /\ impaired \subseteq Store!Ids \cup {None}
  BY DEF StoreInv, StoreTyped, Store!TypeOK, Store!Ids
<1>3. CASE Store!Returns(c)
  BY <1>1, <1>2, <1>3, ReturnKeeps
<1>4. CASE source # None /\ call' = [call EXCEPT ![c] = k]
  <2>1. x.id \in Store!Ids /\ (x.op = "copy" => x.from \in Store!Ids) /\ x.value \in Store!Profiles
    BY <1>1, <1>2 DEF CallShaped
  <2>2. source \in Store!Profiles
    BY <1>4, <2>1 DEF StoreInv, StoreTyped, Store!TypeOK
  <2> HIDE DEF source
  <2>3. /\ k \in StoreLocals /\ k.op = x.op /\ k.step = "check" /\ k.source = source
        /\ k.id = x.id /\ k.from = x.from /\ k.value = x.value /\ k.todo = x.todo /\ k.all = x.all
    BY <1>2, <2>2 DEF StoreLocals
  <2> HIDE DEF k
  <2>4. Aims(k) = Aims(x)
    BY <2>3 DEF Aims
  <2>5. CallShaped(k)
    BY <1>1, <1>2, <2>1, <2>2, <2>3, <2>4 DEF CallShaped, StepOf
  <2>6. Goes(c, k)
    BY <1>4, <2>3, <2>5 DEF Goes
  <2>7. ASSUME NEW i \in Store!Ids \ impaired, Writing(k, i)
        PROVE  /\ Writing(x, i)
               /\ Phase(k, i, file[i], vault[i], imports[i], i \in trust, i \in keyFiles)
    <3>1. Writing(x, i)
      BY <2>3, <2>4, <2>7 DEF Writing
    <3>2. Phase(x, i, file[i], vault[i], imports[i], i \in trust, i \in keyFiles)
      BY <3>1 DEF StoreInv, InPhase
    <3> QED
      BY <1>1, <2>3, <3>1, <3>2 DEF Phase
  <2>8. \A i \in Store!Ids : i > last => i \notin Aims(k)
    BY <1>1, <2>4 DEF StoreInv, Untouched
  <2> HIDE DEF x
  <2>9. k.op \in {"copy", "edit"}
    BY <1>1, <2>3
  <2>10. x = call[c]
    BY DEF x
  <2> QED
    BY <1>1, <1>2, <2>3, <2>6, <2>7, <2>8, <2>9, <2>10, QuietKeeps
<1> QED
  BY <1>1, <1>3, <1>4

-----------------------------------------------------------------------------
(* The writes of a save                                                    *)

\* One write, if there is a reason for it.
One(cond, w) == IF cond THEN <<w>> ELSE <<>>

LEMMA OneOf ==
  ASSUME NEW S, NEW cond, NEW w, cond => w \in S
  PROVE  One(cond, w) \in Seq(S)
BY DEF One

LEMMA OnePut ==
  ASSUME NEW cond, NEW i, NEW key, NEW x, cond
  PROVE  HasPut(One(cond, Store!Put(i, key, x)), key, i)
<1> DEFINE t == One(cond, Store!Put(i, key, x))
<1>1. Len(t) = 1 /\ t[1].kind = "put" /\ t[1].id = i /\ t[1].arg = key
  BY DEF One, Store!Put, Store!Write
<1> HIDE DEF t
<1>2. 1 \in 1..Len(t)
  BY <1>1
<1>3. HasPut(t, key, i)
  BY <1>1, <1>2 DEF HasPut
<1> QED
  BY <1>3 DEF t

LEMMA HasConcat ==
  ASSUME NEW S, NEW t \in Seq(S), NEW u \in Seq(S), NEW i
  PROVE  /\ t \o u \in Seq(S)
         /\ \A kind : Has(t, kind, i) \/ Has(u, kind, i) => Has(t \o u, kind, i)
         /\ \A key : HasPut(t, key, i) \/ HasPut(u, key, i) => HasPut(t \o u, key, i)
<1>1. /\ t \o u \in Seq(S) /\ Len(t \o u) = Len(t) + Len(u) /\ Len(t) \in Nat /\ Len(u) \in Nat
      /\ \A n \in 1..Len(t) : n \in 1..Len(t \o u) /\ (t \o u)[n] = t[n]
      /\ \A n \in 1..Len(u) : n + Len(t) \in 1..Len(t \o u) /\ (t \o u)[n + Len(t)] = u[n]
  BY ConcatProperties, LenProperties
<1> QED
  BY <1>1 DEF Has, HasPut

\* Writes that store no profile, the one that does, and what follows it.
Before(i, r) ==
  {w \in Writes : /\ w.id = i /\ w.kind \in {"put", "trust", "keyFile"}
                  /\ w.kind = "put" => w.val = r[w.arg]}
After(i) == {w \in Writes : w.id = i /\ w.kind = "trust"}

LEMMA UpsertTyped ==
  ASSUME NEW i \in Store!Ids, NEW v \in Store!Profiles
  PROVE  LET w == Store!Write("upsert", i, None, v) IN
           w \in Writes /\ w.kind = "upsert" /\ w.id = i /\ w.val = v
BY DEF Store!Write, Writes

LEMMA PlannedInOrder ==
  ASSUME NEW i \in Store!Ids, NEW v \in Store!Profiles, NEW r,
         NEW t \in Seq(Before(i, r)), NEW u \in Seq(After(i))
  PROVE  LET all == (t \o <<Store!Write("upsert", i, None, v)>>) \o u IN
           /\ all \in Seq(Writes) /\ Planned(all, i, v, r) /\ Has(all, "upsert", i)
           /\ \A key : HasPut(t, key, i) => HasPut(all, key, i)
           /\ \A n \in 1..Len(all) : all[n].id = i
<1> DEFINE w == Store!Write("upsert", i, None, v)
           a == t \o <<w>>
           all == a \o u
<1>1. w \in Writes /\ w.kind = "upsert" /\ w.id = i /\ w.val = v
  BY UpsertTyped
<1>2. t \in Seq(Writes) /\ u \in Seq(Writes)
  BY SeqMonotonic DEF Before, After
<1> HIDE DEF w
<1>3. <<w>> \in Seq(Writes) /\ Len(<<w>>) = 1 /\ <<w>>[1] = w
  BY <1>1
<1>4. /\ a \in Seq(Writes) /\ Len(a) = Len(t) + 1 /\ Len(t) \in Nat
      /\ \A n \in 1..Len(t) : a[n] = t[n] /\ t[n] \in Before(i, r)
      /\ a[Len(t) + 1] = w
  BY <1>2, <1>3, ConcatProperties, LenProperties, ElementOfSeq
<1> HIDE DEF a
<1>5. /\ all \in Seq(Writes) /\ Len(all) = Len(a) + Len(u) /\ Len(u) \in Nat
      /\ \A n \in 1..Len(a) : all[n] = a[n]
      /\ \A n \in 1..Len(u) : all[n + Len(a)] = u[n] /\ u[n] \in After(i)
  <2>1. \A n \in 1..Len(u) : u[n] \in After(i)
    BY ElementOfSeq
  <2>2. Len(u) \in Nat
    BY <1>2, LenProperties
  <2>3. all \in Seq(Writes) /\ Len(all) = Len(a) + Len(u)
        /\ \A n \in 1..(Len(a) + Len(u)) : all[n] = IF n <= Len(a) THEN a[n] ELSE u[n - Len(a)]
    BY <1>2, <1>4, ConcatProperties
  <2> HIDE DEF all
  <2>4. Len(a) \in Nat
    BY <1>4
  <2>5. \A n \in 1..Len(a) : all[n] = a[n]
    BY <2>2, <2>3, <2>4
  <2>6. ASSUME NEW n \in 1..Len(u) PROVE all[n + Len(a)] = u[n]
    <3>1. n + Len(a) \in 1..(Len(a) + Len(u)) /\ ~(n + Len(a) <= Len(a))
          /\ (n + Len(a)) - Len(a) = n
      BY <2>2, <2>4
    <3> QED
      BY <2>3, <3>1
  <2> QED
    BY <2>1, <2>2, <2>3, <2>5, <2>6
<1> HIDE DEF all
<1>6. ASSUME NEW n \in 1..Len(all)
      PROVE  \/ n \in 1..Len(t) /\ all[n] = t[n] /\ all[n] \in Before(i, r)
             \/ n = Len(t) + 1 /\ all[n] = w
             \/ n > Len(t) + 1 /\ all[n] \in After(i)
  <2>1. CASE n <= Len(a)
    BY <1>4, <1>5, <2>1
  <2>2. CASE n > Len(a)
    <3>1. n - Len(a) \in 1..Len(u) /\ n = (n - Len(a)) + Len(a)
      BY <1>4, <1>5, <2>2
    <3> QED
      BY <1>4, <1>5, <2>2, <3>1
  <2> QED
    BY <1>4, <1>5, <2>1, <2>2
<1>7. Len(t) + 1 \in 1..Len(all) /\ all[Len(t) + 1] = w
  BY <1>4, <1>5
<1>8. \A n \in 1..Len(all) : all[n].kind = "upsert" => n = Len(t) + 1
  BY <1>6 DEF Before, After
<1>9. \A n \in 1..Len(all) : all[n].kind = "put" => n < Len(t) + 1 /\ all[n].val = r[all[n].arg]
  BY <1>1, <1>4, <1>6 DEF Before, After
<1>10. \A n \in 1..Len(all) : all[n].id = i /\ all[n].kind \notin {"erase", "dropAll"}
                              /\ (all[n].kind = "upsert" => all[n].val = v)
  BY <1>1, <1>6 DEF Before, After
<1>11. Planned(all, i, v, r)
  BY <1>1, <1>7, <1>8, <1>9, <1>10 DEF Planned
<1>12. Has(all, "upsert", i)
  BY <1>1, <1>7 DEF Has
<1>13. \A key : HasPut(t, key, i) => HasPut(all, key, i)
  BY <1>4, <1>5 DEF HasPut
<1> QED
  BY <1>5, <1>10, <1>11, <1>12, <1>13 DEF all, a, w

LEMMA PlannedLast ==
  ASSUME NEW i \in Store!Ids, NEW v \in Store!Profiles, NEW r, NEW t \in Seq(Before(i, r))
  PROVE  LET all == t \o <<Store!Write("upsert", i, None, v)>> IN
           /\ all \in Seq(Writes) /\ Planned(all, i, v, r) /\ Has(all, "upsert", i)
           /\ \A key : HasPut(t, key, i) => HasPut(all, key, i)
           /\ \A n \in 1..Len(all) : all[n].id = i
<1> DEFINE all == t \o <<Store!Write("upsert", i, None, v)>>
           more == all \o <<>>
<1>1. <<>> \in Seq(After(i))
  BY EmptySeq
<1>2. more = all
  <2>1. <<Store!Write("upsert", i, None, v)>> \in Seq(Writes) /\ t \in Seq(Writes)
    BY UpsertTyped, SeqMonotonic DEF Before
  <2>2. all \in Seq(Writes)
    BY <2>1, ConcatProperties
  <2> HIDE DEF all
  <2> QED
    BY <2>2, ConcatEmptySeq
<1>3. ASSUME NEW u \in Seq(After(i))
      PROVE  /\ all \o u \in Seq(Writes) /\ Planned(all \o u, i, v, r) /\ Has(all \o u, "upsert", i)
             /\ \A key : HasPut(t, key, i) => HasPut(all \o u, key, i)
             /\ \A n \in 1..Len(all \o u) : (all \o u)[n].id = i
  BY PlannedInOrder
<1> HIDE DEF all
<1> QED
  BY <1>1, <1>2, <1>3 DEF all

LEMMA PutIsBefore ==
  ASSUME NEW i \in Store!Ids, NEW q, NEW key \in Secret, NEW x \in ValuesOf(key), x = q[key]
  PROVE  Store!Put(i, key, x) \in Before(i, q)
<1> DEFINE w == Store!Put(i, key, x)
<1>1. /\ w \in [kind : {"put", "dropAll", "upsert", "erase", "trust", "untrust", "keyFile", "unlink"},
                id : Store!Ids, arg : Secret \cup Store!Ids \cup {None},
                val : Store!Profiles \cup BOOLEAN \cup ValuesOf("path") \cup {None}]
      /\ w.kind = "put" /\ w.id = i /\ w.arg = key /\ w.val = x
  BY DEF Store!Put, Store!Write, ValuesOf
<1> HIDE DEF w
<1> QED
  BY <1>1 DEF Before, Writes, w

LEMMA TrustIsBefore ==
  ASSUME NEW i \in Store!Ids, NEW q, NEW j \in Store!Ids \cup {None}
  PROVE  /\ Store!Write("trust", i, j, TRUE) \in Before(i, q) \cap After(i)
         /\ Store!Write("keyFile", i, None, TRUE) \in Before(i, q)
BY DEF Store!Write, Writes, Before, After

\* What a save has found, typed; an edit stands on its own secrets.
LEMMA ResolvedTyped ==
  ASSUME StoreTyped, NEW c \in Callers, call[c].op \in {"new", "copy", "edit"},
         call[c].step = "check"
  PROVE  LET x == call[c]
             r == Store!Resolved(c)
             s == vault[x.id] IN
           /\ r \in Store!Secrets
           /\ x.op = "edit" => /\ r.path = IF x.given.path # "none" THEN x.given.path ELSE s.path
                               /\ ~x.given.phrase => r.phrase = s.phrase
                               /\ ~x.given.password => r.password = s.password
                               /\ ~x.given.vpn => r.vpn = s.vpn
<1> DEFINE x == call[c]
<1>1. x \in StoreLocals /\ x.id \in Store!Ids /\ (x.op = "copy" => x.from \in Store!Ids)
      /\ x.given \in Store!Secrets
  BY DEF StoreTyped, CallShaped, StoreLocals
<1>2. \A b : Store!Behind(c, b) \in Store!Ids /\ (x.op # "copy" => Store!Behind(c, b) = x.id)
  BY <1>1 DEF Store!Behind
<1>3. \A j \in Store!Ids : vault[j] \in Store!Secrets
  BY DEF StoreTyped, Store!TypeOK
<1> HIDE DEF x
<1>4. Store!Resolved(c) \in Store!Secrets
  BY <1>1, <1>2, <1>3 DEF Store!Resolved, Store!Secrets, x
<1>5. ASSUME x.op = "edit"
      PROVE  LET r == Store!Resolved(c)
                 s == vault[x.id] IN
               /\ r.path = IF x.given.path # "none" THEN x.given.path ELSE s.path
               /\ ~x.given.phrase => r.phrase = s.phrase
               /\ ~x.given.password => r.password = s.password
               /\ ~x.given.vpn => r.vpn = s.vpn
  BY <1>1, <1>2, <1>3, <1>5 DEF Store!Resolved, Store!Secrets, x
<1> QED
  BY <1>4, <1>5 DEF x

\* The writes of a save lead to a profile with its secrets.
LEMMA SaveWritesLead ==
  ASSUME StoreTyped, NEW c \in Callers, call[c].op \in {"new", "copy", "edit"},
         call[c].step = "check", NEW same \in BOOLEAN,
         Store!Enough(call[c].value, Store!Resolved(c))
  PROVE  LET x == call[c]
             i == x.id
             t == Store!SaveWrites(c, Store!Resolved(c), same) IN
           /\ t \in Seq(Writes) /\ \A n \in 1..Len(t) : t[n].id = i
           /\ Has(t, "upsert", i)
           /\ \E q \in Store!Secrets :
                /\ Store!Enough(x.value, q) /\ Planned(t, i, x.value, q)
                /\ \A key \in Secret \ {"psk"} : vault[i][key] = q[key] \/ HasPut(t, key, i)
<1> DEFINE x == call[c]
           i == x.id
           v == x.value
           g == x.given
           r == Store!Resolved(c)
           s == vault[i]
           isNew == x.op # "edit"
           key == v.auth = "key"
           path == key /\ (isNew \/ g.path # "none")
           phrase == key /\ r.path = "sealed" /\ (isNew \/ g.phrase)
           password == ~key /\ (isNew \/ g.password)
           vpn == v.isolated /\ (isNew \/ g.vpn)
           psk == v.isolated /\ r.psk
           plain == key /\ r.path = "plain"
           copied == x.op = "copy" /\ same
           q == [psk |-> IF psk THEN TRUE ELSE s.psk,
                 vpn |-> IF vpn THEN TRUE ELSE s.vpn,
                 password |-> IF password THEN TRUE ELSE s.password,
                 phrase |-> IF plain THEN FALSE ELSE IF phrase THEN TRUE ELSE s.phrase,
                 path |-> IF path THEN r.path ELSE s.path]
           a1 == One(path, Store!Put(i, "path", r.path))
           p2 == One(phrase, Store!Put(i, "phrase", TRUE))
           p3 == One(password, Store!Put(i, "password", TRUE))
           p4 == One(vpn, Store!Put(i, "vpn", TRUE))
           p5 == One(psk, Store!Put(i, "psk", TRUE))
           p6 == One(plain, Store!Put(i, "phrase", FALSE))
           p7 == One(copied, Store!Write("trust", i, x.from, TRUE))
           a2 == a1 \o p2
           a3 == a2 \o p3
           a4 == a3 \o p4
           a5 == a4 \o p5
           a6 == a5 \o p6
           a7 == a6 \o p7
           t == a7 \o <<Store!Write("upsert", i, None, v)>>
<1>1. /\ x \in StoreLocals /\ i \in Store!Ids /\ (x.op = "copy" => x.from \in Store!Ids)
      /\ g \in Store!Secrets /\ v \in Store!Profiles /\ x.from \in Store!Ids \cup {None}
  BY DEF StoreTyped, CallShaped, StoreLocals
<1>2. r \in Store!Secrets /\ s \in Store!Secrets
  BY <1>1, ResolvedTyped DEF StoreTyped, Store!TypeOK
<1>3. x.op = "edit" => /\ r.path = IF g.path # "none" THEN g.path ELSE s.path
                       /\ ~g.phrase => r.phrase = s.phrase
                       /\ ~g.password => r.password = s.password
                       /\ ~g.vpn => r.vpn = s.vpn
  BY ResolvedTyped
<1>4. Store!Enough(v, r) /\ v.auth \in {"password", "key"}
  BY <1>1 DEF Store!Profiles, Kinds
<1>5. Store!SaveWrites(c, r, same) = t
  BY DEF Store!SaveWrites, One, Store!Drop, Store!Put, Store!NoSecrets
<1> HIDE DEF x, r
<1>6. q \in Store!Secrets
  BY <1>2 DEF Store!Secrets
<1>7. Store!Enough(v, q)
  BY <1>2, <1>3, <1>4 DEF Store!Enough, Store!Secrets
<1>8. /\ path => r.path = q["path"] /\ r.path \in ValuesOf("path")
      /\ phrase => q["phrase"] = TRUE
      /\ password => q["password"] = TRUE
      /\ vpn => q["vpn"] = TRUE
      /\ psk => q["psk"] = TRUE
      /\ plain => q["phrase"] = FALSE
      /\ "path" \in Secret /\ "phrase" \in Secret /\ "password" \in Secret /\ "vpn" \in Secret
      /\ "psk" \in Secret
      /\ TRUE \in ValuesOf("phrase") /\ FALSE \in ValuesOf("phrase") /\ TRUE \in ValuesOf("password")
      /\ TRUE \in ValuesOf("vpn") /\ TRUE \in ValuesOf("psk")
  BY <1>2 DEF Store!Secrets, ValuesOf, Secret
<1>9. ASSUME NEW k \in Secret \ {"psk"}
      PROVE  \/ s[k] = q[k] \/ (k = "path" /\ path) \/ (k = "phrase" /\ (phrase \/ plain))
             \/ (k = "password" /\ password) \/ (k = "vpn" /\ vpn)
  <2>1. CASE k = "path"
    BY <2>1
  <2>2. CASE k = "phrase"
    BY <2>2
  <2>3. CASE k = "password"
    BY <2>3
  <2>4. CASE k = "vpn"
    BY <2>4
  <2> QED
    BY <2>1, <2>2, <2>3, <2>4 DEF Secret
<1> HIDE DEF q, path, phrase, password, vpn, psk, plain, copied, i, v
<1>10. /\ a1 \in Seq(Before(i, q)) /\ p2 \in Seq(Before(i, q)) /\ p3 \in Seq(Before(i, q))
       /\ p4 \in Seq(Before(i, q)) /\ p5 \in Seq(Before(i, q)) /\ p6 \in Seq(Before(i, q))
       /\ p7 \in Seq(Before(i, q))
  BY <1>1, <1>8, OneOf, PutIsBefore, TrustIsBefore
<1>11. /\ path => HasPut(a1, "path", i)
       /\ phrase => HasPut(p2, "phrase", i)
       /\ password => HasPut(p3, "password", i)
       /\ vpn => HasPut(p4, "vpn", i)
       /\ plain => HasPut(p6, "phrase", i)
  BY OnePut
<1> HIDE DEF a1, p2, p3, p4, p5, p6, p7
<1>12. a2 \in Seq(Before(i, q)) /\ \A k : HasPut(a1, k, i) \/ HasPut(p2, k, i) => HasPut(a2, k, i)
  BY <1>10, HasConcat
<1> HIDE DEF a2
<1>13. a3 \in Seq(Before(i, q)) /\ \A k : HasPut(a2, k, i) \/ HasPut(p3, k, i) => HasPut(a3, k, i)
  BY <1>10, <1>12, HasConcat
<1> HIDE DEF a3
<1>14. a4 \in Seq(Before(i, q)) /\ \A k : HasPut(a3, k, i) \/ HasPut(p4, k, i) => HasPut(a4, k, i)
  BY <1>10, <1>13, HasConcat
<1> HIDE DEF a4
<1>15. a5 \in Seq(Before(i, q)) /\ \A k : HasPut(a4, k, i) \/ HasPut(p5, k, i) => HasPut(a5, k, i)
  BY <1>10, <1>14, HasConcat
<1> HIDE DEF a5
<1>16. a6 \in Seq(Before(i, q)) /\ \A k : HasPut(a5, k, i) \/ HasPut(p6, k, i) => HasPut(a6, k, i)
  BY <1>10, <1>15, HasConcat
<1> HIDE DEF a6
<1>17. a7 \in Seq(Before(i, q)) /\ \A k : HasPut(a6, k, i) \/ HasPut(p7, k, i) => HasPut(a7, k, i)
  BY <1>10, <1>16, HasConcat
<1> HIDE DEF a7
<1>18. /\ t \in Seq(Writes) /\ Planned(t, i, v, q) /\ Has(t, "upsert", i)
       /\ \A k : HasPut(a7, k, i) => HasPut(t, k, i)
       /\ \A n \in 1..Len(t) : t[n].id = i
  BY <1>1, <1>17, PlannedLast
<1> HIDE DEF t
<1>19. \A k \in Secret \ {"psk"} : s[k] = q[k] \/ HasPut(t, k, i)
  BY <1>9, <1>11, <1>12, <1>13, <1>14, <1>15, <1>16, <1>17, <1>18
<1> HIDE DEF s
<1> QED
  BY <1>5, <1>6, <1>7, <1>18, <1>19 DEF x, r, i, v, s

LEMMA CheckKeeps ==
  ASSUME StoreInv, NEW c \in Callers, Store!Check(c)
  PROVE  StoreInv'
<1> DEFINE x == call[c]
           i == x.id
           r == Store!Resolved(c)
<1>1. /\ x.op \in {"new", "copy", "edit"} /\ x.step = "check"
      /\ UNCHANGED <<file, vault, trust, keyFiles, imports, bundle, last, impaired>>
  BY DEF Store!Check, Store!stores
<1>2. /\ x \in StoreLocals /\ CallShaped(x) /\ bundle \in Bundles /\ last \in Store!Ids
      /\ last <= last /\ impaired \subseteq Store!Ids \cup {None} /\ StoreTyped
      /\ i \in Store!Ids /\ x.value \in Store!Profiles
  BY <1>1 DEF StoreInv, StoreTyped, Store!TypeOK, Store!Ids, CallShaped
<1>3. CASE Store!Returns(c)
  BY <1>1, <1>2, <1>3, ReturnKeeps
<1>4. ASSUME NEW same \in BOOLEAN, Store!Enough(x.value, r),
             call' = [call EXCEPT ![c] = [Store!Resting EXCEPT !.op = x.op, !.step = "write",
                        !.id = i, !.todo = Store!SaveWrites(c, r, same)]]
      PROVE  StoreInv'
  <2> DEFINE t == Store!SaveWrites(c, r, same)
             k == [Store!Resting EXCEPT !.op = x.op, !.step = "write", !.id = i, !.todo = t]
  <2>1. /\ t \in Seq(Writes) /\ \A n \in 1..Len(t) : t[n].id = i
        /\ Has(t, "upsert", i)
        /\ \E q \in Store!Secrets :
             /\ Store!Enough(x.value, q) /\ Planned(t, i, x.value, q)
             /\ \A key \in Secret \ {"psk"} : vault[i][key] = q[key] \/ HasPut(t, key, i)
    BY <1>1, <1>2, <1>4, SaveWritesLead
  <2>2. call' = [call EXCEPT ![c] = k]
    BY <1>4
  <2> HIDE DEF t
  <2>3. /\ k \in StoreLocals /\ k.op = x.op /\ k.step = "write" /\ k.id = i /\ k.todo = t
        /\ k.all = <<>>
    BY <1>1, <1>2, <2>1, RestingShaped DEF StoreLocals
  <2> HIDE DEF k
  <2>4. Aims(k) = {i} /\ Aims(x) = {i}
    BY <1>1, <2>3 DEF Aims
  <2>5. CallShaped(k)
    BY <1>1, <1>2, <2>1, <2>3, <2>4 DEF CallShaped, StepOf
  <2>6. Goes(c, k)
    BY <2>2, <2>3, <2>5 DEF Goes
  <2>7. ASSUME i \notin impaired
        PROVE  Phase(k, i, file[i], vault[i], imports[i], i \in trust, i \in keyFiles)
    <3>1. Phase(x, i, file[i], vault[i], imports[i], i \in trust, i \in keyFiles)
      BY <1>1, <1>2, <2>4, <2>7 DEF StoreInv, InPhase, Writing
    <3>2. x.op \in {"new", "copy"} => file[i] = None
      BY <1>1, <3>1 DEF Phase
    <3>3. Coming(t, i, file[i], vault[i], x.op # "edit")
      BY <1>1, <1>2, <2>1, <3>2 DEF Coming
    <3> QED
      BY <1>1, <2>3, <3>1, <3>3 DEF Phase
  <2>8. \A j \in Store!Ids : j > last => j \notin Aims(k)
    BY <1>1, <2>4 DEF StoreInv, Untouched
  <2>9. Writing(x, i) /\ \A j : Writing(k, j) => j = i
    BY <1>1, <2>4 DEF Writing
  <2> HIDE DEF i
  <2> QED
    BY <1>1, <1>2, <2>3, <2>6, <2>7, <2>8, <2>9, QuietKeeps DEF i
<1> QED
  BY <1>3, <1>4 DEF Store!Check

-----------------------------------------------------------------------------
(* DeleteProfile, ClearCredential, ExportConnectionBundle                  *)

\* Removals are writes for their identity.
LEMMA RemovalsTyped ==
  ASSUME NEW i \in Store!Ids
  PROVE  /\ \A key \in Secret : Store!Drop(i, key) \in {w \in Writes : w.id = i}
         /\ Store!Write("erase", i, None, None) \in {w \in Writes : w.id = i}
         /\ Store!Write("untrust", i, None, None) \in {w \in Writes : w.id = i}
<1>1. ASSUME NEW key \in Secret
      PROVE  Store!Drop(i, key) \in {w \in Writes : w.id = i}
  <2>1. Store!NoSecrets[key] \in ValuesOf(key)
    <3>1. CASE key = "path"
      BY <3>1 DEF ValuesOf, Store!NoSecrets
    <3>2. CASE key = "psk"
      BY <3>2 DEF ValuesOf, Store!NoSecrets
    <3>3. CASE key = "vpn"
      BY <3>3 DEF ValuesOf, Store!NoSecrets
    <3>4. CASE key = "password"
      BY <3>4 DEF ValuesOf, Store!NoSecrets
    <3>5. CASE key = "phrase"
      BY <3>5 DEF ValuesOf, Store!NoSecrets
    <3> QED
      BY <3>1, <3>2, <3>3, <3>4, <3>5 DEF Secret
  <2> DEFINE x == Store!NoSecrets[key]
  <2> HIDE DEF x
  <2>2. Store!Put(i, key, x) \in {w \in Writes : w.id = i}
    <3>1. x = [n \in {key} |-> x][key] /\ x \in ValuesOf(key)
      BY <2>1 DEF x
    <3>2. Store!Put(i, key, x) \in Before(i, [n \in {key} |-> x])
      BY <3>1, PutIsBefore
    <3> QED
      BY <3>2 DEF Before
  <2> QED
    BY <2>2 DEF Store!Drop, Store!Put, x
<1>2. Store!Write("erase", i, None, None) \in {w \in Writes : w.id = i}
  BY DEF Store!Write, Writes
<1>3. Store!Write("untrust", i, None, None) \in {w \in Writes : w.id = i}
  BY DEF Store!Write, Writes
<1> QED
  BY <1>1, <1>2, <1>3

LEMMA BeginRemovalKeeps ==
  ASSUME StoreInv, NEW c \in Callers, NEW i \in Store!Ids, NEW op \in {"delete", "clear"},
         NEW t \in Seq({w \in Writes : w.id = i}), file[i] # None,
         Store!Begins(c, [Store!Resting EXCEPT !.op = op, !.step = "write", !.id = i, !.todo = t]),
         impaired' = impaired \cup {i},
         UNCHANGED <<file, vault, trust, keyFiles, last, bundle, imports>>
  PROVE  StoreInv'
<1> DEFINE k == [Store!Resting EXCEPT !.op = op, !.step = "write", !.id = i, !.todo = t]
<1>1. call' = [call EXCEPT ![c] = k] /\ call[c].step = "idle"
  BY DEF Store!Begins
<1>2. /\ bundle \in Bundles /\ last \in Store!Ids /\ last <= last
      /\ impaired' \subseteq Store!Ids \cup {None} /\ CallShaped(call[c])
  BY DEF StoreInv, StoreTyped, Store!TypeOK, Store!Ids
<1>3. t \in Seq(Writes) /\ \A n \in 1..Len(t) : t[n].id = i
  BY SeqMonotonic, ElementOfSeq
<1>4. /\ k \in StoreLocals /\ k.op = op /\ k.step = "write" /\ k.id = i /\ k.todo = t
      /\ k.all = <<>>
  BY <1>3, RestingShaped DEF StoreLocals
<1> HIDE DEF k
<1>5. Aims(k) = {i} /\ CallShaped(k)
  BY <1>3, <1>4 DEF Aims, CallShaped, StepOf
<1>6. Goes(c, k)
  BY <1>1, <1>4, <1>5 DEF Goes
<1>7. i <= last
  BY <1>2 DEF StoreInv, Untouched, Store!Ids
<1>8. call[c].op # "edit" /\ \A j : ~Writing(k, j)
  BY <1>1, <1>2, <1>4 DEF CallShaped, StepOf, Writing
<1>9. \A j \in Store!Ids : j > last => j \notin Aims(k)
  BY <1>2, <1>5, <1>7 DEF Store!Ids
<1> QED
  BY <1>2, <1>4, <1>6, <1>8, <1>9, QuietKeeps

LEMMA RemovesKeep ==
  ASSUME StoreInv, NEW c \in Callers, Store!Removes(c)
  PROVE  StoreInv'
<1>1. PICK i \in Store!Ids :
        \/ \E deleteSecrets \in BOOLEAN : Store!BeginDelete(c, i, deleteSecrets)
        \/ \E keys \in {<<"psk">>, <<"vpn">>, <<"password">>, <<"path", "phrase">>} :
             Store!BeginClear(c, i, keys)
  BY DEF Store!Removes
<1> DEFINE Own == {w \in Writes : w.id = i}
<1>2. ASSUME NEW deleteSecrets \in BOOLEAN, Store!BeginDelete(c, i, deleteSecrets)
      PROVE  StoreInv'
  <2> DEFINE a == <<Store!Write("erase", i, None, None), Store!Write("untrust", i, None, None)>>
             b == [n \in 1..5 |-> Store!Drop(i, Store!Keys[n])]
             t == a \o IF deleteSecrets THEN b ELSE <<>>
  <2>1. \A n \in 1..5 : Store!Keys[n] \in Secret
    BY DEF Store!Keys, Secret
  <2>2. b \in Seq(Own)
    BY <2>1, RemovalsTyped, IsASeq
  <2>3. a \in Seq(Own) /\ <<>> \in Seq(Own)
    BY RemovalsTyped
  <2>4. t \in Seq(Own)
    BY <2>2, <2>3, ConcatProperties
  <2>5. /\ file[i] # None /\ impaired' = impaired \cup {i}
        /\ Store!Begins(c, [Store!Resting EXCEPT !.op = "delete", !.step = "write", !.id = i,
                              !.todo = t])
        /\ UNCHANGED <<file, vault, trust, keyFiles, last, bundle, imports>>
    BY <1>2 DEF Store!BeginDelete, Store!stores
  <2> HIDE DEF t
  <2> QED
    BY <2>4, <2>5, BeginRemovalKeeps
<1>3. ASSUME NEW keys \in {<<"psk">>, <<"vpn">>, <<"password">>, <<"path", "phrase">>},
             Store!BeginClear(c, i, keys)
      PROVE  StoreInv'
  <2> DEFINE t == [n \in DOMAIN keys |-> Store!Drop(i, keys[n])]
  <2>1. DOMAIN keys = 1..Len(keys) /\ Len(keys) \in Nat /\ \A n \in 1..Len(keys) : keys[n] \in Secret
    BY DEF Secret
  <2>2. t \in Seq(Own)
    BY <2>1, RemovalsTyped, IsASeq
  <2>3. /\ file[i] # None /\ impaired' = impaired \cup {i}
        /\ Store!Begins(c, [Store!Resting EXCEPT !.op = "clear", !.step = "write", !.id = i,
                              !.todo = t])
        /\ UNCHANGED <<file, vault, trust, keyFiles, last, bundle, imports>>
    BY <1>3 DEF Store!BeginClear, Store!stores
  <2> HIDE DEF t
  <2> QED
    BY <2>2, <2>3, BeginRemovalKeeps
<1> QED
  BY <1>1, <1>2, <1>3

LEMMA BeginExportKeeps ==
  ASSUME StoreInv, NEW c \in Callers, NEW i \in Store!Ids, Store!BeginExport(c, i)
  PROVE  StoreInv'
<1> DEFINE k == [Store!Resting EXCEPT !.op = "export", !.step = "collect", !.id = i,
                   !.value = file[i]]
<1>1. /\ file[i] # None /\ call' = [call EXCEPT ![c] = k] /\ call[c].step = "idle"
      /\ UNCHANGED <<file, vault, trust, keyFiles, imports, bundle, last, impaired>>
  BY DEF Store!BeginExport, Store!Begins, Store!stores
<1>2. /\ bundle \in Bundles /\ last \in Store!Ids /\ last <= last
      /\ impaired \subseteq Store!Ids \cup {None} /\ CallShaped(call[c])
      /\ file[i] \in Store!Profiles
  BY <1>1 DEF StoreInv, StoreTyped, Store!TypeOK, Store!Ids
<1>3. /\ k \in StoreLocals /\ k.op = "export" /\ k.step = "collect" /\ k.id = i
      /\ k.value = file[i] /\ k.todo = <<>> /\ k.all = <<>>
  BY <1>2, RestingShaped DEF StoreLocals
<1> HIDE DEF k
<1>4. Aims(k) = {i} /\ CallShaped(k)
  BY <1>2, <1>3 DEF Aims, CallShaped, StepOf
<1>5. Goes(c, k)
  BY <1>1, <1>3, <1>4 DEF Goes
<1>6. i <= last
  BY <1>1, <1>2 DEF StoreInv, Untouched, Store!Ids
<1>7. call[c].op # "edit" /\ \A j : ~Writing(k, j)
  BY <1>1, <1>2, <1>3 DEF CallShaped, StepOf, Writing
<1>8. \A j \in Store!Ids : j > last => j \notin Aims(k)
  BY <1>2, <1>4, <1>6 DEF Store!Ids
<1> QED
  BY <1>1, <1>2, <1>3, <1>5, <1>7, <1>8, QuietKeeps

LEMMA CollectKeeps ==
  ASSUME StoreInv, NEW c \in Callers, Store!Collect(c)
  PROVE  StoreInv'
<1> DEFINE x == call[c]
           item == [value |-> x.value, secrets |-> vault[x.id], trusted |-> x.id \in trust]
<1>1. /\ x.op = "export" /\ x.step = "collect" /\ Store!Returns(c)
      /\ bundle' = IF Store!Enough(x.value, vault[x.id]) THEN <<item>> ELSE bundle
      /\ UNCHANGED <<file, vault, trust, keyFiles, imports, last, impaired>>
  BY DEF Store!Collect, Store!At, Store!stores
<1>2. x.id \in Store!Ids /\ x.value \in Store!Profiles /\ bundle \in Bundles
      /\ vault[x.id] \in Store!Secrets
  BY <1>1 DEF StoreInv, StoreTyped, Store!TypeOK, CallShaped
<1>3. ASSUME Store!Enough(x.value, vault[x.id]) PROVE <<item>> \in Bundles
  <2>1. item \in Items
    BY <1>2, <1>3 DEF Items
  <2> QED
    BY <2>1 DEF Bundles
<1>4. bundle' \in Bundles
  BY <1>1, <1>2, <1>3
<1> QED
  BY <1>1, <1>4, ReturnKeeps

-----------------------------------------------------------------------------
(* ImportConnectionBundle                                                  *)

\* The identities of an import are fresh, and two of them.
LEMMA BeginImportKeeps ==
  ASSUME StoreInv, NEW c \in Callers, Store!BeginImport(c)
  PROVE  StoreInv'
<1> DEFINE all == [n \in DOMAIN bundle |-> last + n]
           k == [Store!Resting EXCEPT !.op = "import", !.step = "plan", !.source = bundle,
                   !.all = all]
<1>1. /\ bundle # <<>> /\ last + Len(bundle) <= MaxIds /\ last' = last + Len(bundle)
      /\ imports' = [i \in Store!Ids |-> IF i > last /\ i <= last' THEN "running" ELSE imports[i]]
      /\ call' = [call EXCEPT ![c] = k] /\ call[c].step = "idle"
      /\ UNCHANGED <<file, vault, trust, keyFiles, bundle, impaired>>
  BY DEF Store!BeginImport, Store!Begins, Store!stores
<1>2. /\ bundle \in Bundles /\ last \in 1..MaxIds /\ CallShaped(call[c]) /\ StoreTyped
      /\ Store!Ids = 1..MaxIds /\ MaxIds \in Nat
  BY StoresAssumption DEF StoreInv, StoreTyped, Store!TypeOK, Store!Ids, Store!StoreAssumption
<1>3. Len(bundle) \in {1, 2} /\ DOMAIN bundle = 1..Len(bundle)
  <2>1. bundle \in Seq(Items) /\ Len(bundle) <= 2
    BY <1>2 DEF Bundles
  <2>2. Len(bundle) \in Nat /\ DOMAIN bundle = 1..Len(bundle) /\ Len(bundle) # 0
    BY <1>1, <2>1, EmptySeq, LenProperties
  <2> QED
    BY <2>1, <2>2
<1>4. all \in Seq(Store!Ids) /\ Len(all) = Len(bundle) /\ \A n \in 1..Len(all) : all[n] = last + n
  <2>1. \A n \in 1..Len(bundle) : last + n \in Store!Ids
    BY <1>1, <1>2, <1>3
  <2>2. all = [n \in 1..Len(bundle) |-> last + n]
    BY <1>3
  <2> QED
    BY <1>3, <2>1, <2>2, IsASeq
<1> HIDE DEF all
<1>5. Distinct(all)
  BY <1>2, <1>3, <1>4 DEF Distinct
<1>6. \A i : i \in Store!ToSet(all) => i \in Store!Ids /\ i > last /\ i <= last'
  <2>1. Store!ToSet(all) = {all[n] : n \in 1..Len(all)}
    BY <1>4, LenProperties DEF Store!ToSet
  <2> QED
    BY <1>1, <1>2, <1>3, <1>4, <2>1
<1>7. /\ k \in StoreLocals /\ k.op = "import" /\ k.step = "plan" /\ k.source = bundle
      /\ k.all = all /\ k.todo = <<>>
  BY <1>2, <1>4, RestingShaped DEF StoreLocals
<1> HIDE DEF k
<1>8. CallShaped(k) /\ Aims(k) = Store!ToSet(all)
  <2>1. Aims(k) = Store!ToSet(all) /\ k.step \in StepOf(k)
    BY <1>7 DEF Aims, StepOf
  <2>2. \A n \in 1..Len(k.todo) : FALSE
    BY <1>7
  <2>3. k.source \in Bundles /\ Len(k.source) = Len(k.all) /\ Len(k.all) \in {1, 2}
        /\ Distinct(k.all)
    BY <1>2, <1>3, <1>4, <1>5, <1>7
  <2>4. CallShaped(k)
    BY <1>7, <2>1, <2>2, <2>3 DEF CallShaped
  <2> QED
    BY <2>1, <2>4
<1>9. Goes(c, k)
  BY <1>1, <1>7, <1>8 DEF Goes
<1>10. call[c].op = "none"
  BY <1>1, <1>2, IdleIsNone
<1>11. last' \in Store!Ids /\ last < last'
  BY <1>1, <1>2, <1>3
<1>12. Store!TypeOK'
  BY <1>1, <1>2, <1>11 DEF StoreTyped, Store!TypeOK
<1>13. StoreTyped'
  BY <1>1, <1>2, <1>9, <1>12, GoesTyped DEF StoreTyped
<1>14. ASSUME NEW i \in Store!Ids, i > last' PROVE Untouched(i)'
  <2>1. Untouched(i) /\ imports'[i] = imports[i] /\ i \notin Aims(k)
    BY <1>1, <1>2, <1>6, <1>8, <1>11, <1>14 DEF StoreInv
  <2>2. \A d \in Callers : call'[d] = IF d = c THEN k ELSE call[d]
    BY <1>2, <1>9, GoesTyped
  <2>3. \A d \in Callers : call'[d].op # "none" => i \notin Aims(call'[d])
    BY <2>1, <2>2 DEF Untouched
  <2> QED
    BY <1>1, <2>1, <2>3 DEF Untouched, Aims
<1>15. ASSUME NEW i \in Store!Ids \ impaired' PROVE Safe(i)'
  <2>1. Safe(i) /\ i \in Store!Ids
    BY <1>1, <1>15 DEF StoreInv, Safe
  <2>2. CASE i > last /\ i <= last'
    <3>1. Untouched(i) /\ imports'[i] = "running"
      BY <1>1, <1>15, <2>2 DEF StoreInv
    <3>2. \A d \in Callers : call'[d] = IF d = c THEN k ELSE call[d]
      BY <1>2, <1>9, GoesTyped
    <3>3. /\ \A d \in Callers \ {c} : ~Writing(call'[d], i)
          /\ \A d \in Callers : call'[d].op \in {"delete", "clear"} => call'[d].id # i
      BY <1>7, <3>1, <3>2 DEF Untouched, Writing, Aims
    <3>4. Phase(k, i, file'[i], vault'[i], imports'[i], i \in trust', i \in keyFiles')
      BY <1>1, <1>7, <3>1 DEF Phase, Untouched
    <3>5. InPhase(i)' /\ OneWriter(i)'
      BY <3>2, <3>3, <3>4 DEF InPhase, OneWriter
    <3>6. Secured(i)' /\ Settled(i)'
      BY <1>1, <3>1 DEF Secured, Settled, Untouched
    <3> QED
      BY <3>5, <3>6 DEF Safe
  <2>3. CASE ~(i > last /\ i <= last')
    <3>1. Unwritten(i) /\ i \notin Aims(k)
      BY <1>1, <1>6, <1>8, <2>1, <2>3 DEF Unwritten
    <3> QED
      BY <1>2, <1>9, <1>10, <2>1, <3>1, OthersStaySafe
  <2> QED
    BY <2>2, <2>3
<1> QED
  BY <1>13, <1>14, <1>15 DEF StoreInv, Safe

\* The writes of one connection, and of two.
LEMMA FlattenOne ==
  ASSUME NEW s, Len(s) = 1
  PROVE  Store!FlattenSeq(s) = s[1]
<1> DEFINE f == CHOOSE g : g = [i \in 1..Len(s) |-> IF i = 1 THEN s[i] ELSE g[i - 1] \o s[i]]
<1>1. Store!FlattenSeq(s) = f[Len(s)]
  BY DEF Store!FlattenSeq
<1> DEFINE h == [i \in 1..Len(s) |-> s[i]]
<1>2. h = [i \in 1..Len(s) |-> IF i = 1 THEN s[i] ELSE h[i - 1] \o s[i]]
  OBVIOUS
<1> HIDE DEF h
<1>3. f = [i \in 1..Len(s) |-> IF i = 1 THEN s[i] ELSE f[i - 1] \o s[i]]
  BY <1>2
<1> HIDE DEF f
<1> QED
  BY <1>1, <1>3

LEMMA FlattenTwo ==
  ASSUME NEW s, Len(s) = 2
  PROVE  Store!FlattenSeq(s) = s[1] \o s[2]
<1> DEFINE f == CHOOSE g : g = [i \in 1..Len(s) |-> IF i = 1 THEN s[i] ELSE g[i - 1] \o s[i]]
<1>1. Store!FlattenSeq(s) = f[Len(s)]
  BY DEF Store!FlattenSeq
<1> DEFINE h == [i \in 1..Len(s) |-> IF i = 1 THEN s[1] ELSE s[1] \o s[2]]
<1>2. h = [i \in 1..Len(s) |-> IF i = 1 THEN s[i] ELSE h[i - 1] \o s[i]]
  OBVIOUS
<1> HIDE DEF h
<1>3. f = [i \in 1..Len(s) |-> IF i = 1 THEN s[i] ELSE f[i - 1] \o s[i]]
  BY <1>2
<1> HIDE DEF f
<1>4. f[1] = s[1]
  BY <1>3
<1>5. f[2] = f[1] \o s[2]
  <2>1. 2 \in 1..Len(s) /\ 2 - 1 = 1
    OBVIOUS
  <2>2. f[2] = f[2 - 1] \o s[2]
    BY <1>3
  <2> QED
    BY <2>1, <2>2
<1>6. Store!FlattenSeq(s) = f[2]
  BY <1>1
<1> QED
  BY <1>4, <1>5, <1>6

\* The writes for another identity do not matter.
LEMMA PlannedApart ==
  ASSUME NEW t \in Seq(Writes), NEW u \in Seq(Writes), NEW i, NEW v, NEW r
  PROVE  /\ t \o u \in Seq(Writes)
         /\ \A n \in 1..Len(t \o u) : \/ \E m \in 1..Len(t) : (t \o u)[n] = t[m]
                                      \/ \E m \in 1..Len(u) : (t \o u)[n] = u[m]
         /\ Planned(t, i, v, r) /\ (\A n \in 1..Len(u) : u[n].id # i) => Planned(t \o u, i, v, r)
         /\ Planned(u, i, v, r) /\ (\A n \in 1..Len(t) : t[n].id # i) => Planned(t \o u, i, v, r)
<1> DEFINE a == t \o u
<1>1. /\ a \in Seq(Writes) /\ Len(a) = Len(t) + Len(u) /\ Len(t) \in Nat /\ Len(u) \in Nat
      /\ \A n \in 1..(Len(t) + Len(u)) : a[n] = IF n <= Len(t) THEN t[n] ELSE u[n - Len(t)]
  BY ConcatProperties, LenProperties
<1> HIDE DEF a
<1>2. ASSUME NEW n \in 1..Len(a)
      PROVE  IF n <= Len(t) THEN n \in 1..Len(t) /\ a[n] = t[n]
             ELSE n - Len(t) \in 1..Len(u) /\ a[n] = u[n - Len(t)]
  BY <1>1
<1>3. ASSUME NEW n \in 1..Len(t) PROVE n \in 1..Len(a) /\ a[n] = t[n]
  BY <1>1
<1>4. ASSUME NEW n \in 1..Len(u) PROVE n + Len(t) \in 1..Len(a) /\ a[n + Len(t)] = u[n]
  <2>1. n + Len(t) \in 1..(Len(t) + Len(u)) /\ ~(n + Len(t) <= Len(t)) /\ (n + Len(t)) - Len(t) = n
    BY <1>1
  <2> QED
    BY <1>1, <2>1
<1>5. ASSUME Planned(t, i, v, r), \A n \in 1..Len(u) : u[n].id # i
      PROVE  Planned(a, i, v, r)
  <2>1. \A n \in 1..Len(a) : a[n].id = i => n \in 1..Len(t) /\ a[n] = t[n]
    BY <1>2, <1>5
  <2>2. ASSUME NEW n \in 1..Len(a), a[n].id = i, a[n].kind = "put"
        PROVE  \E l \in 1..Len(a) : n < l /\ a[l].kind = "upsert" /\ a[l].id = i
    <3>1. PICK l \in 1..Len(t) : n < l /\ t[l].kind = "upsert" /\ t[l].id = i
      BY <1>5, <2>1, <2>2 DEF Planned
    <3> QED
      BY <1>3, <3>1
  <2> QED
    BY <1>5, <2>1, <2>2 DEF Planned
<1>6. ASSUME Planned(u, i, v, r), \A n \in 1..Len(t) : t[n].id # i
      PROVE  Planned(a, i, v, r)
  <2>1. \A n \in 1..Len(a) : a[n].id = i => n - Len(t) \in 1..Len(u) /\ a[n] = u[n - Len(t)]
    BY <1>2, <1>6
  <2>2. ASSUME NEW n \in 1..Len(a), a[n].id = i, a[n].kind = "put"
        PROVE  \E l \in 1..Len(a) : n < l /\ a[l].kind = "upsert" /\ a[l].id = i
    <3>1. PICK l \in 1..Len(u) : n - Len(t) < l /\ u[l].kind = "upsert" /\ u[l].id = i
      BY <1>6, <2>1, <2>2 DEF Planned
    <3>2. l + Len(t) \in 1..Len(a) /\ a[l + Len(t)] = u[l] /\ n < l + Len(t)
      BY <1>1, <1>4, <3>1
    <3> QED
      BY <3>1, <3>2
  <2>3. \A n, l \in 1..Len(a) :
          a[n].kind = "upsert" /\ a[n].id = i /\ a[l].kind = "upsert" /\ a[l].id = i => n = l
    <3> SUFFICES ASSUME NEW n \in 1..Len(a), NEW l \in 1..Len(a), a[n].kind = "upsert", a[n].id = i,
                        a[l].kind = "upsert", a[l].id = i
                 PROVE  n = l
      OBVIOUS
    <3>1. /\ n - Len(t) \in 1..Len(u) /\ a[n] = u[n - Len(t)]
          /\ l - Len(t) \in 1..Len(u) /\ a[l] = u[l - Len(t)]
      BY <2>1
    <3>2. n - Len(t) = l - Len(t)
      BY <1>6, <3>1 DEF Planned
    <3> QED
      BY <1>1, <3>2
  <2>4. \A n \in 1..Len(a) : a[n].id = i =>
          /\ a[n].kind \notin {"erase", "dropAll"}
          /\ a[n].kind = "upsert" => a[n].val = v
          /\ a[n].kind = "put" => a[n].val = r[a[n].arg]
    BY <1>6, <2>1 DEF Planned
  <2> QED
    BY <2>2, <2>3, <2>4 DEF Planned
<1>7. \A n \in 1..Len(a) : (\E m \in 1..Len(t) : a[n] = t[m]) \/ (\E m \in 1..Len(u) : a[n] = u[m])
  BY <1>2
<1> QED
  BY <1>1, <1>5, <1>6, <1>7 DEF a

\* The writes of a connection lead to a profile with its secrets.
Leading(t, i) ==
  \E v \in Store!Profiles, q \in Store!Secrets :
    /\ Store!Enough(v, q) /\ Planned(t, i, v, q) /\ Has(t, "upsert", i)
    /\ \A key \in Secret \ {"psk"} : Store!NoSecrets[key] = q[key] \/ HasPut(t, key, i)

LEMMA KindsTyped ==
  ASSUME NEW k \in Kinds
  PROVE  k.auth \in {"password", "key"} /\ k.isolated \in BOOLEAN
<1>1. CASE k = [auth |-> "password", isolated |-> TRUE]
  BY <1>1
<1>2. CASE k = [auth |-> "key", isolated |-> FALSE]
  BY <1>2
<1> QED
  BY <1>1, <1>2 DEF Kinds

LEMMA ImportWritesLead ==
  ASSUME NEW i \in Store!Ids, NEW item \in Items, NEW name \in Names
  PROVE  LET t == Store!ImportWrites(i, item, name) IN
           t \in Seq(Writes) /\ (\A n \in 1..Len(t) : t[n].id = i) /\ Leading(t, i)
<1> DEFINE u == item.value
           v == [u EXCEPT !.name = name]
           g == item.secrets
           key == u.auth = "key"
           phrase == key /\ g.path = "sealed"
           password == ~key
           vpn == u.isolated
           psk == u.isolated /\ g.psk
           q == [psk |-> psk, vpn |-> vpn, password |-> password, phrase |-> phrase,
                 path |-> IF key THEN g.path ELSE "none"]
           a1 == One(key, Store!Write("keyFile", i, None, TRUE))
           p2 == One(key, Store!Put(i, "path", g.path))
           p3 == One(phrase, Store!Put(i, "phrase", TRUE))
           p4 == One(password, Store!Put(i, "password", TRUE))
           p5 == One(vpn, Store!Put(i, "vpn", TRUE))
           p6 == One(psk, Store!Put(i, "psk", TRUE))
           a2 == a1 \o p2
           a3 == a2 \o p3
           a4 == a3 \o p4
           a5 == a4 \o p5
           a6 == a5 \o p6
           b == One(item.trusted, Store!Write("trust", i, None, TRUE))
           t == (a6 \o <<Store!Write("upsert", i, None, v)>>) \o b
<1>1. u \in Store!Profiles /\ g \in Store!Secrets /\ Store!Enough(u, g)
  BY DEF Items
<1>2. u.auth \in {"password", "key"} /\ u.isolated \in BOOLEAN /\ v \in Store!Profiles
      /\ v.auth = u.auth /\ v.isolated = u.isolated
  <2>1. PICK n \in Names, k \in Kinds : u = [name |-> n, auth |-> k.auth, isolated |-> k.isolated]
    BY <1>1 DEF Store!Profiles
  <2>2. v = [name |-> name, auth |-> k.auth, isolated |-> k.isolated]
    BY <2>1
  <2>3. v \in Store!Profiles
    BY <2>2 DEF Store!Profiles
  <2>4. k.auth \in {"password", "key"} /\ k.isolated \in BOOLEAN
    BY KindsTyped
  <2> QED
    BY <2>1, <2>2, <2>3, <2>4
<1>3. Store!ImportWrites(i, item, name) = t
  BY DEF Store!ImportWrites, One
<1> HIDE DEF u, g, v
<1>4. q \in Store!Secrets
  BY <1>1, <1>2 DEF Store!Secrets
<1>5. Store!Enough(v, q)
  BY <1>1, <1>2 DEF Store!Enough, Store!Secrets
<1>6. /\ key => g.path = q["path"] /\ g.path \in ValuesOf("path")
      /\ phrase => q["phrase"] = TRUE
      /\ password => q["password"] = TRUE
      /\ vpn => q["vpn"] = TRUE
      /\ psk => q["psk"] = TRUE
      /\ "path" \in Secret /\ "phrase" \in Secret /\ "password" \in Secret /\ "vpn" \in Secret
      /\ "psk" \in Secret
      /\ TRUE \in ValuesOf("phrase") /\ TRUE \in ValuesOf("password")
      /\ TRUE \in ValuesOf("vpn") /\ TRUE \in ValuesOf("psk")
  BY <1>1, <1>2 DEF Store!Secrets, ValuesOf, Secret
<1>7. ASSUME NEW k \in Secret \ {"psk"}
      PROVE  \/ Store!NoSecrets[k] = q[k] \/ (k = "path" /\ key) \/ (k = "phrase" /\ phrase)
             \/ (k = "password" /\ password) \/ (k = "vpn" /\ vpn)
  <2>1. CASE k = "path"
    BY <2>1 DEF Store!NoSecrets
  <2>2. CASE k = "phrase"
    BY <2>2 DEF Store!NoSecrets
  <2>3. CASE k = "password"
    BY <2>3 DEF Store!NoSecrets
  <2>4. CASE k = "vpn"
    BY <1>2, <2>4 DEF Store!NoSecrets
  <2> QED
    BY <2>1, <2>2, <2>3, <2>4 DEF Secret
<1> HIDE DEF q, phrase, password, vpn, psk, key
<1>8. /\ a1 \in Seq(Before(i, q)) /\ p2 \in Seq(Before(i, q)) /\ p3 \in Seq(Before(i, q))
      /\ p4 \in Seq(Before(i, q)) /\ p5 \in Seq(Before(i, q)) /\ p6 \in Seq(Before(i, q))
      /\ b \in Seq(After(i))
  BY <1>6, OneOf, PutIsBefore, TrustIsBefore
<1>9. /\ key => HasPut(p2, "path", i)
      /\ phrase => HasPut(p3, "phrase", i)
      /\ password => HasPut(p4, "password", i)
      /\ vpn => HasPut(p5, "vpn", i)
  BY OnePut
<1> HIDE DEF a1, p2, p3, p4, p5, p6, b
<1>10. a2 \in Seq(Before(i, q)) /\ \A k : HasPut(a1, k, i) \/ HasPut(p2, k, i) => HasPut(a2, k, i)
  BY <1>8, HasConcat
<1> HIDE DEF a2
<1>11. a3 \in Seq(Before(i, q)) /\ \A k : HasPut(a2, k, i) \/ HasPut(p3, k, i) => HasPut(a3, k, i)
  BY <1>8, <1>10, HasConcat
<1> HIDE DEF a3
<1>12. a4 \in Seq(Before(i, q)) /\ \A k : HasPut(a3, k, i) \/ HasPut(p4, k, i) => HasPut(a4, k, i)
  BY <1>8, <1>11, HasConcat
<1> HIDE DEF a4
<1>13. a5 \in Seq(Before(i, q)) /\ \A k : HasPut(a4, k, i) \/ HasPut(p5, k, i) => HasPut(a5, k, i)
  BY <1>8, <1>12, HasConcat
<1> HIDE DEF a5
<1>14. a6 \in Seq(Before(i, q)) /\ \A k : HasPut(a5, k, i) \/ HasPut(p6, k, i) => HasPut(a6, k, i)
  BY <1>8, <1>13, HasConcat
<1> HIDE DEF a6
<1>15. /\ t \in Seq(Writes) /\ Planned(t, i, v, q) /\ Has(t, "upsert", i)
       /\ \A k : HasPut(a6, k, i) => HasPut(t, k, i)
       /\ \A n \in 1..Len(t) : t[n].id = i
  BY <1>2, <1>8, <1>14, PlannedInOrder
<1> HIDE DEF t
<1>16. \A k \in Secret \ {"psk"} : Store!NoSecrets[k] = q[k] \/ HasPut(t, k, i)
  BY <1>7, <1>9, <1>10, <1>11, <1>12, <1>13, <1>14, <1>15
<1>17. Leading(t, i)
  BY <1>2, <1>4, <1>5, <1>15, <1>16 DEF Leading
<1> QED
  BY <1>3, <1>15, <1>17

LEMMA LeadingApart ==
  ASSUME NEW t \in Seq(Writes), NEW u \in Seq(Writes), NEW i
  PROVE  /\ Leading(t, i) /\ (\A n \in 1..Len(u) : u[n].id # i) => Leading(t \o u, i)
         /\ Leading(u, i) /\ (\A n \in 1..Len(t) : t[n].id # i) => Leading(t \o u, i)
<1>1. ASSUME Leading(t, i), \A n \in 1..Len(u) : u[n].id # i
      PROVE  Leading(t \o u, i)
  <2>1. PICK v \in Store!Profiles, q \in Store!Secrets :
          /\ Store!Enough(v, q) /\ Planned(t, i, v, q) /\ Has(t, "upsert", i)
          /\ \A key \in Secret \ {"psk"} : Store!NoSecrets[key] = q[key] \/ HasPut(t, key, i)
    BY <1>1 DEF Leading
  <2>2. Planned(t \o u, i, v, q)
    BY <1>1, <2>1, PlannedApart
  <2>3. /\ Has(t \o u, "upsert", i)
        /\ \A key \in Secret \ {"psk"} : Store!NoSecrets[key] = q[key] \/ HasPut(t \o u, key, i)
    BY <2>1, HasConcat
  <2> QED
    BY <2>1, <2>2, <2>3 DEF Leading
<1>2. ASSUME Leading(u, i), \A n \in 1..Len(t) : t[n].id # i
      PROVE  Leading(t \o u, i)
  <2>1. PICK v \in Store!Profiles, q \in Store!Secrets :
          /\ Store!Enough(v, q) /\ Planned(u, i, v, q) /\ Has(u, "upsert", i)
          /\ \A key \in Secret \ {"psk"} : Store!NoSecrets[key] = q[key] \/ HasPut(u, key, i)
    BY <1>2 DEF Leading
  <2>2. Planned(t \o u, i, v, q)
    BY <1>2, <2>1, PlannedApart
  <2>3. /\ Has(t \o u, "upsert", i)
        /\ \A key \in Secret \ {"psk"} : Store!NoSecrets[key] = q[key] \/ HasPut(t \o u, key, i)
    BY <2>1, HasConcat
  <2> QED
    BY <2>1, <2>2, <2>3 DEF Leading
<1> QED
  BY <1>1, <1>2

LEMMA ToSetIs ==
  ASSUME NEW S, NEW s \in Seq(S)
  PROVE  Store!ToSet(s) = {s[n] : n \in 1..Len(s)} /\ Len(s) \in Nat /\ Store!ToSet(s) \subseteq S
BY LenProperties, ElementOfSeq DEF Store!ToSet

\* The writes of an import of one or two connections.
LEMMA PlanLeads ==
  ASSUME NEW all \in Seq(Store!Ids), Distinct(all), Len(all) \in {1, 2}, NEW source \in Bundles,
         Len(source) = Len(all), NEW names \in [DOMAIN all -> Names]
  PROVE  LET t == Store!FlattenSeq([n \in DOMAIN names |->
                    Store!ImportWrites(all[n], source[n], names[n])]) IN
           /\ t \in Seq(Writes) /\ \A n \in 1..Len(t) : t[n].id \in Store!ToSet(all)
           /\ \A i \in Store!ToSet(all) : Leading(t, i)
<1> DEFINE s == [n \in DOMAIN names |-> Store!ImportWrites(all[n], source[n], names[n])]
           t == Store!FlattenSeq(s)
<1>1. DOMAIN names = 1..Len(all) /\ Store!ToSet(all) = {all[n] : n \in 1..Len(all)}
  BY LenProperties, ToSetIs
<1>2. Len(s) = Len(all) /\ \A n \in 1..Len(all) : s[n] = Store!ImportWrites(all[n], source[n], names[n])
  BY <1>1
<1>3. ASSUME NEW n \in 1..Len(all)
      PROVE  s[n] \in Seq(Writes) /\ (\A m \in 1..Len(s[n]) : s[n][m].id = all[n]) /\ Leading(s[n], all[n])
  <2>1. all[n] \in Store!Ids /\ source[n] \in Items /\ names[n] \in Names
    BY <1>1, ElementOfSeq DEF Bundles
  <2> QED
    BY <1>2, <2>1, ImportWritesLead
<1> HIDE DEF s
<1>4. CASE Len(all) = 1
  <2>1. t = s[1] /\ 1 \in 1..Len(all)
    BY <1>2, <1>4, FlattenOne
  <2>2. Store!ToSet(all) = {all[1]}
    BY <1>1, <1>4
  <2> HIDE DEF t
  <2>3. /\ t \in Seq(Writes) /\ \A n \in 1..Len(t) : t[n].id \in Store!ToSet(all)
        /\ \A i \in Store!ToSet(all) : Leading(t, i)
    BY <1>3, <2>1, <2>2
  <2> QED
    BY <2>3 DEF t, s
<1>5. CASE Len(all) = 2
  <2>1. t = s[1] \o s[2] /\ 1 \in 1..Len(all) /\ 2 \in 1..Len(all)
    <3>1. Len(s) = 2
      BY <1>2, <1>5
    <3>2. t = s[1] \o s[2]
      BY ONLY <3>1, FlattenTwo
    <3> QED
      BY <1>5, <3>2
  <2>2. Store!ToSet(all) = {all[1], all[2]} /\ all[1] # all[2]
    BY <1>1, <1>5 DEF Distinct
  <2> HIDE DEF t
  <2>3. /\ s[1] \in Seq(Writes) /\ (\A m \in 1..Len(s[1]) : s[1][m].id = all[1])
        /\ Leading(s[1], all[1])
    BY <1>3, <2>1
  <2>4. /\ s[2] \in Seq(Writes) /\ (\A m \in 1..Len(s[2]) : s[2][m].id = all[2])
        /\ Leading(s[2], all[2])
    BY <1>3, <2>1
  <2>5. t \in Seq(Writes) /\ \A n \in 1..Len(t) : t[n].id \in Store!ToSet(all)
    <3>1. /\ t \in Seq(Writes)
          /\ \A n \in 1..Len(t) : \/ \E m \in 1..Len(s[1]) : t[n] = s[1][m]
                                  \/ \E m \in 1..Len(s[2]) : t[n] = s[2][m]
      BY <2>1, <2>3, <2>4, PlannedApart
    <3>3. ASSUME NEW n \in 1..Len(t) PROVE t[n].id \in {all[1], all[2]}
      BY <2>3, <2>4, <3>1
    <3> QED
      BY <2>2, <3>1, <3>3
  <2>6. Leading(t, all[1])
    <3>1. \A m \in 1..Len(s[2]) : s[2][m].id # all[1]
      BY <2>2, <2>4
    <3> QED
      BY ONLY <2>1, <2>3, <2>4, <3>1, LeadingApart
  <2>7. Leading(t, all[2])
    <3>1. \A m \in 1..Len(s[1]) : s[1][m].id # all[2]
      BY <2>2, <2>3
    <3> QED
      BY ONLY <2>1, <2>3, <2>4, <3>1, LeadingApart
  <2> QED
    BY <2>2, <2>5, <2>6, <2>7 DEF t, s
<1> QED
  BY <1>4, <1>5

LEMMA PlanKeeps ==
  ASSUME StoreInv, NEW c \in Callers, Store!Plan(c)
  PROVE  StoreInv'
<1> DEFINE x == call[c]
<1>1. /\ x.op = "import" /\ x.step = "plan"
      /\ UNCHANGED <<file, vault, trust, keyFiles, imports, bundle, last, impaired>>
  BY DEF Store!Plan, Store!At, Store!stores
<1>2. /\ x \in StoreLocals /\ CallShaped(x) /\ bundle \in Bundles /\ last \in Store!Ids
      /\ last <= last /\ impaired \subseteq Store!Ids \cup {None}
      /\ x.all \in Seq(Store!Ids)
  BY DEF StoreInv, StoreTyped, Store!TypeOK, Store!Ids, StoreLocals
<1>3. /\ Distinct(x.all) /\ Len(x.all) \in {1, 2} /\ x.source \in Bundles
      /\ Len(x.source) = Len(x.all)
  BY <1>1, <1>2 DEF CallShaped
<1>4. PICK names \in [DOMAIN x.all -> Names] :
        call' = [call EXCEPT ![c].step = "write", ![c].source = None,
                   ![c].todo = Store!FlattenSeq([n \in DOMAIN names |->
                     Store!ImportWrites(x.all[n], x.source[n], names[n])])]
  BY DEF Store!Plan
<1> DEFINE t == Store!FlattenSeq([n \in DOMAIN names |->
                  Store!ImportWrites(x.all[n], x.source[n], names[n])])
           k == [x EXCEPT !.step = "write", !.source = None, !.todo = t]
<1>5. /\ t \in Seq(Writes) /\ \A n \in 1..Len(t) : t[n].id \in Store!ToSet(x.all)
      /\ \A i \in Store!ToSet(x.all) : Leading(t, i)
  BY <1>2, <1>3, PlanLeads
<1>6. call' = [call EXCEPT ![c] = k]
  BY <1>4
<1> HIDE DEF t
<1>7. /\ k \in StoreLocals /\ k.op = "import" /\ k.step = "write" /\ k.todo = t /\ k.all = x.all
  BY <1>1, <1>2, <1>5 DEF StoreLocals
<1> HIDE DEF k
<1>8. Aims(k) = Store!ToSet(x.all) /\ Aims(x) = Aims(k)
  BY <1>1, <1>7 DEF Aims
<1>9. CallShaped(k)
  <2>1. k.step \in StepOf(k)
    BY <1>7 DEF StepOf
  <2> QED
    BY <1>3, <1>5, <1>7, <1>8, <2>1 DEF CallShaped
<1>10. Goes(c, k)
  BY <1>6, <1>7, <1>9 DEF Goes
<1>11. ASSUME NEW i \in Store!Ids \ impaired, Writing(k, i)
       PROVE  /\ Writing(x, i)
              /\ Phase(k, i, file[i], vault[i], imports[i], i \in trust, i \in keyFiles)
  <2>1. Writing(x, i)
    BY <1>1, <1>8, <1>11 DEF Writing
  <2>2. Phase(x, i, file[i], vault[i], imports[i], i \in trust, i \in keyFiles)
    BY <2>1 DEF StoreInv, InPhase
  <2>3. file[i] = None /\ vault[i] = Store!NoSecrets /\ imports[i] = "running"
    BY <1>1, <2>2 DEF Phase
  <2>4. Leading(t, i)
    BY <1>5, <1>8, <1>11 DEF Writing
  <2>5. Coming(t, i, file[i], vault[i], TRUE)
    BY <2>3, <2>4 DEF Coming, Leading
  <2> QED
    BY <1>7, <2>1, <2>3, <2>5 DEF Phase
<1>12. \A j \in Store!Ids : j > last => j \notin Aims(k)
  BY <1>1, <1>8 DEF StoreInv, Untouched
<1> QED
  BY <1>1, <1>2, <1>7, <1>10, <1>11, <1>12, QuietKeeps

-----------------------------------------------------------------------------
(* A write is performed                                                    *)

LEMMA PerformedWrites ==
  ASSUME StoreTyped, NEW w \in Writes, Store!Performed(w)
  PROVE  /\ file' \in [Store!Ids -> Store!Profiles \cup {None}]
         /\ vault' \in [Store!Ids -> Store!Secrets]
         /\ trust' \subseteq Store!Ids /\ keyFiles' \subseteq Store!Ids
         /\ \A i \in Store!Ids :
              /\ file'[i] = FileAfter(w, i, file[i])
              /\ vault'[i] = VaultAfter(w, i, vault[i])
              /\ i # w.id => Unwritten(i) \/ imports'[i] # imports[i]
              /\ i \in trust' => i \in trust \/ (w.id = i /\ w.kind = "trust")
              /\ i \in keyFiles' => i \in keyFiles \/ (w.id = i /\ w.kind = "keyFile")
              /\ w.id = i /\ w.kind = "untrust" => i \notin trust'
              /\ w.id = i /\ w.kind = "unlink" => i \notin keyFiles'
<1>1. /\ file \in [Store!Ids -> Store!Profiles \cup {None}]
      /\ vault \in [Store!Ids -> Store!Secrets]
      /\ trust \subseteq Store!Ids /\ keyFiles \subseteq Store!Ids
  BY DEF StoreTyped, Store!TypeOK
<1>2. /\ w.id \in Store!Ids
      /\ w.kind = "upsert" => w.val \in Store!Profiles
      /\ w.kind = "put" => w.arg \in Secret /\ w.val \in ValuesOf(w.arg)
  BY WriteParts
<1>3. /\ file' = [file EXCEPT ![w.id] = FileAfter(w, w.id, file[w.id])]
      /\ FileAfter(w, w.id, file[w.id]) \in Store!Profiles \cup {None}
  BY <1>1, <1>2 DEF Store!Performed, FileAfter
<1>4. VaultAfter(w, w.id, vault[w.id]) \in Store!Secrets
  BY <1>1, <1>2, VaultAfterTyped
<1>5. vault' = [vault EXCEPT ![w.id] = VaultAfter(w, w.id, vault[w.id])]
  <2>1. CASE w.kind = "put"
    BY <1>1, <1>2, <2>1 DEF Store!Performed, VaultAfter
  <2>2. CASE w.kind # "put"
    BY <1>1, <1>2, <2>2 DEF Store!Performed, VaultAfter
  <2> QED
    BY <2>1, <2>2
<1>6. /\ trust' \in {trust, trust \cup {w.id}, trust \ {w.id}}
      /\ trust' = trust \cup {w.id} => w.kind = "trust" \/ w.id \in trust
      /\ w.kind = "untrust" => trust' = trust \ {w.id}
  BY DEF Store!Performed, Store!Trusts
<1>7. /\ keyFiles' \in {keyFiles, keyFiles \cup {w.id}, keyFiles \ {w.id}}
      /\ keyFiles' = keyFiles \cup {w.id} => w.kind = "keyFile" \/ w.id \in keyFiles
      /\ w.kind = "unlink" => keyFiles' = keyFiles \ {w.id}
  BY DEF Store!Performed
<1>8. ASSUME NEW i \in Store!Ids
      PROVE  /\ file'[i] = FileAfter(w, i, file[i])
             /\ vault'[i] = VaultAfter(w, i, vault[i])
  BY <1>1, <1>2, <1>3, <1>5 DEF FileAfter, VaultAfter
<1>9. ASSUME NEW i \in Store!Ids, i # w.id, imports'[i] = imports[i] PROVE Unwritten(i)
  BY <1>6, <1>7, <1>8, <1>9 DEF Unwritten, FileAfter, VaultAfter
<1>10. ASSUME NEW i \in Store!Ids
       PROVE  /\ i \in trust' => i \in trust \/ (w.id = i /\ w.kind = "trust")
              /\ i \in keyFiles' => i \in keyFiles \/ (w.id = i /\ w.kind = "keyFile")
              /\ w.id = i /\ w.kind = "untrust" => i \notin trust'
              /\ w.id = i /\ w.kind = "unlink" => i \notin keyFiles'
  BY <1>6, <1>7
<1>11. trust' \subseteq Store!Ids /\ keyFiles' \subseteq Store!Ids
  BY <1>1, <1>2, <1>6, <1>7
<1>12. file' \in [Store!Ids -> Store!Profiles \cup {None}] /\ vault' \in [Store!Ids -> Store!Secrets]
  BY <1>1, <1>2, <1>3, <1>4, <1>5
<1> QED
  BY <1>8, <1>9, <1>10, <1>11, <1>12

\* A caller writes, and goes on with the same call.
LEMMA WrittenKeeps ==
  ASSUME StoreInv, NEW c \in Callers, NEW k, Goes(c, k), NEW w \in Writes, Store!Performed(w),
         w.id \in Aims(call[c]), Aims(k) = Aims(call[c]), k.op = call[c].op, k.id = call[c].id,
         k.op \in {"new", "copy", "edit", "delete", "clear", "import", "rollback"},
         UNCHANGED <<last, bundle, imports, impaired>>,
         \A i \in Store!Ids \ impaired : Writing(call[c], i) =>
           /\ Phase(k, i, file'[i], vault'[i], imports[i], i \in trust', i \in keyFiles')
           /\ file'[i] # None /\ k.op # "edit" => Store!Enough(file'[i], vault'[i])
  PROVE  StoreInv'
<1> DEFINE x == call[c]
<1>1. StoreTyped /\ Store!TypeOK /\ w.id \in Store!Ids
  BY WriteParts DEF StoreInv, StoreTyped
<1>2. /\ \A i \in Store!Ids : i # w.id => Unwritten(i)
      /\ file' \in [Store!Ids -> Store!Profiles \cup {None}]
      /\ vault' \in [Store!Ids -> Store!Secrets]
      /\ trust' \subseteq Store!Ids /\ keyFiles' \subseteq Store!Ids
  BY <1>1, PerformedWrites
<1>3. StoreTyped'
  BY <1>1, <1>2, GoesTyped DEF StoreTyped, Store!TypeOK
<1>4. \A d \in Callers : call'[d] = IF d = c THEN k ELSE call[d]
  BY <1>1, GoesTyped
<1>5. ASSUME NEW i \in Store!Ids, i > last' PROVE Untouched(i)'
  <2>1. Untouched(i) /\ i \notin Aims(x)
    BY <1>5 DEF StoreInv, Untouched
  <2>2. Unwritten(i) /\ i \notin Aims(k)
    BY <1>2, <2>1
  <2>3. \A d \in Callers : call'[d].op # "none" => i \notin Aims(call'[d])
    BY <1>4, <2>1, <2>2 DEF Untouched
  <2> QED
    BY <2>1, <2>2, <2>3 DEF Untouched, Unwritten, Aims
<1>6. ASSUME NEW i \in Store!Ids \ impaired' PROVE Safe(i)'
  <2>1. Safe(i) /\ i \in Store!Ids \ impaired
    BY <1>6 DEF StoreInv, Safe
  <2>2. Writing(k, i) <=> Writing(x, i)
    BY DEF Writing
  <2>3. k.op \in {"delete", "clear"} => k.id # i
    BY <2>1 DEF Safe, OneWriter
  <2>4. CASE i = w.id
    <3>1. Writing(x, i)
      BY <2>3, <2>4 DEF Writing, Aims
    <3>2. /\ Phase(k, i, file'[i], vault'[i], imports[i], i \in trust', i \in keyFiles')
          /\ file'[i] # None /\ k.op # "edit" => Store!Enough(file'[i], vault'[i])
      BY <2>1, <3>1
    <3>3. \A d \in Callers : Writing(call'[d], i) => d = c
      BY <1>4, <2>1, <3>1 DEF Safe, OneWriter
    <3>4. InPhase(i)'
      BY <1>4, <3>2, <3>3 DEF InPhase
    <3>5. OneWriter(i)'
      BY <1>4, <2>1, <2>3, <3>3 DEF Safe, OneWriter
    <3>6. k.op = "edit" => Store!Editing(i)'
      BY <1>4, <3>1 DEF Store!Editing, Writing, Aims
    <3>7. Secured(i)'
      BY <3>2, <3>6 DEF Secured
    <3>8. k.op \in {"new", "copy", "edit", "import", "rollback"}
      BY <3>1 DEF Writing
    <3>9. imports[i] # "undone" /\ (imports[i] = "done" => file'[i] # None)
      BY <3>2, <3>8 DEF Phase
    <3>10. Settled(i)'
      BY <3>9 DEF Settled
    <3> QED
      BY ONLY <3>4, <3>5, <3>7, <3>10 DEF Safe
  <2>5. CASE i # w.id
    <3>1. Unwritten(i)
      BY <1>2, <2>5
    <3>2. Writing(k, i) => Phase(k, i, file[i], vault[i], imports[i], i \in trust, i \in keyFiles)
      <4>1. Writing(k, i) =>
              Phase(k, i, file'[i], vault'[i], imports[i], i \in trust', i \in keyFiles')
        BY <2>1, <2>2
      <4>2. /\ file'[i] = file[i] /\ vault'[i] = vault[i]
            /\ i \in trust' <=> i \in trust
            /\ i \in keyFiles' <=> i \in keyFiles
        BY <3>1 DEF Unwritten
      <4> QED
        BY ONLY <4>1, <4>2 DEF Phase, Undoing
    <3>3. x.op = "edit" /\ x.id = i => k.op = "edit" /\ k.id = i
      OBVIOUS
    <3> QED
      BY <1>1, <2>1, <2>2, <2>3, <3>1, <3>2, <3>3, StaysSafe
  <2> QED
    BY <2>4, <2>5
<1> QED
  BY <1>3, <1>5, <1>6 DEF StoreInv, Safe

LEMMA WriteNextKeeps ==
  ASSUME StoreInv, NEW c \in Callers, Store!WriteNext(c)
  PROVE  StoreInv'
<1> DEFINE x == call[c]
           w == x.todo[1]
           k == [x EXCEPT !.todo = Tail(@), !.copied = @ \/ Store!Trusts(w)]
<1>1. /\ x \in StoreLocals /\ CallShaped(x) /\ StoreTyped /\ x.todo \in Seq(Writes)
      /\ x.copied \in BOOLEAN
  BY DEF StoreInv, StoreTyped, StoreLocals
<1>2. /\ x.step = "write" /\ x.todo # <<>>
      /\ UNCHANGED <<last, bundle, imports, impaired>>
  BY DEF Store!WriteNext
<1>3. /\ Tail(x.todo) \in Seq(Writes) /\ Head(x.todo) = w /\ w \in Writes /\ 1 \in 1..Len(x.todo)
      /\ \A n \in 1..Len(Tail(x.todo)) : n + 1 \in 1..Len(x.todo) /\ Tail(x.todo)[n] = x.todo[n + 1]
  BY <1>1, <1>2, TailShifts
<1>4. Store!Performed(w) /\ call' = [call EXCEPT ![c] = k]
  BY <1>3 DEF Store!WriteNext
<1>5. /\ k \in StoreLocals /\ k.op = x.op /\ k.step = x.step /\ k.id = x.id /\ k.all = x.all
      /\ k.todo = Tail(x.todo)
  BY <1>1, <1>3 DEF StoreLocals, Store!Trusts
<1> HIDE DEF k, w
<1>6. Aims(k) = Aims(x)
  BY <1>5 DEF Aims
<1>7. x.op \in {"new", "copy", "edit", "delete", "clear", "import"}
  <2>1. x.op \in {"none", "new", "copy", "edit", "delete", "clear", "export", "import", "rollback"}
        /\ x.step \in StepOf(x)
    BY <1>1 DEF StoreLocals, CallShaped
  <2> QED
    BY <1>2, <2>1 DEF StepOf
<1>8. CallShaped(k)
  <2>1. k.step \in StepOf(k)
    BY <1>1, <1>5 DEF CallShaped, StepOf
  <2>2. \A n \in 1..Len(k.todo) : k.todo[n].id \in Aims(k)
    BY <1>1, <1>3, <1>5, <1>6 DEF CallShaped
  <2> QED
    BY <1>1, <1>2, <1>5, <1>7, <2>1, <2>2 DEF CallShaped
<1>9. Goes(c, k)
  BY <1>4, <1>5, <1>8 DEF Goes
<1>10. w.id \in Aims(x)
  BY <1>1, <1>3 DEF CallShaped, w
<1>11. ASSUME NEW i \in Store!Ids \ impaired, Writing(x, i)
       PROVE  /\ Phase(k, i, file'[i], vault'[i], imports[i], i \in trust', i \in keyFiles')
              /\ file'[i] # None /\ k.op # "edit" => Store!Enough(file'[i], vault'[i])
  <2>1. Phase(x, i, file[i], vault[i], imports[i], i \in trust, i \in keyFiles)
    BY <1>11 DEF StoreInv, InPhase
  <2>2. x.op \in {"new", "copy", "edit", "import"}
    BY <1>7, <1>11 DEF Writing
  <2> DEFINE isNew == x.op # "edit"
  <2>3. Coming(x.todo, i, file[i], vault[i], isNew) /\ isNew \in BOOLEAN
    BY <1>2, <2>1, <2>2 DEF Phase
  <2> HIDE DEF isNew
  <2>4. vault[i] \in Store!Secrets /\ vault'[i] \in Store!Secrets
        /\ file'[i] = FileAfter(w, i, file[i]) /\ vault'[i] = VaultAfter(w, i, vault[i])
    BY <1>1, <1>3, <1>4, PerformedWrites DEF StoreTyped, Store!TypeOK
  <2>5. Coming(Tail(x.todo), i, file'[i], vault'[i], isNew)
    BY <1>1, <1>2, <2>3, <2>4, ComingGoesOn DEF w
  <2>6. isNew /\ file'[i] # None => Store!Enough(file'[i], vault'[i])
    BY <1>3, <2>3, <2>4, <2>5, ComingIsEnough
  <2>7. file[i] # None => file'[i] # None
    <3>1. w.id = i => w.kind # "erase"
      BY <1>1, <1>2, <2>3, PlannedTail DEF Coming, w
    <3> QED
      BY <1>3, <2>4, <3>1, WriteParts DEF FileAfter
  <2>8. Phase(k, i, file'[i], vault'[i], imports[i], i \in trust', i \in keyFiles')
    BY <1>2, <1>5, <2>1, <2>2, <2>5, <2>7 DEF Phase, isNew
  <2> QED
    BY <1>5, <2>2, <2>6, <2>8 DEF isNew
<1> QED
  BY <1>2, <1>3, <1>4, <1>5, <1>6, <1>7, <1>9, <1>10, <1>11, WrittenKeeps

-----------------------------------------------------------------------------
(* The rollback of an import                                               *)

\* What everything taken back takes.
Undoes(t, i) ==
  /\ Has(t, "erase", i) /\ Has(t, "untrust", i) /\ Has(t, "dropAll", i) /\ Has(t, "unlink", i)
  /\ \A n \in 1..Len(t) : t[n].kind = "dropAll" /\ t[n].id = i =>
       \E l \in 1..Len(t) : l < n /\ t[l].kind = "erase" /\ t[l].id = i

Removals == {w \in Writes : w.kind \in {"erase", "untrust", "dropAll", "unlink"}}

LEMMA RollbackWritesUndo ==
  ASSUME NEW i \in Store!Ids
  PROVE  LET t == Store!RollbackWrites(i) IN
           /\ t \in Seq(Removals) /\ \A n \in 1..Len(t) : t[n].id = i
           /\ Undoes(t, i)
<1> DEFINE a == Store!Write("erase", i, None, None)
           b == Store!Write("untrust", i, None, None)
           d == Store!Write("dropAll", i, None, None)
           e == Store!Write("unlink", i, None, None)
           t == <<a, b, d, e>>
<1>1. /\ a \in Removals /\ a.kind = "erase" /\ a.id = i
      /\ b \in Removals /\ b.kind = "untrust" /\ b.id = i
      /\ d \in Removals /\ d.kind = "dropAll" /\ d.id = i
      /\ e \in Removals /\ e.kind = "unlink" /\ e.id = i
  BY DEF Store!Write, Writes, Removals
<1>2. Store!RollbackWrites(i) = t
  BY DEF Store!RollbackWrites
<1> HIDE DEF a, b, d, e
<1>3. t \in Seq(Removals) /\ Len(t) = 4 /\ t[1] = a /\ t[2] = b /\ t[3] = d /\ t[4] = e
  BY <1>1
<1> HIDE DEF t
<1>4. \A n \in 1..Len(t) : n \in {1, 2, 3, 4}
  BY <1>3
<1>5. \A n \in 1..Len(t) : t[n].id = i
  BY <1>1, <1>3, <1>4
<1>6. 1 \in 1..Len(t) /\ 2 \in 1..Len(t) /\ 3 \in 1..Len(t) /\ 4 \in 1..Len(t)
  BY <1>3
<1>7. \A n \in 1..Len(t) : t[n].kind = "dropAll" => n = 3
  BY <1>1, <1>3, <1>4
<1>8. Undoes(t, i)
  BY <1>1, <1>3, <1>6, <1>7 DEF Undoes, Has
<1> QED
  BY <1>2, <1>3, <1>5, <1>8

LEMMA RemovalsApart ==
  ASSUME NEW t \in Seq(Removals), NEW u \in Seq(Removals)
  PROVE  LET a == t \o u IN
           /\ a \in Seq(Removals)
           /\ \A n \in 1..Len(a) : \/ \E m \in 1..Len(t) : a[n] = t[m]
                                   \/ \E m \in 1..Len(u) : a[n] = u[m]
<1> DEFINE a == t \o u
<1>1. /\ a \in Seq(Removals) /\ Len(a) = Len(t) + Len(u) /\ Len(t) \in Nat /\ Len(u) \in Nat
      /\ \A n \in 1..(Len(t) + Len(u)) : a[n] = IF n <= Len(t) THEN t[n] ELSE u[n - Len(t)]
  BY ConcatProperties, LenProperties
<1> HIDE DEF a
<1>2. ASSUME NEW n \in 1..Len(a)
      PROVE  IF n <= Len(t) THEN n \in 1..Len(t) /\ a[n] = t[n]
             ELSE n - Len(t) \in 1..Len(u) /\ a[n] = u[n - Len(t)]
  BY <1>1
<1>3. \A n \in 1..Len(a) : (\E m \in 1..Len(t) : a[n] = t[m]) \/ (\E m \in 1..Len(u) : a[n] = u[m])
  BY <1>2
<1> QED
  BY <1>1, <1>3 DEF a

LEMMA UndoesApart ==
  ASSUME NEW t \in Seq(Removals), NEW u \in Seq(Removals), NEW i
  PROVE  /\ Undoes(t, i) /\ (\A n \in 1..Len(u) : u[n].id # i) => Undoes(t \o u, i)
         /\ Undoes(u, i) /\ (\A n \in 1..Len(t) : t[n].id # i) => Undoes(t \o u, i)
<1> DEFINE a == t \o u
<1>1. /\ a \in Seq(Removals) /\ Len(a) = Len(t) + Len(u) /\ Len(t) \in Nat /\ Len(u) \in Nat
      /\ \A n \in 1..(Len(t) + Len(u)) : a[n] = IF n <= Len(t) THEN t[n] ELSE u[n - Len(t)]
  BY ConcatProperties, LenProperties
<1>2. /\ Has(t, "erase", i) \/ Has(u, "erase", i) => Has(a, "erase", i)
      /\ Has(t, "untrust", i) \/ Has(u, "untrust", i) => Has(a, "untrust", i)
      /\ Has(t, "dropAll", i) \/ Has(u, "dropAll", i) => Has(a, "dropAll", i)
      /\ Has(t, "unlink", i) \/ Has(u, "unlink", i) => Has(a, "unlink", i)
  BY HasConcat
<1> HIDE DEF a
<1>3. ASSUME NEW n \in 1..Len(a)
      PROVE  IF n <= Len(t) THEN n \in 1..Len(t) /\ a[n] = t[n]
             ELSE n - Len(t) \in 1..Len(u) /\ a[n] = u[n - Len(t)]
  BY <1>1
<1>4. ASSUME NEW n \in 1..Len(t) PROVE n \in 1..Len(a) /\ a[n] = t[n]
  BY <1>1
<1>5. ASSUME NEW n \in 1..Len(u) PROVE n + Len(t) \in 1..Len(a) /\ a[n + Len(t)] = u[n]
  <2>1. n + Len(t) \in 1..(Len(t) + Len(u)) /\ ~(n + Len(t) <= Len(t)) /\ (n + Len(t)) - Len(t) = n
    BY <1>1
  <2> QED
    BY <1>1, <2>1
<1>6. ASSUME Undoes(t, i), \A n \in 1..Len(u) : u[n].id # i
      PROVE  Undoes(a, i)
  <2>1. ASSUME NEW n \in 1..Len(a), a[n].kind = "dropAll", a[n].id = i
        PROVE  \E l \in 1..Len(a) : l < n /\ a[l].kind = "erase" /\ a[l].id = i
    <3>1. n \in 1..Len(t) /\ a[n] = t[n]
      BY <1>3, <1>6, <2>1
    <3>2. PICK l \in 1..Len(t) : l < n /\ t[l].kind = "erase" /\ t[l].id = i
      BY <1>6, <2>1, <3>1 DEF Undoes
    <3> QED
      BY <1>4, <3>2
  <2> QED
    BY <1>2, <1>6, <2>1 DEF Undoes
<1>7. ASSUME Undoes(u, i), \A n \in 1..Len(t) : t[n].id # i
      PROVE  Undoes(a, i)
  <2>1. ASSUME NEW n \in 1..Len(a), a[n].kind = "dropAll", a[n].id = i
        PROVE  \E l \in 1..Len(a) : l < n /\ a[l].kind = "erase" /\ a[l].id = i
    <3>1. n - Len(t) \in 1..Len(u) /\ a[n] = u[n - Len(t)]
      BY <1>3, <1>7, <2>1
    <3>2. PICK l \in 1..Len(u) : l < n - Len(t) /\ u[l].kind = "erase" /\ u[l].id = i
      BY <1>7, <2>1, <3>1 DEF Undoes
    <3>3. l + Len(t) \in 1..Len(a) /\ a[l + Len(t)] = u[l] /\ l + Len(t) < n
      BY <1>1, <1>5, <3>2
    <3> QED
      BY <3>2, <3>3
  <2> QED
    BY <1>2, <1>7, <2>1 DEF Undoes
<1> QED
  BY <1>6, <1>7 DEF a

\* The rollback of an import of one or two connections.
LEMMA RollbackUndoes ==
  ASSUME NEW all \in Seq(Store!Ids), Distinct(all), Len(all) \in {1, 2}
  PROVE  LET t == Store!FlattenSeq([n \in DOMAIN all |-> Store!RollbackWrites(all[n])]) IN
           /\ t \in Seq(Removals) /\ \A n \in 1..Len(t) : t[n].id \in Store!ToSet(all)
           /\ \A i \in Store!ToSet(all) : Undoes(t, i)
<1> DEFINE s == [n \in DOMAIN all |-> Store!RollbackWrites(all[n])]
           t == Store!FlattenSeq(s)
<1>1. DOMAIN all = 1..Len(all) /\ Store!ToSet(all) = {all[n] : n \in 1..Len(all)}
  BY LenProperties, ToSetIs
<1>2. Len(s) = Len(all) /\ \A n \in 1..Len(all) : s[n] = Store!RollbackWrites(all[n])
  BY <1>1
<1>3. ASSUME NEW n \in 1..Len(all)
      PROVE  s[n] \in Seq(Removals) /\ (\A m \in 1..Len(s[n]) : s[n][m].id = all[n]) /\ Undoes(s[n], all[n])
  <2>1. all[n] \in Store!Ids
    BY ElementOfSeq
  <2> QED
    BY <1>2, <2>1, RollbackWritesUndo
<1> HIDE DEF s
<1>4. CASE Len(all) = 1
  <2>1. t = s[1] /\ 1 \in 1..Len(all)
    BY <1>2, <1>4, FlattenOne
  <2>2. Store!ToSet(all) = {all[1]}
    BY <1>1, <1>4
  <2> HIDE DEF t
  <2>3. /\ t \in Seq(Removals) /\ \A n \in 1..Len(t) : t[n].id \in Store!ToSet(all)
        /\ \A i \in Store!ToSet(all) : Undoes(t, i)
    BY <1>3, <2>1, <2>2
  <2> QED
    BY <2>3 DEF t, s
<1>5. CASE Len(all) = 2
  <2>1. t = s[1] \o s[2] /\ 1 \in 1..Len(all) /\ 2 \in 1..Len(all)
    <3>1. Len(s) = 2
      BY <1>2, <1>5
    <3>2. t = s[1] \o s[2]
      BY ONLY <3>1, FlattenTwo
    <3> QED
      BY <1>5, <3>2
  <2>2. Store!ToSet(all) = {all[1], all[2]} /\ all[1] # all[2]
    BY <1>1, <1>5 DEF Distinct
  <2> HIDE DEF t
  <2>3. /\ s[1] \in Seq(Removals) /\ (\A m \in 1..Len(s[1]) : s[1][m].id = all[1])
        /\ Undoes(s[1], all[1])
    BY <1>3, <2>1
  <2>4. /\ s[2] \in Seq(Removals) /\ (\A m \in 1..Len(s[2]) : s[2][m].id = all[2])
        /\ Undoes(s[2], all[2])
    BY <1>3, <2>1
  <2>5. t \in Seq(Removals) /\ \A n \in 1..Len(t) : t[n].id \in Store!ToSet(all)
    <3>1. LET a == s[1] \o s[2] IN
            /\ a \in Seq(Removals)
            /\ \A n \in 1..Len(a) : \/ \E m \in 1..Len(s[1]) : a[n] = s[1][m]
                                    \/ \E m \in 1..Len(s[2]) : a[n] = s[2][m]
      BY <2>3, <2>4, RemovalsApart
    <3>2. /\ t \in Seq(Removals)
          /\ \A n \in 1..Len(t) : \/ \E m \in 1..Len(s[1]) : t[n] = s[1][m]
                                  \/ \E m \in 1..Len(s[2]) : t[n] = s[2][m]
      BY <2>1, <3>1
    <3>3. ASSUME NEW n \in 1..Len(t) PROVE t[n].id \in {all[1], all[2]}
      BY <2>3, <2>4, <3>2
    <3> QED
      BY <2>2, <3>2, <3>3
  <2>6. Undoes(t, all[1])
    <3>1. \A m \in 1..Len(s[2]) : s[2][m].id # all[1]
      BY <2>2, <2>4
    <3> QED
      BY ONLY <2>1, <2>3, <2>4, <3>1, UndoesApart
  <2>7. Undoes(t, all[2])
    <3>1. \A m \in 1..Len(s[1]) : s[1][m].id # all[2]
      BY <2>2, <2>3
    <3> QED
      BY ONLY <2>1, <2>3, <2>4, <3>1, UndoesApart
  <2> QED
    BY <2>2, <2>5, <2>6, <2>7 DEF t, s
<1> QED
  BY <1>4, <1>5

LEMMA RollbackGoesOn ==
  ASSUME StoreInv, NEW c \in Callers, Store!At(c, "rollback", "undo"), call[c].todo # <<>>,
         call' = [call EXCEPT ![c].todo = Tail(@)]
  PROVE  LET x == call[c]
             k == [x EXCEPT !.todo = Tail(@)] IN
           /\ Goes(c, k) /\ k.op = "rollback" /\ k.id = x.id /\ Aims(k) = Aims(x)
           /\ k.todo = Tail(x.todo)
           /\ x.todo \in Seq(Writes) /\ x.todo[1] \in Writes /\ x.todo[1].id \in Aims(x)
           /\ Head(x.todo) = x.todo[1]
           /\ \A n \in 1..Len(x.todo) : x.todo[n].kind \in {"erase", "untrust", "dropAll", "unlink"}
<1> DEFINE x == call[c]
           k == [x EXCEPT !.todo = Tail(@)]
<1>1. x \in StoreLocals /\ CallShaped(x) /\ x.todo \in Seq(Writes)
  BY DEF StoreInv, StoreTyped, StoreLocals
<1>2. x.op = "rollback" /\ x.step = "undo" /\ x.todo # <<>>
  BY DEF Store!At
<1>3. /\ Tail(x.todo) \in Seq(Writes) /\ Head(x.todo) = x.todo[1] /\ x.todo[1] \in Writes
      /\ 1 \in 1..Len(x.todo)
      /\ \A n \in 1..Len(Tail(x.todo)) : n + 1 \in 1..Len(x.todo) /\ Tail(x.todo)[n] = x.todo[n + 1]
  BY <1>1, <1>2, TailShifts
<1>4. call' = [call EXCEPT ![c] = k]
  OBVIOUS
<1>5. /\ k \in StoreLocals /\ k.op = x.op /\ k.step = x.step /\ k.id = x.id /\ k.all = x.all
      /\ k.todo = Tail(x.todo)
  BY <1>1, <1>3 DEF StoreLocals
<1> HIDE DEF k
<1>6. Aims(k) = Aims(x)
  BY <1>5 DEF Aims
<1>7. /\ \A n \in 1..Len(x.todo) : x.todo[n].id \in Aims(x)
      /\ \A n \in 1..Len(x.todo) : x.todo[n].kind \in {"erase", "untrust", "dropAll", "unlink"}
      /\ Distinct(x.all) /\ Len(x.all) \in {1, 2}
  BY <1>1, <1>2 DEF CallShaped
<1>8. CallShaped(k)
  <2>1. k.step \in StepOf(k)
    BY <1>2, <1>5 DEF StepOf
  <2>2. \A n \in 1..Len(k.todo) :
          k.todo[n].id \in Aims(k) /\ k.todo[n].kind \in {"erase", "untrust", "dropAll", "unlink"}
    BY <1>3, <1>5, <1>6, <1>7
  <2> QED
    BY <1>2, <1>5, <1>7, <2>1, <2>2 DEF CallShaped
<1>9. Goes(c, k)
  BY <1>4, <1>5, <1>8 DEF Goes
<1> QED
  BY <1>2, <1>1, <1>3, <1>5, <1>6, <1>7, <1>9 DEF k

LEMMA UndoingLess ==
  ASSUME NEW t, NEW i, NEW f, NEW s, NEW a, NEW b, NEW a2, NEW b2,
         Undoing(t, i, f, s, a, b), a2 => a, b2 => b
  PROVE  Undoing(t, i, f, s, a2, b2)
BY DEF Undoing

LEMMA RollbackKeeps ==
  ASSUME StoreInv, NEW c \in Callers, Store!Rollback(c)
  PROVE  StoreInv'
<1> DEFINE x == call[c]
           w == x.todo[1]
           k == [x EXCEPT !.todo = Tail(@)]
<1>1. /\ x.op = "rollback" /\ x.step = "undo" /\ x.todo # <<>>
      /\ UNCHANGED <<last, bundle, imports, impaired>>
  BY DEF Store!Rollback, Store!At
<1>2. /\ Goes(c, k) /\ k.op = "rollback" /\ k.id = x.id /\ Aims(k) = Aims(x)
      /\ k.todo = Tail(x.todo)
      /\ x.todo \in Seq(Writes) /\ w \in Writes /\ w.id \in Aims(x) /\ Head(x.todo) = w
      /\ \A n \in 1..Len(x.todo) : x.todo[n].kind \in {"erase", "untrust", "dropAll", "unlink"}
  BY RollbackGoesOn DEF Store!Rollback
<1> HIDE DEF k
<1>3. Store!Performed(w) /\ w.kind \in {"erase", "untrust", "dropAll", "unlink"}
  BY <1>1, <1>2, TailShifts DEF Store!Rollback
<1>4. ASSUME NEW i \in Store!Ids \ impaired, Writing(x, i)
      PROVE  /\ Phase(k, i, file'[i], vault'[i], imports[i], i \in trust', i \in keyFiles')
             /\ file'[i] # None => Store!Enough(file'[i], vault'[i])
  <2> DEFINE trusted == i \in trust
             hasFile == i \in keyFiles
  <2>1. Phase(x, i, file[i], vault[i], imports[i], trusted, hasFile)
    BY <1>4 DEF StoreInv, InPhase
  <2>2. imports[i] = "running" /\ Undoing(x.todo, i, file[i], vault[i], trusted, hasFile)
    BY <1>1, <2>1 DEF Phase
  <2>3. /\ file'[i] = FileAfter(w, i, file[i]) /\ vault'[i] = VaultAfter(w, i, vault[i])
        /\ i \in trust' => trusted /\ ~(w.id = i /\ w.kind = "untrust")
        /\ i \in keyFiles' => hasFile /\ ~(w.id = i /\ w.kind = "unlink")
    BY <1>2, <1>3, PerformedWrites DEF StoreInv
  <2> HIDE DEF trusted, hasFile, w
  <2>4. /\ Undoing(Tail(x.todo), i, FileAfter(w, i, file[i]), VaultAfter(w, i, vault[i]),
                   trusted /\ ~(w.id = i /\ w.kind = "untrust"),
                   hasFile /\ ~(w.id = i /\ w.kind = "unlink"))
        /\ FileAfter(w, i, file[i]) \in {file[i], None}
        /\ FileAfter(w, i, file[i]) # None => VaultAfter(w, i, vault[i]) = vault[i]
    BY <1>1, <1>2, <2>2, UndoingGoesOn DEF w
  <2> DEFINE a == i \in trust'
             b == i \in keyFiles'
  <2>5. Undoing(k.todo, i, file'[i], vault'[i], a, b)
    <3>1. Undoing(k.todo, i, file'[i], vault'[i], trusted /\ ~(w.id = i /\ w.kind = "untrust"),
                  hasFile /\ ~(w.id = i /\ w.kind = "unlink"))
      BY <1>2, <2>3, <2>4
    <3>2. /\ a => trusted /\ ~(w.id = i /\ w.kind = "untrust")
          /\ b => hasFile /\ ~(w.id = i /\ w.kind = "unlink")
      BY <2>3
    <3> HIDE DEF a, b
    <3> QED
      BY <3>1, <3>2, UndoingLess
  <2>6. ~Store!Editing(i)
    BY <1>1, <1>4 DEF StoreInv, OneWriter, Store!Editing, Writing, Aims
  <2>7. file[i] # None => Store!Enough(file[i], vault[i])
    BY <1>4, <2>6 DEF StoreInv, Secured
  <2>8. file'[i] # None => Store!Enough(file'[i], vault'[i])
    BY <2>3, <2>4, <2>7
  <2> QED
    BY <1>2, <2>2, <2>5, <2>8 DEF Phase
<1> QED
  BY <1>1, <1>2, <1>3, <1>4, WrittenKeeps

LEMMA RollbackFaultKeeps ==
  ASSUME StoreInv, NEW c \in Callers, Store!RollbackFault(c)
  PROVE  StoreInv'
<1> DEFINE x == call[c]
           w == x.todo[1]
           k == [x EXCEPT !.todo = Tail(@)]
<1>1. /\ x.op = "rollback" /\ x.step = "undo" /\ x.todo # <<>>
      /\ UNCHANGED <<file, vault, trust, keyFiles, last, bundle, imports>>
  BY DEF Store!RollbackFault, Store!At, Store!stores
<1>2. /\ Goes(c, k) /\ k.op = "rollback" /\ k.id = x.id /\ Aims(k) = Aims(x)
      /\ k.todo = Tail(x.todo)
      /\ x.todo \in Seq(Writes) /\ w \in Writes /\ w.id \in Aims(x) /\ Head(x.todo) = w
      /\ \A n \in 1..Len(x.todo) : x.todo[n].kind \in {"erase", "untrust", "dropAll", "unlink"}
  BY RollbackGoesOn DEF Store!RollbackFault
<1> HIDE DEF k
<1>3. impaired' = impaired \cup {w.id} /\ w.id \in Store!Ids
  BY <1>2, WriteParts DEF Store!RollbackFault
<1>4. /\ bundle' \in Bundles /\ last' \in Store!Ids /\ last <= last'
      /\ impaired \subseteq impaired' /\ impaired' \subseteq Store!Ids \cup {None}
  <2>1. bundle \in Bundles /\ last \in Store!Ids /\ impaired \subseteq Store!Ids \cup {None}
    BY DEF StoreInv, StoreTyped, Store!TypeOK
  <2>2. last <= last
    BY <2>1 DEF Store!Ids
  <2> QED
    BY <1>1, <1>3, <2>1, <2>2
<1>5. ASSUME NEW i \in Store!Ids \ impaired', Writing(k, i)
      PROVE  /\ Phase(k, i, file[i], vault[i], imports[i], i \in trust, i \in keyFiles)
             /\ Writing(x, i)
  <2>1. Writing(x, i) /\ w.id # i /\ i \in Store!Ids \ impaired
    BY <1>1, <1>2, <1>3, <1>5 DEF Writing
  <2> DEFINE trusted == i \in trust
             hasFile == i \in keyFiles
  <2>2. Phase(x, i, file[i], vault[i], imports[i], trusted, hasFile)
    BY <2>1 DEF StoreInv, InPhase
  <2>3. imports[i] = "running" /\ Undoing(x.todo, i, file[i], vault[i], trusted, hasFile)
    BY <1>1, <2>2 DEF Phase
  <2> HIDE DEF trusted, hasFile
  <2>4. Undoing(Tail(x.todo), i, FileAfter(w, i, file[i]), VaultAfter(w, i, vault[i]),
                trusted /\ ~(w.id = i /\ w.kind = "untrust"),
                hasFile /\ ~(w.id = i /\ w.kind = "unlink"))
    BY <1>1, <1>2, <2>3, UndoingGoesOn
  <2>5. Undoing(k.todo, i, file[i], vault[i], trusted, hasFile)
    BY <1>2, <2>1, <2>4 DEF Undoing, FileAfter, VaultAfter
  <2> QED
    BY <1>2, <2>1, <2>3, <2>5 DEF Phase, trusted, hasFile
<1>6. \A j \in Store!Ids : j > last' => j \notin Aims(k)
  BY <1>1, <1>2 DEF StoreInv, Untouched
<1> QED
  BY <1>1, <1>2, <1>4, <1>5, <1>6, QuietKeeps

-----------------------------------------------------------------------------
(* A call ends                                                             *)

\* A call returns; what it leaves of the identities it was about is as it should be.
LEMMA EndKeeps ==
  ASSUME StoreInv, NEW c \in Callers, Store!Returns(c),
         UNCHANGED <<file, vault, keyFiles, last, bundle>>,
         trust' \subseteq trust, impaired \subseteq impaired',
         impaired' \subseteq Store!Ids \cup {None},
         imports' \in [Store!Ids -> {"none", "running", "done", "undone"}],
         \A i \in Store!Ids : i > last => imports'[i] = imports[i],
         \A i \in Store!Ids \ impaired' :
           IF Writing(call[c], i)
             THEN (file[i] # None => Store!Enough(file[i], vault[i])) /\ Settled(i)'
             ELSE Unwritten(i)
  PROVE  StoreInv'
<1> DEFINE x == call[c]
           k == Store!Resting
<1>1. StoreTyped /\ Store!TypeOK
  BY DEF StoreInv, StoreTyped
<1>2. Goes(c, k) /\ k.op = "none" /\ ~(k.op \in {"delete", "clear"})
      /\ \A i : ~Writing(k, i)
  BY ReturnGoes, RestingShaped DEF Writing
<1> HIDE DEF k
<1>3. \A d \in Callers : call'[d] = IF d = c THEN k ELSE call[d]
  BY <1>1, <1>2, GoesTyped
<1>4. StoreTyped'
  BY <1>1, <1>2, GoesTyped DEF StoreTyped, Store!TypeOK
<1>5. ASSUME NEW i \in Store!Ids, i > last' PROVE Untouched(i)'
  <2>1. Untouched(i)
    BY <1>5 DEF StoreInv
  <2>2. \A d \in Callers : call'[d].op # "none" => i \notin Aims(call'[d])
    BY <1>2, <1>3, <2>1 DEF Untouched
  <2> QED
    BY <1>5, <2>1, <2>2 DEF Untouched, Aims
<1>6. ASSUME NEW i \in Store!Ids \ impaired' PROVE Safe(i)'
  <2>1. Safe(i)
    BY <1>6 DEF StoreInv, Safe
  <2>2. CASE Writing(x, i)
    <3>1. \A d \in Callers : ~Writing(call'[d], i)
      BY <1>2, <1>3, <2>1, <2>2 DEF Safe, OneWriter
    <3>2. InPhase(i)'
      BY <3>1 DEF InPhase
    <3>3. OneWriter(i)'
      BY <1>2, <1>3, <2>1, <3>1 DEF Safe, OneWriter
    <3>4. Secured(i)' /\ Settled(i)'
      BY <2>2 DEF Secured
    <3> QED
      BY <3>2, <3>3, <3>4 DEF Safe
  <2>3. CASE ~Writing(x, i)
    <3>1. Unwritten(i) /\ ~(x.op = "edit" /\ x.id = i)
      BY <2>3 DEF Writing, Aims
    <3> QED
      BY <1>1, <1>2, <2>1, <3>1, StaysSafe
  <2> QED
    BY <2>2, <2>3
<1> QED
  BY <1>4, <1>5, <1>6 DEF StoreInv, Safe

\* The writes of a call are done.
LEMMA FinishKeeps ==
  ASSUME StoreInv, NEW c \in Callers, Store!Finish(c)
  PROVE  StoreInv'
<1> DEFINE x == call[c]
<1>1. /\ Store!Returns(c) /\ x.step = "write" /\ x.todo = <<>>
      /\ UNCHANGED <<file, vault, trust, keyFiles, last, bundle, impaired>>
      /\ imports' = [i \in Store!Ids |-> IF x.op = "import" /\ i \in Store!ToSet(x.all)
                                           THEN "done" ELSE imports[i]]
  BY DEF Store!Finish, Store!stores
<1>2. /\ x \in StoreLocals /\ CallShaped(x) /\ x.todo \in Seq(Writes)
      /\ vault \in [Store!Ids -> Store!Secrets] /\ impaired \subseteq Store!Ids \cup {None}
      /\ imports \in [Store!Ids -> {"none", "running", "done", "undone"}]
  BY DEF StoreInv, StoreTyped, Store!TypeOK, StoreLocals
<1>3. x.op # "rollback" /\ x.op # "none"
  BY <1>1, <1>2 DEF CallShaped, StepOf
<1>4. imports' \in [Store!Ids -> {"none", "running", "done", "undone"}]
  BY <1>1, <1>2
<1>5. ASSUME NEW i \in Store!Ids, i > last PROVE imports'[i] = imports[i]
  <2>1. i \notin Aims(x)
    BY <1>3, <1>5 DEF StoreInv, Untouched
  <2> QED
    BY <1>1, <2>1 DEF Aims
<1>6. ASSUME NEW i \in Store!Ids \ impaired, Writing(x, i)
      PROVE  (file[i] # None => Store!Enough(file[i], vault[i])) /\ Settled(i)'
  <2>1. Phase(x, i, file[i], vault[i], imports[i], i \in trust, i \in keyFiles)
    BY <1>6 DEF StoreInv, InPhase
  <2>2. x.op \in {"new", "copy", "edit", "import"}
    BY <1>3, <1>6 DEF Writing
  <2>3. \E isNew \in BOOLEAN : Coming(x.todo, i, file[i], vault[i], isNew)
    BY <1>1, <2>1, <2>2 DEF Phase
  <2>4. Store!Enough(file[i], vault[i]) /\ file[i] # None
    BY <1>1, <1>2, <2>3, ComingIsEnough
  <2>5. imports[i] # "undone"
    BY <2>1, <2>2 DEF Phase
  <2>6. Settled(i)'
    BY <1>1, <2>4, <2>5 DEF Settled
  <2> QED
    BY <2>4, <2>6
<1>7. ASSUME NEW i \in Store!Ids \ impaired, ~Writing(x, i) PROVE Unwritten(i)
  <2>1. imports'[i] = imports[i]
    BY <1>1, <1>7 DEF Writing, Aims
  <2> QED
    BY <1>1, <2>1 DEF Unwritten
<1> QED
  BY <1>1, <1>2, <1>4, <1>5, <1>6, <1>7, EndKeeps

\* Everything is taken back.
LEMMA RolledBackKeeps ==
  ASSUME StoreInv, NEW c \in Callers, Store!RolledBack(c)
  PROVE  StoreInv'
<1> DEFINE x == call[c]
<1>1. /\ Store!Returns(c) /\ x.op = "rollback" /\ x.step = "undo" /\ x.todo = <<>>
      /\ UNCHANGED <<file, vault, trust, keyFiles, last, bundle, impaired>>
      /\ imports' = [i \in Store!Ids |-> IF i \in Store!ToSet(x.all) THEN "undone" ELSE imports[i]]
  BY DEF Store!RolledBack, Store!stores, Store!At
<1>2. /\ impaired \subseteq Store!Ids \cup {None}
      /\ imports \in [Store!Ids -> {"none", "running", "done", "undone"}]
  BY DEF StoreInv, StoreTyped, Store!TypeOK
<1>3. Aims(x) = Store!ToSet(x.all)
  BY <1>1 DEF Aims
<1>4. imports' \in [Store!Ids -> {"none", "running", "done", "undone"}]
  BY <1>1, <1>2
<1>5. ASSUME NEW i \in Store!Ids, i > last PROVE imports'[i] = imports[i]
  <2>1. i \notin Aims(x)
    BY <1>1, <1>5 DEF StoreInv, Untouched
  <2> QED
    BY <1>1, <1>3, <2>1
<1>6. ASSUME NEW i \in Store!Ids \ impaired, Writing(x, i)
      PROVE  (file[i] # None => Store!Enough(file[i], vault[i])) /\ Settled(i)'
  <2>1. Phase(x, i, file[i], vault[i], imports[i], i \in trust, i \in keyFiles)
    BY <1>6 DEF StoreInv, InPhase
  <2>2. Undoing(<<>>, i, file[i], vault[i], i \in trust, i \in keyFiles)
    BY <1>1, <2>1 DEF Phase
  <2>3. \A kind : ~Has(<<>>, kind, i)
    BY DEF Has
  <2>4. file[i] = None /\ vault[i] = Store!NoSecrets /\ i \notin trust /\ i \notin keyFiles
    BY <2>2, <2>3 DEF Undoing
  <2>5. imports'[i] = "undone"
    BY <1>1, <1>3, <1>6 DEF Writing
  <2> QED
    BY <1>1, <2>4, <2>5 DEF Settled
<1>7. ASSUME NEW i \in Store!Ids \ impaired, ~Writing(x, i) PROVE Unwritten(i)
  <2>1. imports'[i] = imports[i]
    BY <1>1, <1>3, <1>7 DEF Writing
  <2> QED
    BY <1>1, <2>1 DEF Unwritten
<1> QED
  BY <1>1, <1>2, <1>4, <1>5, <1>6, <1>7, EndKeeps

-----------------------------------------------------------------------------
(* Failures                                                                *)

\* An import takes everything back when a write fails.
LEMMA ImportFailsKeeps ==
  ASSUME StoreInv, NEW c \in Callers, Store!WriteFails(c), call[c].op = "import"
  PROVE  StoreInv'
<1> DEFINE x == call[c]
           t == Store!FlattenSeq([n \in DOMAIN x.all |-> Store!RollbackWrites(x.all[n])])
           k == [x EXCEPT !.op = "rollback", !.step = "undo", !.todo = t]
<1>1. /\ x.op = "import" /\ x.step = "write"
      /\ UNCHANGED <<file, vault, trust, keyFiles, imports, bundle, last, impaired>>
      /\ call' = [call EXCEPT ![c] = k]
  BY DEF Store!WriteFails
<1>2. /\ x \in StoreLocals /\ CallShaped(x) /\ x.all \in Seq(Store!Ids)
      /\ Distinct(x.all) /\ Len(x.all) \in {1, 2}
      /\ bundle \in Bundles /\ last \in Store!Ids /\ impaired \subseteq Store!Ids \cup {None}
  BY <1>1 DEF StoreInv, StoreTyped, StoreLocals, CallShaped, Store!TypeOK
<1>3. /\ t \in Seq(Removals) /\ \A n \in 1..Len(t) : t[n].id \in Store!ToSet(x.all)
      /\ \A i \in Store!ToSet(x.all) : Undoes(t, i)
  BY <1>2, RollbackUndoes
<1> HIDE DEF t
<1>4. t \in Seq(Writes) /\ \A n \in 1..Len(t) : t[n].kind \in {"erase", "untrust", "dropAll", "unlink"}
  <2>1. t \in Seq(Writes)
    BY <1>3 DEF Removals
  <2>2. \A n \in 1..Len(t) : t[n] \in Removals
    BY <1>3, ElementOfSeq
  <2> QED
    BY <2>1, <2>2 DEF Removals
<1>5. k \in StoreLocals /\ k.op = "rollback" /\ k.step = "undo" /\ k.todo = t /\ k.all = x.all
  BY <1>1, <1>2, <1>4 DEF StoreLocals
<1> HIDE DEF k
<1>6. Aims(k) = Store!ToSet(x.all) /\ Aims(x) = Aims(k)
  BY <1>1, <1>5 DEF Aims
<1>7. CallShaped(k)
  <2>1. k.step \in StepOf(k)
    BY <1>5 DEF StepOf
  <2> QED
    BY <1>2, <1>3, <1>4, <1>5, <1>6, <2>1 DEF CallShaped
<1>8. Goes(c, k)
  BY <1>1, <1>5, <1>7 DEF Goes
<1>9. ASSUME NEW i \in Store!Ids \ impaired, Writing(k, i)
      PROVE  /\ Writing(x, i)
             /\ Phase(k, i, file[i], vault[i], imports[i], i \in trust, i \in keyFiles)
  <2>1. Writing(x, i)
    BY <1>1, <1>6, <1>9 DEF Writing
  <2>2. Phase(x, i, file[i], vault[i], imports[i], i \in trust, i \in keyFiles)
    BY <1>9, <2>1 DEF StoreInv, InPhase
  <2>3. imports[i] = "running"
    BY <1>1, <2>2 DEF Phase
  <2>4. Undoes(t, i)
    BY <1>3, <1>6, <2>1 DEF Writing
  <2>5. Undoing(t, i, file[i], vault[i], i \in trust, i \in keyFiles)
    BY <2>4 DEF Undoing, Undoes
  <2> QED
    BY <1>5, <2>1, <2>3, <2>5 DEF Phase
<1>10. \A j \in Store!Ids : j > last => j \notin Aims(k)
  BY <1>1, <1>6 DEF StoreInv, Untouched
<1>11. last <= last
  BY <1>2 DEF Store!Ids
<1> QED
  BY <1>1, <1>2, <1>5, <1>8, <1>9, <1>10, <1>11, QuietKeeps

LEMMA WriteFailsKeeps ==
  ASSUME StoreInv, NEW c \in Callers, Store!WriteFails(c)
  PROVE  StoreInv'
<1> DEFINE x == call[c]
           w == x.todo[1]
<1>1. CASE x.op = "import"
  BY <1>1, ImportFailsKeeps
<1>2. CASE x.op # "import"
  <2>1. /\ x.step = "write" /\ x.todo # <<>> /\ Store!Returns(c)
        /\ UNCHANGED <<file, vault, keyFiles, last, bundle, imports>>
    BY <1>2 DEF Store!WriteFails
  <2>2. /\ x \in StoreLocals /\ CallShaped(x) /\ x.todo \in Seq(Writes)
        /\ vault \in [Store!Ids -> Store!Secrets] /\ impaired \subseteq Store!Ids \cup {None}
        /\ imports \in [Store!Ids -> {"none", "running", "done", "undone"}]
    BY DEF StoreInv, StoreTyped, Store!TypeOK, StoreLocals
  <2>3. Head(x.todo) = w /\ w \in Writes /\ 1 \in 1..Len(x.todo)
    BY <2>1, <2>2, TailShifts
  <2>4. x.op \in {"new", "copy", "edit", "delete", "clear"} /\ w.id = x.id /\ w.id \in Store!Ids
    <3>1. x.op \in {"none", "new", "copy", "edit", "delete", "clear", "export", "import", "rollback"}
          /\ x.step \in StepOf(x)
      BY <2>2 DEF StoreLocals, CallShaped
    <3>2. x.op \in {"new", "copy", "edit", "delete", "clear"}
      BY <1>2, <2>1, <3>1 DEF StepOf
    <3>3. w.id \in Aims(x)
      BY <2>2, <2>3 DEF CallShaped
    <3> QED
      BY <2>3, <3>2, <3>3, WriteParts DEF Aims
  <2>5. /\ trust' \in {trust, trust \ {w.id}}
        /\ impaired' = IF x.op = "edit" THEN impaired \cup {w.id} ELSE impaired
    BY <1>2, <2>3 DEF Store!WriteFails
  <2> HIDE DEF w
  <2>6. /\ trust' \subseteq trust /\ impaired \subseteq impaired'
        /\ impaired' \subseteq Store!Ids \cup {None}
    BY <2>2, <2>4, <2>5
  <2>7. ASSUME NEW i \in Store!Ids \ impaired', Writing(x, i)
        PROVE  (file[i] # None => Store!Enough(file[i], vault[i])) /\ Settled(i)'
    <3>1. Phase(x, i, file[i], vault[i], imports[i], i \in trust, i \in keyFiles)
      BY <2>6, <2>7 DEF StoreInv, InPhase
    <3>2. i = w.id
      BY <1>2, <2>4, <2>7 DEF Writing, Aims
    <3>3. x.op \in {"new", "copy"}
      BY <2>4, <2>5, <2>7, <3>2 DEF Writing
    <3>4. Coming(x.todo, i, file[i], vault[i], TRUE) /\ imports[i] = "none"
      BY <2>1, <3>1, <3>3 DEF Phase
    <3>5. file[i] # None => Store!Enough(file[i], vault[i])
      BY <2>2, <3>4, ComingIsEnough
    <3> QED
      BY <2>1, <3>4, <3>5 DEF Settled
  <2>8. ASSUME NEW i \in Store!Ids \ impaired', ~Writing(x, i) PROVE Unwritten(i)
    <3>1. i # w.id
      <4>1. x.op \in {"delete", "clear"} => x.id # i
        BY <2>6, <2>8 DEF StoreInv, OneWriter
      <4> QED
        BY <2>4, <2>8, <4>1 DEF Writing, Aims
    <3> QED
      BY <2>1, <2>5, <3>1 DEF Unwritten
  <2>9. \A i \in Store!Ids : i > last => imports'[i] = imports[i]
    BY <2>1
  <2>10. imports' \in [Store!Ids -> {"none", "running", "done", "undone"}]
    BY <2>1, <2>2
  <2> QED
    BY <2>1, <2>6, <2>7, <2>8, <2>9, <2>10, EndKeeps
<1> QED
  BY <1>1, <1>2

LEMMA QuitKeeps ==
  ASSUME StoreInv, Store!Quit
  PROVE  StoreInv'
<1>1. /\ UNCHANGED <<file, vault, trust, keyFiles, last, bundle, imports>>
      /\ impaired' = impaired \cup UNION {{call[c].id} \cup Store!ToSet(call[c].all) : c \in Callers}
      /\ call' = [c \in Callers |-> Store!Resting]
  BY DEF Store!Quit, Store!stores
<1>2. StoreTyped /\ Store!TypeOK
  BY DEF StoreInv, StoreTyped
<1>3. \A c \in Callers : /\ call'[c].op = "none" /\ call'[c] \in StoreLocals
                         /\ CallShaped(call'[c])
  BY <1>1, RestingShaped
<1>4. \A c \in Callers : call[c].id \in Store!Ids \cup {None} /\ Store!ToSet(call[c].all) \subseteq Store!Ids
  BY <1>2, ToSetIs DEF StoreTyped, StoreLocals
<1>5. impaired \subseteq impaired' /\ impaired' \subseteq Store!Ids \cup {None}
  BY <1>1, <1>2, <1>4 DEF Store!TypeOK
<1>6. StoreTyped'
  <2>1. call' \in [Callers -> StoreLocals]
    BY <1>1, RestingShaped
  <2> QED
    BY <1>1, <1>2, <1>3, <1>5, <2>1 DEF StoreTyped, Store!TypeOK
<1>7. ASSUME NEW i \in Store!Ids, i > last' PROVE Untouched(i)'
  BY <1>1, <1>3, <1>7 DEF StoreInv, Untouched
<1>8. ASSUME NEW i \in Store!Ids \ impaired' PROVE Safe(i)'
  <2>1. Safe(i) /\ \A c \in Callers : call[c].id # i
    BY <1>1, <1>5, <1>8 DEF StoreInv, Safe
  <2>2. InPhase(i)' /\ OneWriter(i)'
    BY <1>3 DEF InPhase, OneWriter, Writing
  <2>3. Secured(i)'
    BY <1>1, <2>1 DEF Safe, Secured, Store!Editing
  <2>4. Settled(i)'
    BY <1>1, <2>1 DEF Safe, Settled
  <2> QED
    BY <2>2, <2>3, <2>4 DEF Safe
<1> QED
  BY <1>6, <1>7, <1>8 DEF StoreInv, Safe

-----------------------------------------------------------------------------
(* The invariant holds                                                     *)

LEMMA ReceivedTyped == {<<>>} \cup Store!Received \subseteq Bundles
<1>1. <<>> \in Bundles
  BY EmptySeq DEF Bundles
<1>2. ASSUME NEW u \in Store!Profiles, NEW v \in Store!Profiles, NEW g \in Given,
             u.auth = "key", v.auth = "password", g.path = "sealed", g.vpn, g.phrase
      PROVE  <<[value |-> u, secrets |-> g, trusted |-> TRUE],
               [value |-> v, secrets |-> [g EXCEPT !.password = TRUE], trusted |-> FALSE]>> \in Bundles
  <2> DEFINE h == [g EXCEPT !.password = TRUE]
             a == [value |-> u, secrets |-> g, trusted |-> TRUE]
             b == [value |-> v, secrets |-> h, trusted |-> FALSE]
  <2>1. g \in Store!Secrets
    BY GivenTyped
  <2>2. h \in Store!Secrets /\ h.vpn /\ h.password
    BY <1>2, <2>1 DEF Store!Secrets
  <2> HIDE DEF h
  <2>3. Store!Enough(u, g) /\ Store!Enough(v, h)
    BY <1>2, <2>2 DEF Store!Enough
  <2>4. a \in Items /\ b \in Items
    BY <2>1, <2>2, <2>3 DEF Items
  <2> HIDE DEF a, b
  <2>5. <<a, b>> \in Seq(Items) /\ Len(<<a, b>>) = 2
    BY <2>4
  <2>6. <<a, b>> \in Bundles
    BY <2>5 DEF Bundles
  <2> QED
    BY <2>6 DEF a, b, h
<1>3. ASSUME NEW b \in Store!Received PROVE b \in Bundles
  BY <1>2 DEF Store!Received
<1> QED
  BY <1>1, <1>3

LEMMA StoreInit == Store!Init => StoreInv
<1> SUFFICES ASSUME Store!Init PROVE StoreInv
  OBVIOUS
<1>1. PICK v \in Store!Profiles, g \in Given :
        /\ Store!Enough(v, g)
        /\ file = [i \in Store!Ids |-> IF i = 1 THEN v ELSE None]
        /\ vault = [i \in Store!Ids |-> IF i = 1 THEN g ELSE Store!NoSecrets]
  BY DEF Store!Init
<1>2. /\ trust = {1} /\ last = 1 /\ keyFiles = {} /\ bundle \in {<<>>} \cup Store!Received
      /\ imports = [i \in Store!Ids |-> "none"]
      /\ call = [c \in Callers |-> Store!Resting] /\ impaired = {}
  BY DEF Store!Init
<1>3. 1 \in Store!Ids
  BY StoresAssumption DEF Store!StoreAssumption, Store!Ids
<1>4. Store!NoSecrets \in Store!Secrets /\ g \in Store!Secrets
  BY GivenTyped DEF Store!NoSecrets, Store!Secrets
<1>5. \A c \in Callers : call[c].op = "none" /\ call[c] \in StoreLocals /\ CallShaped(call[c])
  BY <1>2, RestingShaped
<1>6. StoreTyped
  <2>1. Store!TypeOK
    BY <1>1, <1>2, <1>3, <1>4 DEF Store!TypeOK
  <2>2. call \in [Callers -> StoreLocals]
    BY <1>2, RestingShaped
  <2> QED
    BY <1>2, <1>5, <2>1, <2>2, ReceivedTyped DEF StoreTyped
<1>7. ASSUME NEW i \in Store!Ids, i > last PROVE Untouched(i)
  <2>1. i # 1
    BY <1>2, <1>7
  <2> QED
    BY <1>1, <1>2, <1>5, <2>1 DEF Untouched
<1>8. ASSUME NEW i \in Store!Ids PROVE Safe(i)
  <2>1. InPhase(i) /\ OneWriter(i)
    BY <1>5 DEF InPhase, OneWriter, Writing
  <2>2. Secured(i)
    BY <1>1 DEF Secured
  <2>3. Settled(i)
    BY <1>2 DEF Settled
  <2> QED
    BY <2>1, <2>2, <2>3 DEF Safe
<1> QED
  BY <1>6, <1>7, <1>8 DEF StoreInv, Safe

LEMMA StoreStutters ==
  ASSUME StoreInv, UNCHANGED storeVars
  PROVE  StoreInv'
<1>1. StoreTyped'
  BY DEF StoreInv, StoreTyped, Store!TypeOK, storeVars
<1>2. ASSUME NEW i \in Store!Ids, i > last' PROVE Untouched(i)'
  BY <1>2 DEF StoreInv, Untouched, storeVars
<1>3. ASSUME NEW i \in Store!Ids \ impaired' PROVE Safe(i)'
  <2>1. Safe(i)
    BY <1>3 DEF StoreInv, Safe, storeVars
  <2>2. InPhase(i)' /\ OneWriter(i)'
    BY <2>1 DEF Safe, InPhase, OneWriter, storeVars
  <2>3. Secured(i)' /\ Settled(i)'
    BY <2>1 DEF Safe, Secured, Store!Editing, Settled, storeVars
  <2> QED
    BY <2>2, <2>3 DEF Safe
<1> QED
  BY <1>1, <1>2, <1>3 DEF StoreInv, Safe

LEMMA StoreStep ==
  ASSUME StoreInv, Store!Next
  PROVE  StoreInv'
<1>1. ASSUME NEW c \in Callers, Store!Saves(c)
      PROVE  StoreInv'
  <2>1. ASSUME NEW i \in Store!Ids, NEW v \in Store!Profiles, NEW g \in Given,
               Store!BeginEdit(c, i, v, g) \/ Store!BeginCopy(c, i, v, g)
        PROVE  StoreInv'
    BY <2>1, BeginEditKeeps, BeginSaveKeeps
  <2>2. ASSUME NEW v \in Store!Profiles, NEW g \in Given, Store!BeginNew(c, v, g)
        PROVE  StoreInv'
    <3>1. 1 \in Store!Ids
      BY StoresAssumption DEF Store!StoreAssumption, Store!Ids
    <3> QED
      BY <2>2, <3>1, BeginSaveKeeps
  <2> QED
    BY <1>1, <2>1, <2>2, LoadForSaveKeeps, CheckKeeps DEF Store!Saves
<1>2. ASSUME NEW c \in Callers, Store!Bundles(c)
      PROVE  StoreInv'
  BY <1>2, BeginExportKeeps, CollectKeeps, BeginImportKeeps, PlanKeeps, RollbackKeeps,
     RollbackFaultKeeps, RolledBackKeeps DEF Store!Bundles
<1> QED
  BY <1>1, <1>2, RemovesKeep, WriteNextKeeps, FinishKeeps, WriteFailsKeeps, QuitKeeps
     DEF Store!Next

LEMMA StoreInvariant == Spec => []StorePart
<1>1. Init => StorePart
  BY StoreInit DEF Init, StorePart
<1>2. StorePart /\ [Next]_vars => StorePart'
  <2> SUFFICES ASSUME StorePart, [Next]_vars, part' = "store" PROVE StoreInv'
    BY DEF StorePart
  <2>1. part = "store" /\ StoreInv
    BY DEF StorePart, Next, vars
  <2>2. CASE Store!Next
    BY <2>1, <2>2, StoreStep
  <2>3. CASE UNCHANGED storeVars
    BY <2>1, <2>3, StoreStutters
  <2> QED
    BY <2>1, <2>2, <2>3 DEF Next, vars
<1> QED
  BY <1>1, <1>2, PTL DEF Spec

\* A stored profile has the secrets it needs at every moment, while other calls save,
\* copy, import, roll back, fail or are broken off by the end of the program: SaveProfile
\* writes the secrets before the profile (service.go:220 and 243), an import too, and its
\* rollback takes the profile away first (connection_bundle.go:306).
THEOREM SecretsAreInPlace == Spec => []CredentialsInPlace
<1>1. StorePart => CredentialsInPlace
  BY DEF StorePart, StoreInv, Secured, CredentialsInPlace, Store!CredentialsInPlace
<1> QED
  BY <1>1, StoreInvariant, PTL

\* An import that says it is done has stored every connection of its bundle, and one that
\* was rolled back has left nothing: no profile, no secret, no trusted key and no key file,
\* whichever write failed (ImportConnectionBundle, connection_bundle.go:305).
THEOREM ImportsAreWhole == Spec => []ImportAllOrNothing
<1>1. StorePart => ImportAllOrNothing
  BY DEF StorePart, StoreInv, Settled, ImportAllOrNothing, Store!ImportAllOrNothing
<1> QED
  BY <1>1, StoreInvariant, PTL

\* Every variable of both modules keeps its type: the stores never hold half a record
\* (JSONRepository.write renames a finished file, json_repository.go:150).
THEOREM StoresTyped == Spec => []TypeOK
<1>1. TrustPart /\ StorePart => TypeOK
  BY DEF TrustPart, TrustInv, TypeInv, StorePart, StoreInv, StoreTyped, TypeOK
<1> QED
  BY <1>1, TrustInvariant, StoreInvariant, PTL
=============================================================================
