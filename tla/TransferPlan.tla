----------------------------- MODULE TransferPlan -----------------------------
(***************************************************************************)
(* The plan of an upload or a download: buildUploadPlan, preflightUpload   *)
(* (internal/sshclient/upload.go), buildDownloadPlan, preflightDownload    *)
(* (download.go).  What the user selected is scanned item by item, an item *)
(* that cannot be transferred refuses the whole plan, and what is at the   *)
(* destination is looked at before the first byte is sent.                 *)
(*                                                                         *)
(* A path is a folder and a name.  The remote disk tells names apart that  *)
(* differ in case; the local one, as on Windows, does not.                 *)
(***************************************************************************)
EXTENDS Naturals, Sequences, FiniteSets

CONSTANTS Folders, Names,   \* what can be selected lies in a folder under a name
          Lower(_),         \* a name in lower case
          Valid,            \* the names that validLocalComponent accepts
          MaxSelected

VARIABLES direction, overwrite,
          disk,       \* what is at each path of the side that is read
          selection,  \* the paths the user has selected
          next,       \* the one whose turn it is
          scanned,    \* keys of the selected paths so far (seenLocal, seenRemote)
          plan,       \* the entries: source and relative path
          existing,   \* what is at each relative path of the other side
          verdict     \* scanning, checking, refused, ready
vars == <<direction, overwrite, disk, selection, next, scanned, plan, existing, verdict>>

Paths == Folders \X Names
\* Nothing, a file, a link, an empty folder, one with a file, with a link, with
\* two files whose names differ in case.
Kinds == {"none", "file", "link", "empty", "tree", "linked", "twins"}
Content == [empty |-> {}, tree |-> {"a"}, linked |-> {"a"}, twins |-> {"a", "A"}]
IsFolder(kind) == kind \in DOMAIN Content

Fold(names) == [i \in DOMAIN names |-> Lower(names[i])]
\* The local disk: names that differ in case name the same thing.
SameLocal(p, q) == p[1] = q[1] /\ Lower(p[2]) = Lower(q[2])

Init ==
  /\ direction = "none" /\ overwrite = FALSE
  /\ disk = [p \in Paths |-> "none"] /\ selection = <<>> /\ next = 1
  /\ scanned = {} /\ plan = {} /\ existing = {} /\ verdict = "scanning"

\* What the side that is read may hold; what was not selected does not matter.
Disks(side, selected) ==
  {d \in [Paths -> Kinds] :
     /\ \A p \in Paths \ selected : d[p] = "none"
     /\ side = "upload" =>
          /\ \A p \in selected : d[p] # "twins"
          /\ \A p, q \in selected : p # q /\ SameLocal(p, q) => "none" \in {d[p], d[q]}}

Request ==
  /\ direction = "none"
  /\ direction' \in {"upload", "download"} /\ overwrite' \in BOOLEAN
  /\ selection' \in UNION {[1 .. n -> Paths] : n \in 1 .. MaxSelected}
  /\ disk' \in Disks(direction', {selection'[i] : i \in DOMAIN selection'})
  /\ UNCHANGED <<next, scanned, plan, existing, verdict>>

-----------------------------------------------------------------------------
(* Scanning                                                                *)

\* What os.Lstat or the server finds at a path.
Kind(p) ==
  IF direction = "download" THEN disk[p]
  ELSE LET there == {q \in Paths : SameLocal(p, q) /\ disk[q] # "none"}
       IN  IF there = {} THEN "none" ELSE disk[CHOOSE q \in there : TRUE]

Entry(p, rest, folder) == [source |-> p, path |-> <<p[2]>> \o rest, folder |-> folder]
Entries(p) ==
  IF ~IsFolder(Kind(p)) THEN {Entry(p, <<>>, FALSE)}
  ELSE {Entry(p, <<>>, TRUE)} \cup {Entry(p, <<name>>, FALSE) : name \in Content[Kind(p)]}

\* The item is not there, is or holds a link or a special file, or has a name
\* that Windows does not accept.
Unsupported(p) ==
  \/ Kind(p) \in {"none", "link", "linked"}
  \/ direction = "download" /\ p[2] \notin Valid

\* The key under which an item is known to be in the plan already.
SourceKey(p) == IF direction = "upload" THEN <<p[1], Lower(p[2])>> ELSE p

\* A bug: the keys of the destinations are compared as they are written.
DestinationAsWritten(entry) == entry.path

\* The key of a destination: the remote side has exact names, the local not.
Destination(entry) == IF direction = "upload" THEN entry.path ELSE Fold(entry.path)

\* addUploadEntry, addDownloadEntry for all entries of an item.
Conflicting(new) ==
  \/ \E e \in new, f \in plan : Destination(e) = Destination(f)
  \/ \E e, f \in new : e # f /\ Destination(e) = Destination(f)

Scan ==
  LET p == selection[next] IN
  /\ direction # "none" /\ verdict = "scanning" /\ next <= Len(selection)
  /\ next' = next + 1
  /\ scanned' = scanned \cup {SourceKey(p)}
  /\ IF SourceKey(p) \in scanned THEN UNCHANGED <<plan, verdict>>
     ELSE IF Unsupported(p) \/ Conflicting(Entries(p))
          THEN verdict' = "refused" /\ UNCHANGED plan
          ELSE plan' = plan \cup Entries(p) /\ UNCHANGED verdict
  /\ UNCHANGED <<direction, overwrite, disk, selection, existing>>

-----------------------------------------------------------------------------
\* preflightUpload, preflightDownload: a file where a folder must be, a folder
\* where a file must be, or a file that may not be overwritten.
Conflict(e, folder) == IF e.folder THEN ~folder ELSE folder \/ ~overwrite

\* The other side may hold a file or a folder where an entry goes.
Preflight ==
  /\ direction # "none" /\ verdict = "scanning" /\ next > Len(selection)
  /\ existing' \in {{}} \cup {{<<e, folder>>} : e \in plan, folder \in BOOLEAN}
  /\ verdict' = IF \E x \in existing' : Conflict(x[1], x[2]) THEN "refused" ELSE "ready"
  /\ UNCHANGED <<direction, overwrite, disk, selection, next, scanned, plan>>

Next == Request \/ Scan \/ Preflight

Spec == Init /\ [][Next]_vars

TypeOK ==
  /\ direction \in {"none", "upload", "download"} /\ overwrite \in BOOLEAN
  /\ disk \in [Paths -> Kinds] /\ selection \in Seq(Paths) /\ next \in 1 .. Len(selection) + 1
  /\ verdict \in {"scanning", "refused", "ready"}
  /\ \A e \in plan : e.source \in Paths /\ e.folder \in BOOLEAN

-----------------------------------------------------------------------------
\* The files below a path of the side that is read, one name for each.
FilesAt(p) ==
  IF Kind(p) = "file" THEN {<<>>} ELSE {<<name>> : name \in Content[Kind(p)]}
SameSource(p, q) == IF direction = "upload" THEN SameLocal(p, q) ELSE p = q

\* A plan that is carried out is whole: every file of every selected item is in
\* it once, however often and in whatever spelling the item was selected, no two
\* entries fall together on the other side, nothing is in it that was not
\* selected, and nothing that is there is replaced unless the user allowed it
\* (user manual, lines 123 and 127; upload.go:544, download.go:541).
PlanIsWhole ==
  verdict = "ready" =>
    /\ \A i \in DOMAIN selection : \A rest \in FilesAt(selection[i]) :
         Cardinality({e \in plan : /\ SameSource(e.source, selection[i])
                                  /\ Tail(e.path) = rest /\ ~e.folder}) = 1
    /\ \A e, f \in plan : e # f =>
         IF direction = "upload" THEN e.path # f.path ELSE Fold(e.path) # Fold(f.path)
    /\ \A e \in plan : \E i \in DOMAIN selection : e.source = selection[i]
    /\ \A x \in existing : (x[1].folder <=> x[2]) /\ (overwrite \/ x[2])
=============================================================================
