---------------------------- MODULE SoftEtherPack ----------------------------
(***************************************************************************)
(* The PACK of internal/softether/pack.go, the form of the hello, login    *)
(* and enumeration messages: elements are added, the pack is written, the  *)
(* receiver reads it.  A number is one cell (int64: two), a character or   *)
(* a byte is one cell, 0 is NUL; the pack on its way may be cut short or   *)
(* be followed by something else.                                          *)
(***************************************************************************)
EXTENDS Naturals, Sequences, SequencesExt

CONSTANTS Elements,             \* what may be added: name, kind, values
          Fold(_),              \* the letters of a name without their case
          MaxElements, MaxValues, MaxSize, NameSize,   \* maxPackElements ... and 64
          MaxCalls,             \* calls of addElement
          None, Refused         \* not there yet; an error

Kinds == {"int", "int64", "data", "string", "unicode"}
NumberOfCells(kind) == IF kind = "int" THEN 1 ELSE 2

\* An element of the Go types: packInt holds an uint32, packInt64 an uint64.
PackAssumption ==
  /\ MaxCalls \in Nat /\ MaxSize \in Nat /\ NameSize \in Nat /\ Refused # None
  /\ \A e \in Elements :
       /\ e \in [name : Seq(Nat), kind : Kinds, values : Seq(Seq(Nat))]
       /\ e.kind \in {"int", "int64"} =>
            \A i \in DOMAIN e.values : Len(e.values[i]) = NumberOfCells(e.kind)

VARIABLES added,     \* the elements of all calls of addElement
          pack,      \* the elements of the pack
          wire,      \* the cells of the pack, or Refused
          received,  \* what unmarshalPack returned, or None
          whole      \* the receiver got exactly what was written
vars == <<added, pack, wire, received, whole>>

Init == added = <<>> /\ pack = <<>> /\ wire = None /\ received = None /\ whole = TRUE

-----------------------------------------------------------------------------
(* Writing                                                                 *)

Sized(cells) == <<Len(cells)>> \o cells

writePackString(name) == <<Len(name) + 1>> \o name

writePackValue(kind, value) ==
  IF kind \in {"int", "int64"} THEN value
  ELSE IF kind = "unicode" THEN Sized(Append(value, 0))
  ELSE Sized(value)

Written(element) ==
  writePackString(element.name) \o <<element.kind, Len(element.values)>>
    \o FlattenSeq([i \in DOMAIN element.values |-> writePackValue(element.kind, element.values[i])])

Writable(element) ==
  /\ Len(element.name) \in 1..(NameSize - 1)
  /\ Len(element.values) \in 1..MaxValues
  /\ element.kind \in {"int", "int64"}
     \/ \A i \in DOMAIN element.values :
          Len(element.values[i]) + (IF element.kind = "unicode" THEN 1 ELSE 0) <= MaxSize

marshal(elements) ==
  IF Len(elements) > MaxElements \/ \E i \in DOMAIN elements : ~Writable(elements[i])
  THEN Refused
  ELSE <<Len(elements)>> \o FlattenSeq([i \in DOMAIN elements |-> Written(elements[i])])

-----------------------------------------------------------------------------
(* Reading.  A read returns what it read and the cells that are left.      *)

Got(value, rest) == [ok |-> TRUE, value |-> value, rest |-> rest]
Failed == [ok |-> FALSE, value |-> Refused, rest |-> <<>>]

\* io.ReadFull of n cells.
Take(n, cells) ==
  IF Len(cells) < n THEN Failed
  ELSE Got(SubSeq(cells, 1, n), SubSeq(cells, n + 1, Len(cells)))

\* A size of at most `limit`, less `extra`, and as many cells.
TakeSized(cells, extra, limit) ==
  IF cells = <<>> \/ Head(cells) \notin extra..limit THEN Failed
  ELSE Take(Head(cells) - extra, Tail(cells))

readPackString(cells) == TakeSized(cells, 1, NameSize)

\* strings.TrimSuffix: one NUL at the end of a text.
Trimmed(text) == IF text # <<>> /\ Last(text) = 0 THEN Front(text) ELSE text

readPackValue(kind, cells) ==
  IF kind \in {"int", "int64"} THEN Take(NumberOfCells(kind), cells)
  ELSE LET read == TakeSized(cells, 0, MaxSize)
       IN  IF kind = "data" \/ ~read.ok THEN read
           ELSE Got(Trimmed(read.value), read.rest)

\* Things read one after the other, until one cannot be.
ReadMany(n, cells, Reads(_)) ==
  LET reading[k \in 0..n] ==
        IF k = 0 THEN Got(<<>>, cells)
        ELSE LET got == reading[k - 1]
                 read == Reads(got.rest)
             IN  IF got.ok /\ read.ok THEN Got(Append(got.value, read.value), read.rest)
                 ELSE Failed
  IN  reading[n]

readValues(n, kind, cells) == ReadMany(n, cells, LAMBDA rest : readPackValue(kind, rest))

readElement(cells) ==
  LET name == readPackString(cells)
  IN  IF ~name.ok \/ Len(name.rest) < 2 THEN Failed
      ELSE IF name.rest[2] \notin 1..MaxValues THEN Failed
      ELSE LET values == readValues(name.rest[2], name.rest[1], Tail(Tail(name.rest)))
           IN  IF ~values.ok THEN Failed
               ELSE Got([name |-> name.value, kind |-> name.rest[1], values |-> values.value],
                        values.rest)

readElements(n, cells) == ReadMany(n, cells, readElement)

\* A bug: what follows the last element is not looked at.
unmarshalPackLoosely(cells) ==
  IF cells = <<>> \/ Head(cells) > MaxElements THEN Refused
  ELSE readElements(Head(cells), Tail(cells)).value

unmarshalPack(cells) ==
  IF cells = <<>> \/ Head(cells) > MaxElements THEN Refused
  ELSE LET read == readElements(Head(cells), Tail(cells))
       IN  IF read.rest = <<>> THEN read.value ELSE Refused

-----------------------------------------------------------------------------
\* addElement: the first of two elements whose names differ in case only stays.
addElement(element) ==
  /\ wire = None /\ Len(added) < MaxCalls
  /\ added' = Append(added, element)
  /\ pack' = IF \E i \in DOMAIN pack : Fold(pack[i].name) = Fold(element.name)
             THEN pack ELSE Append(pack, element)
  /\ UNCHANGED <<wire, received, whole>>

Write ==
  /\ wire = None
  /\ wire' = marshal(pack)
  /\ UNCHANGED <<added, pack, received, whole>>

\* The response has the length its header says; what it holds need not be a pack.
Read ==
  /\ wire \notin {None, Refused} /\ received = None
  /\ \/ received' = unmarshalPack(wire) /\ UNCHANGED whole
     \/ /\ \E n \in 0..(Len(wire) - 1) : received' = unmarshalPack(SubSeq(wire, 1, n))
        /\ whole' = FALSE
     \/ received' = unmarshalPack(Append(wire, 0)) /\ whole' = FALSE
  /\ UNCHANGED <<added, pack, wire>>

Next == (\E element \in Elements : addElement(element)) \/ Write \/ Read

TypeOK ==
  /\ added \in Seq(Elements) /\ Len(added) <= MaxCalls
  /\ pack \in Seq(Elements) /\ whole \in BOOLEAN
  /\ wire = None => received = None

-----------------------------------------------------------------------------
\* A text without the NUL at its end; every other value as it is.
AsRead(element) ==
  IF element.kind # "string" THEN element
  ELSE [element EXCEPT !.values = [i \in DOMAIN @ |-> Trimmed(@[i])]]

\* element and the getters: the values under a name, if they are of that kind.
Values(elements, name, kind) ==
  LET found == {i \in DOMAIN elements :
                  elements[i].kind = kind /\ Fold(elements[i].name) = Fold(name)}
  IN  IF found = {} THEN <<>> ELSE elements[Min(found)].values

\* What the receiver finds under a name is what the first call for that name,
\* in whatever case, put there, and a pack that is cut short or runs on is
\* refused (pack.go:69, 127, 155).
PackSurvives ==
  received # None =>
    IF ~whole THEN received = Refused
    ELSE \A name \in {e.name : e \in Elements}, kind \in {e.kind : e \in Elements} :
           LET calls == {i \in DOMAIN added : Fold(added[i].name) = Fold(name)}
               first == added[Min(calls)]
           IN  Values(received, name, kind)
                 = IF calls = {} \/ first.kind # kind THEN <<>> ELSE AsRead(first).values
=============================================================================
