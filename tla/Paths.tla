------------------------------- MODULE Paths -------------------------------
(***************************************************************************)
(* The paths over a server's databases (internal/path/path.go): what a     *)
(* typed path comes to from where the prompt stands, and what it names.    *)
(*                                                                         *)
(* A path is the sequence of its segments as typed, escapes included; an   *)
(* input is such a sequence that starts at the root or where the prompt    *)
(* stands.  The id of a document is a pair: what precedes its first colon  *)
(* ("" if it has none, "_design/" for a design document) and the rest.     *)
(***************************************************************************)
EXTENDS Naturals, Sequences, SequencesExt

CONSTANTS
  Segments,   \* what a segment may be
  Unescaped,  \* for the segments that hold an escape, the name they stand for
  Malformed,  \* the segments with an escape that is none
  Keyed       \* for the names "<key>:<rest>", the two parts

NoPart == ""

(* No segment is empty, nor does one stand for the empty name. *)
ASSUME PathsAssumption ==
  /\ NoPart \notin Segments /\ {"..", "x"} \subseteq Segments
  /\ \A seg \in DOMAIN Unescaped : Unescaped[seg] \in Segments

Decode(seg) == IF seg \in DOMAIN Unescaped THEN Unescaped[seg] ELSE seg

(* A "_partition" that stepping up left bare. *)
CollapseSeparator(segs) ==
  IF Len(segs) = 2 /\ segs[2] = "_partition" THEN <<segs[1]>> ELSE segs
CollapseIf(owed, segs) == IF owed THEN CollapseSeparator(segs) ELSE segs

Up(segs) == IF segs = <<>> THEN <<>> ELSE Front(segs)

SettlesAlways(pops) == pops > 0                                   \* mutant
Settles(pops) == pops > 1

(* One segment of the input: where the walk is and the ".." it has just made. *)
Step(w, seg) ==
  CASE seg = "."  -> w
    [] seg = ".." -> [segs |-> Up(CollapseIf(w.pops > 0, w.segs)), pops |-> w.pops + 1]
    [] OTHER      -> [segs |-> Append(CollapseIf(Settles(w.pops), w.segs), seg), pops |-> 0]

Walked(base, input) ==
  LET w[i \in 0..Len(input.segs)] ==
        IF i = 0 THEN [segs |-> IF input.abs THEN <<>> ELSE base, pops |-> 0]
        ELSE Step(w[i - 1], input.segs[i])
  IN  w[Len(input.segs)]

Clean(base, input) ==
  LET w == Walked(base, input) IN CollapseIf(w.pops > 0, w.segs)

-----------------------------------------------------------------------------

PartitionDocID(key, name) ==
  IF name \in DOMAIN Keyed /\ Keyed[name][1] = key THEN Keyed[name] ELSE <<key, name>>

DocID(part, name) ==
  IF part # NoPart THEN PartitionDocID(part, name)
  ELSE IF name \in DOMAIN Keyed THEN Keyed[name] ELSE <<"", name>>

(* The name an id goes by inside a partition: its rest, if the key is its own. *)
NameOf(id) ==
  IF \E n \in DOMAIN Keyed : Keyed[n] = id
    THEN CHOOSE n \in DOMAIN Keyed : Keyed[n] = id ELSE id[2]
TrimPartition(key, id) == IF id[1] = key THEN id[2] ELSE NameOf(id)

IndexKind == [s \in {"_view", "_search", "_nouveau"} |->
               CASE s = "_view"   -> "view"
                 [] s = "_search" -> "clouseau"
                 [] OTHER         -> "nouveau"]

NoName == ""
NoID   == <<"", "">>
Place(kind, id, name) == [kind |-> kind, id |-> id, name |-> name]
Unresolved == Place("none", NoID, NoName)

(* What the segments after a database, or after a partition of it, name. *)
InDesign(part, rest) ==
  LET id == <<"_design/", rest[2]>> IN
  CASE Len(rest) = 2 /\ part = NoPart                 -> Place("designdoc", id, NoName)
    [] Len(rest) = 3 /\ part = NoPart /\ rest[3] \notin DOMAIN IndexKind
                                                      -> Place("attachment", id, rest[3])
    [] Len(rest) = 4 /\ rest[3] \in DOMAIN IndexKind  -> Place(IndexKind[rest[3]], id, rest[4])
    [] OTHER                                          -> Unresolved

Inside(part, rest) ==
  IF rest = <<>> THEN Place(IF part = NoPart THEN "database" ELSE "partition", NoID, NoName)
  ELSE IF rest[1] = "_design"
    THEN IF Len(rest) = 1 THEN Unresolved ELSE InDesign(part, rest)
    ELSE LET id == DocID(part, rest[1]) IN
         CASE Len(rest) = 1 -> Place("document", id, NoName)
           [] Len(rest) = 2 -> Place("attachment", id, rest[2])
           [] OTHER         -> Unresolved

(* A target: what is named, by which canonical path, in which database and
   partition.  Its kind is "none" where the code returns an error. *)
Resolve(base, input) ==
  LET path == Clean(base, input)
      dec  == [i \in DOMAIN path |-> Decode(path[i])]
      target(part, what) ==
        [kind |-> what.kind, id |-> what.id, name |-> what.name, path |-> path,
         part |-> part, db |-> IF path = <<>> THEN NoName ELSE dec[1]]
  IN  IF ToSet(path) \cap Malformed # {} THEN target(NoPart, Unresolved)
      ELSE IF path = <<>> THEN target(NoPart, Place("server", NoID, NoName))
      ELSE IF Len(path) = 1 \/ dec[2] # "_partition" THEN target(NoPart, Inside(NoPart, Tail(dec)))
      ELSE IF Len(path) = 2 THEN target(NoPart, Unresolved)
      ELSE target(dec[3], Inside(dec[3], SubSeq(dec, 4, Len(dec))))

At(segs) == [abs |-> TRUE, segs |-> segs]
From(segs) == [abs |-> FALSE, segs |-> segs]
Here == From(<<>>)
=============================================================================
