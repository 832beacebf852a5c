----------------------------- MODULE Completion -----------------------------
(***************************************************************************)
(* What Tab offers for a half-typed path (internal/command/complete.go):   *)
(* the directory part that is settled is resolved from where the prompt    *)
(* stands, what is there is listed, and each name is put back behind the   *)
(* directory as it was typed.                                              *)
(*                                                                         *)
(* The beginning of a name under the cursor is left out: it only thins out *)
(* what is offered, and the separators that come before the names.         *)
(***************************************************************************)
EXTENDS Browse

CONSTANTS
  Escape,    \* for the names that need it, their escaped segment
  Suffixed,  \* for the segments that end in a separator's name, what precedes
             \* it, and the separator
  Designed,  \* for the names that begin with "_design/", what follows that
  Dirs       \* the directory parts of what is typed

Encode(name) == IF name \in DOMAIN Escape THEN Escape[name] ELSE name

(* The words of a path, and the names that a segment can stand for. *)
Words   == {"_design", "_partition"} \cup DOMAIN IndexKind
Written == {Decode(seg) : seg \in Segments \ Malformed}

(* The ids there are, or may come to be. *)
IdsKnown == Restored \cup UNION {UNION {Servers[h][d] : d \in DOMAIN Servers[h]} : h \in Hosts}

(* Escaping is undone by unescaping, and the empty name and the words of a path
   hold nothing to escape. *)
ASSUME EscapeAssumption ==
  /\ \A n \in Written : Encode(n) \in Segments \ Malformed /\ Decode(Encode(n)) = n
  /\ (Words \cup {NoName}) \cap DOMAIN Escape = {}
  /\ Words \subseteq Segments \ (DOMAIN Unescaped \cup Malformed)

(* A name is cut at its first colon, and the id of a document is of the form that
   its name gives it: one that begins with "_design/" is a design document's.  No
   database and no partition is called "_design/". *)
ASSUME NamesAssumption ==
  /\ "_design/" \notin Written
  /\ \A n \in DOMAIN Keyed : n \in Written /\ Keyed[n][1] \notin {NoPart, "_design/"}
  /\ \A id \in IdsKnown :
       /\ id = <<id[1], id[2]>> /\ id[2] \in Written \cup {NoName}
       /\ id[1] = NoPart => id[2] \notin DOMAIN Keyed
       /\ id[1] \notin {NoPart, "_design/"} => \E n \in DOMAIN Keyed : Keyed[n] = id
       /\ id[1] # "_design/" => NameOf(id) \notin DOMAIN Designed
       /\ \A m \in Members[id] : m[2] \in Written \cup {NoName}
  /\ Users \in Written /\ \A h \in Hosts : DOMAIN Servers[h] \subseteq Written
  /\ Dirs \subseteq [abs : BOOLEAN, segs : Seq(Segments)]

(* The text of the name is looked at, whatever the id is that it was cut from: a
   design document is named by what follows "_design/". *)
EncodeDocID(id, name) ==
  IF id[1] = "_design/" THEN <<"_design", Encode(name)>>
  ELSE IF name \in DOMAIN Designed THEN <<"_design", Encode(Designed[name])>>
  ELSE <<Encode(name)>>

Behind(dir, segs) == [dir EXCEPT !.segs = @ \o segs]

(* A design document, in a partition too, where it is only the beginning of the
   path of an index. *)
ResolveDesignDoc(dir) ==
  LET t == Resolve(cwd, dir)
      probe == Resolve(cwd, Behind(dir, <<"_view", "x">>))
  IN  IF t.kind = "none" /\ probe.kind = "view" THEN [probe EXCEPT !.kind = "designdoc"]
      ELSE IF t.kind = "designdoc" THEN t ELSE [t EXCEPT !.kind = "none"]

(* A candidate: the line it makes, and what it stands for. *)
Candidate(input, db, what) == [input |-> input, db |-> db, what |-> what]

Databases(dir) ==
  {Candidate(Behind(dir, <<Encode(d)>>), d, Place("database", NoID, NoName)) :
     d \in IF names = NotLoaded THEN DOMAIN dbs[host] ELSE names}

(* The name of a document as the line is to carry it. *)
ShortAlways(t, id) == TrimPartition(id[1], id)                    \* mutant
Short(t, id) == IF t.part = NoPart THEN NameOf(id) ELSE TrimPartition(t.part, id)

Documents(dir, t) ==
  {Candidate(Behind(dir, EncodeDocID(id, Short(t, id))), t.db,
             Place(IF id[1] = "_design/" THEN "designdoc" ELSE "document", id, NoName)) :
     id \in {i \in Docs(t.db) : t.part = NoPart \/ i[1] = t.part}}

MembersOf(dir, t, kind) ==
  IF t.kind # "designdoc" \/ t.id \notin Docs(t.db) THEN {}
  ELSE {Candidate(Behind(dir, <<Encode(m[2])>>), t.db, Place(kind, t.id, m[2])) :
          m \in {m \in Members[t.id] : m[1] = kind}}

(* The separator is cut off the text of a path: a longer segment may end in one
   too.  Under a design document that is typed out, the views are offered when no
   separator begins with what was typed. *)
EndsIn(dir, segs) == dir.segs # <<>> /\ Last(dir.segs) \in segs
Cut(dir, stem)    == [dir EXCEPT !.segs = Front(@) \o stem]

CompletePath(dir) ==
  IF EndsIn(dir, DOMAIN IndexKind)
    THEN MembersOf(dir, ResolveDesignDoc(Cut(dir, <<>>)), IndexKind[Last(dir.segs)])
  ELSE IF EndsIn(dir, DOMAIN Suffixed)
    THEN LET s == Suffixed[Last(dir.segs)]
         IN  MembersOf(dir, ResolveDesignDoc(Cut(dir, <<s[1]>>)), IndexKind[s[2]])
    ELSE LET r == Resolve(cwd, dir)
             t == IF r.kind = "none" THEN ResolveDesignDoc(dir) ELSE r
         IN  CASE t.kind = "server"                    -> Databases(dir)
               [] t.kind \in {"database", "partition"} -> Documents(dir, t)
               [] OTHER                                -> MembersOf(dir, t, "view")

-----------------------------------------------------------------------------

LeadsTo(c) ==
  LET t == Resolve(cwd, c.input)
  IN  t.db = c.db /\ Place(t.kind, t.id, t.name) = c.what

(* Six lines the code completes to something else, and the README tells of:
   behind a single ".." out of a partition, which becomes a sibling of it; behind
   a segment that ends in a separator; a view offered where its separator is still
   missing; an id that holds its partition's key twice; an id that goes on with
   "_design/" after its partition's key, taken for a design document in there; and
   a name that a path reads as one of its own words, which escaping leaves as it is. *)
StepsOut(dir) ==
  LET w == Walked(cwd, dir) IN w.pops = 1 /\ CollapseSeparator(w.segs) # w.segs
Bare(dir, c) == c.what.kind = "view" /\ ~EndsIn(dir, {"_view"})
Twice(id) == id[2] \in DOMAIN Keyed /\ Keyed[id[2]][1] = id[1]
Disguised(dir, id) ==
  Resolve(cwd, dir).kind = "partition" /\ id[2] \in DOMAIN Designed
Reserved(c) ==
  \/ Last(c.input.segs) \in {NoName, ".", ".."}
  \/ c.what.kind = "document" /\ Last(c.input.segs) \in {"_design", "_partition"}

(* What Tab offers is what the completed line then names: the document that was
   listed, inside or outside a partition, escaped or not, and from wherever the
   prompt stands (CompletePath). *)
CandidatesLead ==
  \A dir \in Dirs : \A c \in CompletePath(dir) :
    \/ LeadsTo(c)
    \/ StepsOut(dir) \/ EndsIn(dir, DOMAIN Suffixed)
    \/ Bare(dir, c) \/ Twice(c.what.id) \/ Disguised(dir, c.what.id) \/ Reserved(c)
=============================================================================
