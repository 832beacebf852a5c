---------------------------- MODULE RestoreDump -----------------------------
(***************************************************************************)
(* `cdb restore`: the records of a dump are read in order, gathered into   *)
(* batches bounded in documents and in bytes, and written to a database    *)
(* with _bulk_docs?new_edits=false, which keeps their revisions.  An       *)
(* attachment small enough travels inside its document; any other is       *)
(* uploaded after the batch, which costs the document its revision         *)
(* (internal/command/restore.go).                                          *)
(*                                                                         *)
(* A revision is the path of edits that led to it, so its ancestors are    *)
(* its prefixes.  Documents and attachments being handled are known by     *)
(* their positions among the records of the dump.                          *)
(***************************************************************************)
EXTENDS Naturals, Sequences, FiniteSets, SequencesExt

(* Where the documents and the attachments are among some records, which records
   after one of them are its attachments, as how far they are from it, and
   whether two records are of one revision of one document. *)
DocsIn(recs) == {i \in 1..Len(recs) : recs[i].kind = "doc"}
AttsIn(recs) == {i \in 1..Len(recs) : recs[i].kind = "att"}

AttsAfter(recs, i) ==
  {k \in 1..(Len(recs) - i) : \A m \in 1..k : recs[i + m].kind = "att"}

SameRevision(r, s) == r.id = s.id /\ r.rev = s.rev

CONSTANTS
  Dumps,        \* the dumps tried, as [recs, complete, footer]
  Targets,      \* the databases restored into, as [exists, revs, dead, stored]
  Batches,      \* the values of --batch tried
  InlineLimit,  \* the largest attachment that is inlined (4 MiB)
  BatchBytes,   \* the bytes a batch may hold (16 MiB)
  MaxRuns,      \* bound: invocations of the command
  MaxEdits      \* bound: writes of other clients to the target

ASSUME RestoreAssumption ==
  /\ Batches \subseteq Nat \ {0}
  /\ InlineLimit \in Nat /\ BatchBytes \in Nat
  /\ MaxRuns \in Nat /\ MaxEdits \in Nat

(* What `cdb backup` writes.  The elements of a revision stand for what was
   written at each edit; 0 and the names of attachments are kept for the edits
   made after the dump was taken.  A revision that is dumped twice, because its
   document came up twice in the changes, is dumped alike.  Left out is a file
   cut between the attachments of such a second copy and read with --partial:
   should the server refuse the whole copy and take the cut one beside it, a
   later run would find the revision there and its attachments missing. *)
ASSUME DumpAssumption == \A d \in Dumps :
  /\ d.recs \in Seq(ToSet(d.recs))
  /\ \A r \in ToSet(d.recs) :
       /\ r.kind \in {"doc", "att"} /\ r.len \in Nat
       /\ r.kind = "doc" => r.rev \in Seq(Nat \ {0}) \ {<<>>} /\ r.dead \in BOOLEAN
       /\ r.kind = "att" => r.name \in Nat
  /\ \A r, a \in ToSet(d.recs) :
       r.kind = "doc" /\ a.kind = "att" => a.name \notin ToSet(r.rev)
  /\ \A i, j \in DocsIn(d.recs) : SameRevision(d.recs[i], d.recs[j]) =>
       /\ AttsAfter(d.recs, i) = AttsAfter(d.recs, j)
       /\ \A k \in AttsAfter(d.recs, i) :
            /\ d.recs[i + k].name = d.recs[j + k].name
            /\ d.recs[i + k].len = d.recs[j + k].len

(* What a target holds already of a document that is dumped, it has from the
   same database: a dumped revision with its attachments, and its ancestors. *)
ASSUME TargetAssumption == \A t \in Targets, d \in Dumps :
  /\ \A x \in t.revs : x = <<x[1], x[2]>> /\ x[2] \in Seq(Nat)
  /\ \A i \in DocsIn(d.recs) :
       /\ <<d.recs[i].id, d.recs[i].rev>> \in t.revs => \A k \in AttsAfter(d.recs, i) :
            <<d.recs[i].id, d.recs[i].rev, d.recs[i + k].name>> \in t.stored
       /\ \A x \in t.revs : x[1] = d.recs[i].id => \E j \in DocsIn(d.recs) :
            d.recs[j].id = x[1] /\ IsPrefix(x[2], d.recs[j].rev)

VARIABLES
  \* the target database (external)
  exists,       \* it has been created
  revs,         \* the revisions it holds, as <<document, revision>>
  held,         \* those whose body it has been given
  dead,         \* those that are deletions
  stored,       \* the attachments it holds, as <<document, revision, name>>
  \* the file
  dump,
  \* one invocation of the command
  phase,
  flags,        \* [create, merge, partial, batch]
  pos,          \* the record to be read next
  prepared,
  pending,      \* the documents gathered for the next batch
  pendingBytes, inlineBytes,
  current,      \* the position of the document attachments belong to, or 0
  writing,      \* the batch being written
  docs, tombs, atts,
  runs, outcome, edits

target  == <<exists, revs, held, dead, stored>>
batch   == <<pending, pendingBytes, inlineBytes, current>>
counts  == <<docs, tombs, atts>>
control == <<phase, flags, pos, prepared, writing>>
restoreVars ==
  <<exists, revs, held, dead, stored, dump, phase, flags, pos, prepared,
    pending, pendingBytes, inlineBytes, current, writing,
    docs, tombs, atts, runs, outcome, edits>>

Recs == dump.recs

(* The base64 form of n bytes. *)
Encoded(n) == 4 * ((n + 2) \div 3)

-----------------------------------------------------------------------------
(* The target (external).                                                  *)

LeavesOf(id) ==
  {x \in revs : x[1] = id /\ \A y \in revs : y[1] = id => ~IsStrictPrefix(x[2], y[2])}

(* doc_count: the documents with a leaf that is not a deletion. *)
DocCount == Cardinality({x[1] : x \in {y \in revs : y \in LeavesOf(y[1]) \ dead}})

(* What storing <<id, rev>> with its history adds. *)
History(id, rev) == {<<id, SubSeq(rev, 1, n)>> : n \in 1..Len(rev)}

(* Another client edits a leaf; attachments stay with the new revision. *)
Edit(x) ==
  /\ edits < MaxEdits /\ exists /\ x \in revs /\ x \in LeavesOf(x[1]) \ dead
  /\ LET new == Append(x[2], 0)
     IN  /\ revs' = revs \cup {<<x[1], new>>} /\ held' = held \cup {<<x[1], new>>}
         /\ stored' = stored \cup {<<x[1], new, a[3]>> : a \in {b \in stored : <<b[1], b[2]>> = x}}
  /\ edits' = edits + 1
  /\ UNCHANGED <<exists, dead, dump, batch, control, counts, runs, outcome>>

-----------------------------------------------------------------------------
(* The batch.  A pending document is [at, inline, large, inlineBytes,      *)
(* bytes, rev]: the attachments are the positions of their records.        *)

NewPending(i) ==
  [at |-> i, inline |-> <<>>, large |-> <<>>, inlineBytes |-> 0,
   bytes |-> Recs[i].len, rev |-> Recs[i].rev]

IdOf(p) == Recs[p.at].id

(* The batch is closed at a document boundary. *)
BatchFull == Len(pending) >= flags.batch \/ pendingBytes >= BatchBytes

(* An attachment that is small enough and finds the batch too full for it. *)
CrowdedNever(i) == FALSE                                          \* mutant
Crowded(i) == /\ Recs[i].len =< InlineLimit
              /\ inlineBytes + Encoded(Recs[i].len) > BatchBytes

FitsLoose(i) == Recs[i].len =< InlineLimit                        \* mutant
Fits(i) == /\ Recs[i].len =< InlineLimit
           /\ inlineBytes + Encoded(Recs[i].len) =< BatchBytes

Attach(p, i) ==
  IF p.at # current THEN p
  ELSE IF Fits(i)
    THEN [p EXCEPT !.inline = Append(@, i),
                   !.inlineBytes = @ + Encoded(Recs[i].len),
                   !.bytes = @ + Encoded(Recs[i].len)]
    ELSE [p EXCEPT !.large = Append(@, i), !.bytes = @ + Recs[i].len]

-----------------------------------------------------------------------------
RestoreInit ==
  /\ \E t \in Targets :
       /\ revs = t.revs /\ held = t.revs /\ dead = t.dead
       /\ stored = t.stored /\ exists = t.exists
  /\ dump \in Dumps
  /\ phase = "idle" /\ flags = [create |-> FALSE, merge |-> FALSE, partial |-> FALSE, batch |-> 0]
  /\ pos = 0 /\ prepared = FALSE
  /\ pending = <<>> /\ pendingBytes = 0 /\ inlineBytes = 0 /\ current = 0
  /\ writing = <<>>
  /\ docs = 0 /\ tombs = 0 /\ atts = 0
  /\ runs = 0 /\ outcome = "none" /\ edits = 0

(* What is left when the command ends with outcome o. *)
Exit(o) ==
  /\ phase' = "idle" /\ outcome' = o
  /\ pos' = 0 /\ prepared' = FALSE
  /\ pending' = <<>> /\ pendingBytes' = 0 /\ inlineBytes' = 0 /\ current' = 0
  /\ writing' = <<>> /\ docs' = 0 /\ tombs' = 0 /\ atts' = 0
  /\ UNCHANGED <<dump, flags, runs, edits>>

(* The file is scanned before the server is touched. *)
Run(f) ==
  /\ phase = "idle" /\ runs < MaxRuns
  /\ runs' = runs + 1 /\ flags' = f
  /\ IF dump.complete \/ f.partial
       THEN phase' = "read" /\ pos' = 1 /\ outcome' = "running"
       ELSE outcome' = "refused" /\ UNCHANGED <<phase, pos>>
  /\ UNCHANGED <<target, dump, batch, prepared, writing, counts, edits>>

Reading == phase = "read"
AtEnd == pos > Len(Recs)
AtDoc == ~AtEnd /\ Recs[pos].kind = "doc"
AtAtt == ~AtEnd /\ Recs[pos].kind = "att"

(* prepareTarget, before the first document or at the end of a dump without
   one: the target is created, or has to be empty unless --merge. *)
TargetRefused ==
  IF exists THEN DocCount > 0 /\ ~flags.merge ELSE ~flags.create

PrepareTarget ==
  /\ Reading /\ ~prepared /\ (AtDoc \/ AtEnd)
  /\ ~TargetRefused
  /\ exists' = TRUE /\ prepared' = TRUE
  /\ UNCHANGED <<revs, held, dead, stored, dump, phase, flags, pos, batch, writing,
                 counts, runs, outcome, edits>>

RefuseTarget ==
  /\ Reading /\ ~prepared /\ (AtDoc \/ AtEnd)
  /\ TargetRefused
  /\ UNCHANGED target
  /\ Exit("refused")

(* flush: all that is pending is written. *)
Flush ==
  /\ Reading /\ prepared /\ pending # <<>>
  /\ (AtDoc /\ BatchFull) \/ AtEnd
  /\ writing' = pending /\ phase' = "bulk"
  /\ pending' = <<>> /\ pendingBytes' = 0 /\ inlineBytes' = 0 /\ current' = 0
  /\ UNCHANGED <<target, dump, flags, pos, prepared, counts, runs, outcome,
                 edits>>

ReadDoc ==
  /\ Reading /\ prepared /\ AtDoc /\ ~BatchFull
  /\ pending' = Append(pending, NewPending(pos))
  /\ pendingBytes' = pendingBytes + Recs[pos].len
  /\ current' = pos
  /\ docs' = docs + 1
  /\ tombs' = IF Recs[pos].dead THEN tombs + 1 ELSE tombs
  /\ pos' = pos + 1
  /\ UNCHANGED <<target, dump, phase, flags, prepared, inlineBytes, writing, atts,
                 runs, outcome, edits>>

(* The attachment does not follow its document, or follows a deletion. *)
Stray == \/ current = 0
         \/ Recs[current].id # Recs[pos].id \/ Recs[current].rev # Recs[pos].rev
         \/ Recs[current].dead

RefuseAtt ==
  /\ Reading /\ AtAtt /\ Stray
  /\ UNCHANGED target
  /\ Exit("corrupt")

(* flushBefore: the documents ahead of the one being read are written, and it
   stays alone in the batch. *)
FlushBefore ==
  /\ Reading /\ AtAtt /\ ~Stray /\ Crowded(pos) /\ Len(pending) >= 2
  /\ writing' = Front(pending) /\ phase' = "bulk"
  /\ pending' = <<Last(pending)>>
  /\ inlineBytes' = Last(pending).inlineBytes
  /\ pendingBytes' = Last(pending).bytes
  /\ UNCHANGED <<target, dump, flags, pos, prepared, current, counts, runs,
                 outcome, edits>>

(* The attachment is inlined when it fits, and spilled to a file otherwise. *)
ReadAtt ==
  /\ Reading /\ AtAtt /\ ~Stray
  /\ ~(Crowded(pos) /\ Len(pending) >= 2)
  /\ pending' = [k \in 1..Len(pending) |-> Attach(pending[k], pos)]
  /\ IF Fits(pos)
       THEN /\ inlineBytes' = inlineBytes + Encoded(Recs[pos].len)
            /\ pendingBytes' = pendingBytes + Encoded(Recs[pos].len)
       ELSE /\ pendingBytes' = pendingBytes + Recs[pos].len
            /\ UNCHANGED inlineBytes
  /\ atts' = atts + 1
  /\ pos' = pos + 1
  /\ UNCHANGED <<target, dump, phase, flags, prepared, current, writing, docs,
                 tombs, runs, outcome, edits>>

(* What the server holds once it has accepted these documents.  A revision
   whose body it has already is left as it is. *)
New(ps) == {p \in ps : <<IdOf(p), p.rev>> \notin held}

Accept(ps) ==
  /\ revs' = revs \cup UNION {History(IdOf(p), p.rev) : p \in ps}
  /\ held' = held \cup {<<IdOf(p), p.rev>> : p \in ps}
  /\ dead' = dead \cup {<<IdOf(p), p.rev>> : p \in {q \in New(ps) : Recs[q.at].dead}}
  /\ stored' = stored \cup
       UNION {{<<IdOf(p), p.rev, Recs[i].name>> : i \in ToSet(p.inline)} : p \in New(ps)}
  /\ UNCHANGED exists

(* _bulk_docs with new_edits=false. *)
BulkDocs ==
  /\ phase = "bulk"
  /\ Accept(ToSet(writing))
  /\ phase' = "upload"
  /\ UNCHANGED <<dump, flags, pos, prepared, batch, writing, counts, runs,
                 outcome, edits>>

(* The server rejects some of the documents and takes the others. *)
BulkRejected ==
  /\ phase = "bulk"
  /\ \E taken \in SUBSET ToSet(writing) :
       taken # ToSet(writing) /\ Accept(taken)
  /\ Exit("rejected")

(* The next document of the batch, when it has nothing left to upload. *)
DocWritten ==
  /\ phase = "upload"
  /\ IF writing = <<>> THEN phase' = "read" /\ UNCHANGED writing
     ELSE Head(writing).large = <<>> /\ writing' = Tail(writing) /\ UNCHANGED phase
  /\ UNCHANGED <<target, dump, flags, pos, prepared, batch, counts, runs,
                 outcome, edits>>

Uploading == phase = "upload" /\ writing # <<>> /\ Head(writing).large # <<>>

(* uploadSpill: PutAttachment at the revision of the document, which becomes
   the one the server answers. *)
Upload ==
  /\ Uploading
  /\ LET p   == Head(writing)
         id  == IdOf(p)
         a   == Recs[Head(p.large)].name
         new == Append(p.rev, a)
     IN  /\ <<id, p.rev>> \in LeavesOf(id) \ dead
         /\ revs' = revs \cup {<<id, new>>} /\ held' = held \cup {<<id, new>>}
         /\ stored' = stored \cup {<<id, new, a>>}
              \cup {<<id, new, x[3]>> : x \in {y \in stored : y[1] = id /\ y[2] = p.rev}}
         /\ writing' = <<[p EXCEPT !.rev = new, !.large = Tail(@)]>> \o Tail(writing)
  /\ UNCHANGED <<exists, dead, dump, phase, flags, pos, prepared, batch, counts,
                 runs, outcome, edits>>

(* A revision that is no longer a leaf is a conflict. *)
UploadConflict ==
  /\ Uploading
  /\ LET p == Head(writing) IN <<IdOf(p), p.rev>> \notin LeavesOf(IdOf(p)) \ dead
  /\ UNCHANGED target
  /\ Exit("conflict")

(* Ctrl-C, a crash, or a request that failed. *)
Stop ==
  /\ phase # "idle"
  /\ UNCHANGED target
  /\ Exit("stopped")

(* The end: the totals are compared with those of the footer. *)
TotalsAgree ==
  /\ dump.footer.docs = docs
  /\ dump.footer.atts = atts
  /\ dump.footer.deleted = tombs

FinishEarly ==                                                    \* mutant
  /\ Reading /\ AtEnd /\ prepared
  /\ UNCHANGED target
  /\ Exit(IF dump.complete /\ ~flags.partial /\ ~TotalsAgree THEN "damaged" ELSE "done")
Finish ==
  /\ Reading /\ AtEnd /\ prepared /\ pending = <<>>
  /\ UNCHANGED target
  /\ Exit(IF dump.complete /\ ~flags.partial /\ ~TotalsAgree THEN "damaged" ELSE "done")

Restoring ==
  \/ PrepareTarget \/ RefuseTarget \/ Flush \/ ReadDoc \/ RefuseAtt
  \/ FlushBefore \/ ReadAtt \/ BulkDocs \/ BulkRejected \/ DocWritten \/ Upload
  \/ UploadConflict \/ Finish

Flags == [create : BOOLEAN, merge : BOOLEAN, partial : BOOLEAN, batch : Batches]

RestoreNext ==
  \/ \E f \in Flags : Run(f)
  \/ Restoring
  \/ Stop
  \/ \E x \in revs : Edit(x)

RestoreSpec == RestoreInit /\ [][RestoreNext]_restoreVars

-----------------------------------------------------------------------------
(* Properties                                                              *)

Ids == {Recs[i].id : i \in DocsIn(Recs)}

(* The sum of f over S: the units of each of them, all counted. *)
Total(f, S) == Cardinality(UNION {{k} \X (1..f[k]) : k \in S})

(* The base64 of some attachments of the document at position i. *)
Weight(recs, i, K) == Total([k \in K |-> Encoded(recs[i + k].len)], K)

(* A restore that reports success has put every document of the dump in the
   target under the revision the dump names, and every attachment on that
   revision or on one grown from it, however the batches were cut and whatever
   earlier runs left behind; and without --partial it has read a complete dump
   and found in it exactly what the footer says (restore.go Run). *)
AllRestored ==
  outcome = "done" =>
    /\ \A i \in DocsIn(Recs) : <<Recs[i].id, Recs[i].rev>> \in held
    /\ \A i \in AttsIn(Recs) :
         \E x \in stored : /\ x[1] = Recs[i].id /\ x[3] = Recs[i].name
                           /\ IsPrefix(Recs[i].rev, x[2])
    /\ ~flags.partial =>
         /\ dump.complete
         /\ dump.footer.docs = Cardinality(DocsIn(Recs))
         /\ dump.footer.atts = Cardinality(AttsIn(Recs))
         /\ dump.footer.deleted = Cardinality({i \in DocsIn(Recs) : Recs[i].dead})

(* The document at position i holds an attachment that no request can carry
   with it: too large, or too much beside the others of the same document. *)
Overweight(recs, i) ==
  \/ \E k \in AttsAfter(recs, i) : recs[i + k].len > InlineLimit
  \/ Weight(recs, i, AttsAfter(recs, i)) > BatchBytes

(* "a document is never stripped of an attachment it could carry merely because
   the documents before it had filled the request" (restore.go:231-236): the
   only revisions a restore makes up are on top of an overweight document. *)
RevisionKept ==
  edits = 0 =>
    \A x \in revs :
      (x[1] \in Ids /\ runs > 0) =>
        \E i \in DocsIn(Recs) :
          /\ Recs[i].id = x[1]
          /\ \/ IsPrefix(x[2], Recs[i].rev)
             \/ IsPrefix(Recs[i].rev, x[2]) /\ Overweight(Recs, i)

(* The base64 that goes with some documents. *)
Inlined(ps) == Total([k \in 1..Len(ps) |-> ps[k].inlineBytes], 1..Len(ps))

(* The base64 in one request stays within the bound, and so does the number of
   its documents; the running total is that of the documents gathered. *)
RequestBounded ==
  /\ Len(writing) =< flags.batch /\ Inlined(writing) =< BatchBytes
  /\ inlineBytes = Inlined(pending)

=============================================================================
