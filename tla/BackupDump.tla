----------------------------- MODULE BackupDump -----------------------------
(***************************************************************************)
(* `cdb backup`: a database is read page by page through its changes feed  *)
(* and written to one dump file, a gzip stream in which every checkpoint   *)
(* closes a gzip member, so that a killed dump can be continued with       *)
(* --resume (internal/command/backup.go, internal/backup).                 *)
(*                                                                         *)
(* The database keeps changing while it is dumped.  A write at update      *)
(* sequence q creates the revision named q, so revisions, update sequences *)
(* and their order are the numbers 1..upd.                                 *)
(*                                                                         *)
(* The file is the sequence of records the writer has been handed.  The    *)
(* first `closed` of them are in gzip members that have been closed; the   *)
(* rest belong to the member under construction, any prefix of which may   *)
(* be what a killed process leaves readable.                               *)
(***************************************************************************)
EXTENDS Naturals, Sequences, FiniteSets

CONSTANTS
  Docs,       \* the documents of the database
  MaxSeq,     \* bound: writes made to the database
  MaxRuns,    \* bound: invocations of the command
  Batches,    \* the values of --batch tried
  Sinces      \* the values of --since tried

ASSUME BoundsAssumption ==
  /\ MaxSeq \in Nat
  /\ MaxRuns \in Nat
  /\ Batches \subseteq Nat \ {0}
  /\ Sinces \subseteq 0..MaxSeq

VARIABLES
  \* the database (external)
  upd,        \* its update sequence
  row,        \* row[d]: the sequence of d's last change, 0 if d never existed
  leaves,     \* leaves[d]: the leaf revisions of d
  dead,       \* the revisions that are deletions
  hasAtt,     \* the revisions that carry an attachment
  bodies,     \* the revisions whose body can still be read
  \* the dump file
  file,       \* the records written to it, in order
  closed,     \* how many of them lie in closed gzip members
  stub,       \* the file holds bytes of a first member and no whole record
  \* one invocation of the command
  pc,         \* where Run stands
  tomb,       \* --tombstones
  batch,      \* --batch
  lastSeq,    \* the sequence the feed is read from next
  page,       \* the page of the feed being dumped
  todo,       \* the revisions of the page that are still to be written
  docs, deleted, atts,  \* the counters the footer is written from
  runs,       \* invocations so far
  outcome,    \* how the last invocation ended
  skipped     \* history: the sequences an explicit --since stepped over

source == <<upd, row, leaves, dead, hasAtt, bodies>>
dump   == <<file, closed, stub>>
counts == <<docs, deleted, atts>>
vars   == <<upd, row, leaves, dead, hasAtt, bodies, file, closed, stub,
            pc, tomb, batch, lastSeq, page, todo, docs, deleted, atts,
            runs, outcome, skipped>>

Seqs == 0..MaxSeq
Revs == 1..MaxSeq

-----------------------------------------------------------------------------
(* Records *)

Header(t)      == [kind |-> "header", tomb |-> t]
DocRecord(r)   == [kind |-> "doc", rev |-> r, dead |-> r \in dead]
AttRecord(r)   == [kind |-> "att", rev |-> r]
CheckpointNext(q) == [kind |-> "checkpoint", seq |-> q + 1]  \* mutant
Checkpoint(q)  == [kind |-> "checkpoint", seq |-> q]
Footer(n, x, a, q) ==
  [kind |-> "footer", docs |-> n, deleted |-> x, atts |-> a, seq |-> q]

Headers     == [kind : {"header"}, tomb : BOOLEAN]
DocRecords  == [kind : {"doc"}, rev : Revs, dead : BOOLEAN]
AttRecords  == [kind : {"att"}, rev : Revs]
Checkpoints == [kind : {"checkpoint"}, seq : Seqs]
Footers     == [kind : {"footer"}, docs : Nat, deleted : Nat, atts : Nat, seq : Seqs]

Records == Headers \cup DocRecords \cup AttRecords \cup Checkpoints \cup Footers

-----------------------------------------------------------------------------
(* The database (external).  A document is deleted when every leaf is.     *)

IsDeleted(d) == leaves[d] # {} /\ leaves[d] \subseteq dead

(* Write a revision of d over `base`, or, when base is 0, beside the leaves
   it has: a first revision, or a conflict a replication brought in. *)
Write(d, base, del, att) ==
  /\ upd < MaxSeq
  /\ base \in leaves[d] \cup {0}
  /\ del => base \in leaves[d] \ dead
  /\ att => ~del
  /\ upd' = upd + 1
  /\ row' = [row EXCEPT ![d] = upd + 1]
  /\ leaves' = [leaves EXCEPT ![d] = (@ \ {base}) \cup {upd + 1}]
  /\ dead' = IF del THEN dead \cup {upd + 1} ELSE dead
  /\ hasAtt' = IF att THEN hasAtt \cup {upd + 1} ELSE hasAtt
  /\ bodies' = bodies \cup {upd + 1}
  /\ UNCHANGED <<file, closed, stub, pc, tomb, batch, lastSeq, page, todo,
                 docs, deleted, atts, runs, outcome, skipped>>

(* Compaction forgets the bodies of revisions that are no longer leaves. *)
CompactSource ==
  /\ bodies # UNION {leaves[d] : d \in Docs}
  /\ bodies' = UNION {leaves[d] : d \in Docs}
  /\ UNCHANGED <<upd, row, leaves, dead, hasAtt, file, closed, stub, pc, tomb,
                 batch, lastSeq, page, todo, docs, deleted, atts, runs,
                 outcome, skipped>>

(* One page of _changes?style=all_docs: ds are the first n documents changed
   after `since`, in sequence order, and `last` is where the next page would
   start. *)
ChangedAfter(since) == {d \in Docs : row[d] > since}

IsPage(ds, last, since, n) ==
  LET changed == ChangedAfter(since)
  IN  /\ ds \subseteq changed
      /\ Cardinality(ds) =< n
      /\ ds = changed \/ Cardinality(ds) = n
      /\ \A d \in ds, e \in changed \ ds : row[d] < row[e]
      /\ IF ds = changed
           THEN last = upd
           ELSE /\ \E d \in ds : row[d] = last
                /\ \A d \in ds : row[d] =< last

(* The revisions asked of _bulk_get: a row whose document is deleted is
   left out of a dump that does not record deletions. *)
PageRevs(ds) ==
  UNION {leaves[d] : d \in {e \in ds : tomb \/ ~IsDeleted(e)}}

-----------------------------------------------------------------------------
(* Scan: what --resume learns from a file.  A record counts only once its  *)
(* gzip member has been read to the end, so the open member is ignored.    *)

At(recs, kind) == {i \in 1..Len(recs) : recs[i].kind = kind}
Tombstones(recs) == {i \in At(recs, "doc") : recs[i].dead}

(* The sequence of the last record of these kinds, 0 when there is none. *)
LastSeqOf(recs, kinds) ==
  LET C == {i \in 1..Len(recs) : recs[i].kind \in kinds}
  IN  IF C = {} THEN 0 ELSE recs[CHOOSE i \in C : \A j \in C : j =< i].seq

Closed == SubSeq(file, 1, closed)

ScanOffsetEarly == IF closed = 0 THEN 0 ELSE closed - 1           \* mutant
ScanSeqTorn     == LastSeqOf(file, {"checkpoint"})                \* mutant
ScanDocsTorn    == Cardinality(At(file, "doc"))                   \* mutant

ScanOffset   == closed
ScanComplete == At(Closed, "footer") # {}
ScanSeq      == LastSeqOf(Closed, {"checkpoint"})
ScanDocs     == Cardinality(At(Closed, "doc"))
ScanDeleted  == Cardinality(Tombstones(Closed))
ScanAtts     == Cardinality(At(Closed, "att"))

(* Scan refuses a file whose first record cannot be read as a header. *)
NotADump == stub

(* --resume refuses a dump of the other kind. *)
WrongMode(flag) == ScanOffset > 0 /\ file[1].tomb # flag

-----------------------------------------------------------------------------
(* The command.  Its local state dies with it.                             *)

Init ==
  /\ upd = 0
  /\ row = [d \in Docs |-> 0]
  /\ leaves = [d \in Docs |-> {}]
  /\ dead = {} /\ hasAtt = {} /\ bodies = {}
  /\ file = <<>> /\ closed = 0 /\ stub = FALSE
  /\ pc = "idle" /\ tomb = FALSE /\ batch = 0
  /\ lastSeq = 0 /\ page = [last |-> 0, final |-> FALSE] /\ todo = {}
  /\ docs = 0 /\ deleted = 0 /\ atts = 0
  /\ runs = 0 /\ outcome = "none" /\ skipped = {}

(* What the process leaves when it ends with outcome o. *)
Exit(o) ==
  /\ pc' = "idle" /\ tomb' = FALSE /\ batch' = 0
  /\ lastSeq' = 0 /\ page' = [last |-> 0, final |-> FALSE] /\ todo' = {}
  /\ docs' = 0 /\ deleted' = 0 /\ atts' = 0
  /\ outcome' = o
  /\ UNCHANGED <<source, runs, skipped>>

(* The values --since can be given: none, or a sequence the operator holds. *)
Given == {{}} \cup {{q} : q \in Sinces \cap 0..upd}

SinceOr(given, seq) == IF given = {} THEN seq ELSE CHOOSE q \in given : TRUE

(* backup <db> <file>: the file is created, and must not exist. *)
Start(flag, b, given) ==
  /\ pc = "idle" /\ runs = 0 /\ MaxRuns > 0
  /\ runs' = 1
  /\ pc' = "header" /\ tomb' = flag /\ batch' = b
  /\ lastSeq' = SinceOr(given, 0)
  /\ skipped' = 1..SinceOr(given, 0)
  /\ outcome' = "running"
  /\ UNCHANGED <<source, dump, page, todo, counts>>

(* backup --resume that changes nothing: not a dump, a dump of the other
   kind, or one that is complete.  The mode is compared first. *)
ResumeRefused(flag) ==
  /\ pc = "idle" /\ runs \in 1..(MaxRuns - 1)
  /\ NotADump \/ WrongMode(flag) \/ ScanComplete
  /\ runs' = runs + 1
  /\ outcome' = IF NotADump THEN "notadump"
                ELSE IF WrongMode(flag) THEN "wrongmode" ELSE "nothing"
  /\ UNCHANGED <<source, dump, pc, tomb, batch, lastSeq, page, todo, counts,
                 skipped>>

(* backup --resume that goes on: the file is cut at the end of its last
   closed member and reopened for appending, the counters go on from Scan's,
   and the feed from its checkpoint unless --since names another sequence. *)
Resume(flag, b, given) ==
  /\ pc = "idle" /\ runs \in 1..(MaxRuns - 1)
  /\ ~NotADump /\ ~WrongMode(flag) /\ ~ScanComplete
  /\ runs' = runs + 1
  /\ file' = SubSeq(file, 1, ScanOffset)
  /\ closed' = ScanOffset
  /\ pc' = IF ScanOffset = 0 THEN "header" ELSE "page"
  /\ tomb' = flag /\ batch' = b
  /\ lastSeq' = SinceOr(given, ScanSeq)
  /\ docs' = ScanDocs /\ deleted' = ScanDeleted /\ atts' = ScanAtts
  /\ skipped' = (IF ScanOffset = 0 THEN {} ELSE skipped)
                  \cup ((ScanSeq + 1)..SinceOr(given, ScanSeq))
  /\ outcome' = "running"
  /\ UNCHANGED <<source, stub, page, todo>>

WriteHeader ==
  /\ pc = "header"
  /\ file' = Append(file, Header(tomb))
  /\ pc' = "page"
  /\ UNCHANGED <<source, closed, stub, tomb, batch, lastSeq, page, todo,
                 counts, runs, outcome, skipped>>

(* Read a page of the feed.  An empty one ends the dump; one that is short
   and leaves nothing pending is the last. *)
ReadChanges ==
  /\ pc = "page"
  /\ \E ds \in SUBSET Docs, last \in Seqs :
       /\ IsPage(ds, last, lastSeq, batch)
       /\ IF ds = {}
          THEN /\ lastSeq' = last
               /\ pc' = "footer"
               /\ UNCHANGED <<page, todo>>
          ELSE /\ page' = [last |-> last,
                           final |-> /\ ds = ChangedAfter(lastSeq)
                                     /\ Cardinality(ds) < batch]
               /\ todo' = PageRevs(ds)
               /\ pc' = "fetch"
               /\ UNCHANGED lastSeq
  /\ UNCHANGED <<source, dump, tomb, batch, counts, runs, outcome, skipped>>

(* _bulk_get answers every revision asked for. *)
FetchBodies ==
  /\ pc = "fetch"
  /\ todo \subseteq bodies
  /\ pc' = "write"
  /\ UNCHANGED <<source, dump, tomb, batch, lastSeq, page, todo, counts, runs,
                 outcome, skipped>>

(* One document record, and after it the attachment, which is fetched only
   now. *)
WriteBody(r) ==
  /\ pc = "write" /\ r \in todo
  /\ r \in hasAtt => r \in bodies
  /\ file' = Append(file, DocRecord(r))
               \o (IF r \in hasAtt THEN <<AttRecord(r)>> ELSE <<>>)
  /\ docs' = docs + 1
  /\ deleted' = IF r \in dead THEN deleted + 1 ELSE deleted
  /\ atts' = IF r \in hasAtt THEN atts + 1 ELSE atts
  /\ todo' = todo \ {r}
  /\ UNCHANGED <<source, closed, stub, pc, tomb, batch, lastSeq, page, runs,
                 outcome, skipped>>

(* WriteCheckpoint is a record and then the end of the gzip member. *)
WriteCheckpoint ==
  /\ pc = "write" /\ todo = {}
  /\ file' = Append(file, Checkpoint(page.last))
  /\ lastSeq' = page.last
  /\ pc' = "seal"
  /\ UNCHANGED <<source, closed, stub, tomb, batch, page, todo, counts, runs,
                 outcome, skipped>>

CloseMember ==
  /\ pc = "seal"
  /\ closed' = Len(file)
  /\ pc' = IF page.final THEN "footer" ELSE "page"
  /\ UNCHANGED <<source, file, stub, tomb, batch, lastSeq, page, todo, counts,
                 runs, outcome, skipped>>

WriteFooter ==
  /\ pc = "footer"
  /\ file' = Append(file, Footer(docs, deleted, atts, lastSeq))
  /\ pc' = "close"
  /\ UNCHANGED <<source, closed, stub, tomb, batch, lastSeq, page, todo,
                 counts, runs, outcome, skipped>>

Close ==
  /\ pc = "close"
  /\ closed' = Len(file)
  /\ UNCHANGED <<file, stub>>
  /\ Exit("done")

(* The process ends without closing the open member: any prefix of its
   records is readable afterwards.  The writer puts a gzip header in the file
   with its first record, so a first member of which no record is readable is
   a stub. *)
Abandon(o) ==
  /\ \E cut \in closed..Len(file) :
       /\ file' = SubSeq(file, 1, cut)
       /\ stub' = (cut = 0 /\ file # <<>>)
  /\ UNCHANGED closed
  /\ Exit(o)

(* A revision of the page was compacted away before it could be read. *)
RevisionLost ==
  /\ pc = "fetch" /\ ~(todo \subseteq bodies)
  /\ Abandon("lost")

AttachmentLost ==
  /\ pc = "write" /\ \E r \in todo : r \in hasAtt \ bodies
  /\ Abandon("failed")

(* Ctrl-C, a crash, a failed request or a failed write. *)
Stop ==
  /\ pc # "idle"
  /\ Abandon("stopped")

Dumping ==
  \/ WriteHeader \/ ReadChanges \/ FetchBodies
  \/ \E r \in Revs : WriteBody(r)
  \/ WriteCheckpoint \/ CloseMember \/ WriteFooter \/ Close
  \/ RevisionLost \/ AttachmentLost

Database ==
  \/ \E d \in Docs, base \in Seqs, del, att \in BOOLEAN : Write(d, base, del, att)
  \/ CompactSource

Invoke ==
  \E flag \in BOOLEAN :
    \/ ResumeRefused(flag)
    \/ \E b \in Batches, given \in Given :
         Start(flag, b, given) \/ Resume(flag, b, given)

Next == Database \/ Invoke \/ Dumping \/ Stop

Spec == Init /\ [][Next]_vars

-----------------------------------------------------------------------------
(* Properties                                                              *)

TypeOK ==
  /\ upd \in Seqs /\ row \in [Docs -> Seqs] /\ leaves \in [Docs -> SUBSET Revs]
  /\ dead \subseteq Revs /\ hasAtt \subseteq Revs /\ bodies \subseteq Revs
  /\ file \in Seq(Records) /\ closed \in 0..Len(file) /\ stub \in BOOLEAN
  /\ pc \in {"idle", "header", "page", "fetch", "write", "seal", "footer",
             "close"}
  /\ tomb \in BOOLEAN /\ batch \in Nat
  /\ lastSeq \in Seqs /\ page \in [last : Seqs, final : BOOLEAN]
  /\ todo \subseteq Revs
  /\ docs \in Nat /\ deleted \in Nat /\ atts \in Nat
  /\ runs \in Nat
  /\ outcome \in {"none", "running", "done", "lost", "failed", "stopped",
                  "notadump", "wrongmode", "nothing"}
  /\ skipped \subseteq Seqs

(* The sequence the closed part of the file speaks for. *)
Through == LastSeqOf(Closed, {"checkpoint", "footer"})

(* The revisions that are among the records with all that belongs to them. *)
Saved(recs) ==
  {r \in Revs : /\ \E i \in At(recs, "doc") : recs[i].rev = r
                /\ r \in hasAtt => \E i \in At(recs, "att") : recs[i].rev = r}

(* The documents a dump has to hold: a deletion is one only if asked for. *)
Wanted(d) == file[1].tomb \/ ~IsDeleted(d)

(* No document falls between two pages, two batches or two invocations: when
   the closed part of a dump says it goes through a sequence, every document
   last changed by then is in it with every leaf revision and attachment,
   unless an explicit --since stepped over it or it is a deletion that the
   dump was not asked to record (backup.go Run, resume.go Scan). *)
NoGap ==
  \A d \in Docs :
    (row[d] \in 1..Through /\ row[d] \notin skipped /\ Wanted(d))
      => leaves[d] \subseteq Saved(Closed)

(* The footer ends the file, and its totals are the totals of the records in
   the file, whichever invocations wrote them: restore compares them. *)
TrueTotals(recs, foot) ==
  /\ foot.docs = Cardinality(At(recs, "doc"))
  /\ foot.deleted = Cardinality(Tombstones(recs))
  /\ foot.atts = Cardinality(At(recs, "att"))

FooterIsTrue ==
  \A i \in At(file, "footer") : i = Len(file) /\ TrueTotals(file, file[i])

(* Seen through its closed members the file is the log of DumpLog: batches
   are appended whole and a complete dump is never touched again, whatever
   crashes and resumptions happen on the way (format.go WriteCheckpoint,
   resume.go Scan and Truncate). *)
Log == INSTANCE DumpLog WITH log <- Closed
IsALog == Log!Spec

-----------------------------------------------------------------------------
(* The inductive invariant behind NoGap, FooterIsTrue and IsALog.          *)

(* Where headers, checkpoints and footers stand in the file. *)
Shape ==
  /\ stub => file = <<>> /\ pc = "idle"
  /\ runs = 0 => file = <<>> /\ pc = "idle" /\ ~stub
  /\ file # <<>> => file[1].kind = "header"
  /\ \A i \in 2..Len(file) : file[i].kind # "header"
  /\ pc = "header" => file = <<>>
  /\ pc \notin {"idle", "header"} => file # <<>> /\ file[1].tomb = tomb
  /\ \A i \in 1..Len(file) : file[i].kind = "footer" => i = Len(file)
  /\ pc # "idle" =>
       \A i \in 1..Len(file) :
         /\ file[i].kind = "footer" => i > closed /\ pc = "close"
         /\ file[i].kind = "checkpoint" =>
              i =< closed \/ (i = Len(file) /\ pc = "seal")
  /\ pc = "seal" => Len(file) > closed /\ file[Len(file)] = Checkpoint(lastSeq)
  /\ pc = "close" => /\ Len(file) > closed
                     /\ file[Len(file)] = Footer(docs, deleted, atts, lastSeq)

(* Nothing speaks of a sequence the database has not reached. *)
Bounded ==
  /\ \A d \in Docs : row[d] =< upd /\ leaves[d] \subseteq 1..upd
  /\ dead \subseteq 1..upd /\ hasAtt \subseteq 1..upd
  /\ \A i \in 1..Len(file) :
       file[i].kind \in {"checkpoint", "footer"} => file[i].seq =< upd
  /\ lastSeq =< upd /\ page.last =< upd

(* The counters of a running command are those of the records written. *)
Counted ==
  IF pc = "idle"
    THEN docs = 0 /\ deleted = 0 /\ atts = 0
    ELSE /\ docs = Cardinality(At(file, "doc"))
         /\ deleted = Cardinality(Tombstones(file))
         /\ atts = Cardinality(At(file, "att"))

(* What has been read is written, and the page being dumped is written or
   still to be. *)
Covered ==
  /\ pc # "idle" => batch # 0
  /\ pc = "header" => 1..lastSeq \subseteq skipped
  /\ pc \notin {"idle", "header"} =>
       \A d \in Docs :
         (row[d] \in 1..lastSeq /\ row[d] \notin skipped /\ Wanted(d))
           => leaves[d] \subseteq Saved(file)
  /\ pc \in {"fetch", "write"} =>
       \A d \in Docs :
         (row[d] \in (lastSeq + 1)..page.last /\ Wanted(d))
           => leaves[d] \subseteq todo \cup Saved(file)

IInv == /\ TypeOK /\ Shape /\ Bounded /\ Counted /\ FooterIsTrue
        /\ Covered /\ NoGap

=============================================================================
