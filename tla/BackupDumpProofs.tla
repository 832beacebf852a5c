-------------------------- MODULE BackupDumpProofs --------------------------
(***************************************************************************)
(* Theorems about `cdb backup` (BackupDump), for every set of documents    *)
(* and every bound: IInv is an inductive invariant, from which follow      *)
(* NoGap, FooterIsTrue and the implementation of DumpLog.                  *)
(***************************************************************************)
EXTENDS BackupDump, FiniteSetTheorems, WellFoundedInduction, TLAPS

-----------------------------------------------------------------------------
(* A non-empty set of indices has a greatest one.                          *)

Less == {p \in Nat \X Nat : p[1] < p[2]}

(* Every non-empty set of naturals has a least element. *)
LEMMA Least ==
  ASSUME NEW T, T \subseteq Nat, T # {}
  PROVE  \E x \in T : \A y \in T : x =< y
<1>1. IsWellFoundedOn(Less, Nat)
  BY NatLessThanWellFounded DEF OpToRel, Less
<1>2. PICK x \in T : \A y \in T : ~ (<<y, x>> \in Less)
  BY <1>1, WFMin
<1>3. \A a, b \in Nat : <<a, b>> \in Less <=> a < b
  BY DEF Less
<1>4. \A y \in T : ~ (y < x)
  BY <1>2, <1>3
<1>5. QED
  BY <1>4

(* Every non-empty set of indices up to n has a greatest element. *)
LEMMA Greatest ==
  ASSUME NEW n \in Nat, NEW T, T \subseteq 1..n, T # {}
  PROVE  \E x \in T : \A y \in T : y =< x
<1> DEFINE U == {k \in Nat : \A y \in T : y =< k}
<1>1. U \subseteq Nat /\ n \in U
  OBVIOUS
<1>2. PICK x \in U : \A y \in U : x =< y
  <2> HIDE DEF U
  <2> QED BY <1>1, Least
<1>3. x \in T
  <2>1. SUFFICES ASSUME x \notin T PROVE FALSE
    OBVIOUS
  <2>2. PICK y \in T : TRUE
    OBVIOUS
  <2>3. x # 0
    BY <2>2
  <2>4. \A z \in T : z =< x - 1
    BY <2>1, <2>3
  <2>5. x - 1 \in U
    BY <2>3, <2>4
  <2>6. QED
    BY <2>5, <1>2
<1>4. QED
  BY <1>3

-----------------------------------------------------------------------------
(* Records and their kinds.                                                *)

(* Appending a record adds its index to the indices of its kind. *)
LEMMA AtAppend ==
  ASSUME NEW recs \in Seq(Records), NEW x \in Records, NEW k
  PROVE  /\ At(Append(recs, x), k) =
              At(recs, k) \cup (IF x.kind = k THEN {Len(recs) + 1} ELSE {})
         /\ Len(recs) + 1 \notin At(recs, k)
BY DEF At

(* The indices of a kind are finitely many. *)
LEMMA AtFinite ==
  ASSUME NEW recs \in Seq(Records), NEW k
  PROVE  /\ IsFiniteSet(At(recs, k))
         /\ Cardinality(At(recs, k)) \in Nat
<1>1. At(recs, k) \subseteq 1..Len(recs)
  BY DEF At
<1>2. IsFiniteSet(1..Len(recs))
  BY FS_Interval
<1>3. QED
  BY <1>1, <1>2, FS_Subset, FS_CardinalityType

(* The tombstones are finitely many. *)
LEMMA TombstonesFinite ==
  ASSUME NEW recs \in Seq(Records)
  PROVE  /\ IsFiniteSet(Tombstones(recs))
         /\ Cardinality(Tombstones(recs)) \in Nat
<1>1. Tombstones(recs) \subseteq At(recs, "doc")
  BY DEF Tombstones
<1>2. QED
  BY <1>1, AtFinite, FS_Subset, FS_CardinalityType

(* Every record the writer makes is a record, of the kind it is named for. *)
LEMMA RecordTypes ==
  /\ \A t \in BOOLEAN : Header(t) \in Records /\ Header(t).kind = "header"
  /\ \A r \in Revs : DocRecord(r) \in Records /\ DocRecord(r).kind = "doc"
  /\ \A r \in Revs : AttRecord(r) \in Records /\ AttRecord(r).kind = "att"
  /\ \A q \in Seqs : Checkpoint(q) \in Records /\ Checkpoint(q).kind = "checkpoint"
  /\ \A n, x, a \in Nat, q \in Seqs :
       Footer(n, x, a, q) \in Records /\ Footer(n, x, a, q).kind = "footer"
<1>1. \A t \in BOOLEAN : Header(t) \in Headers /\ Header(t).kind = "header"
  BY DEF Header, Headers
<1>2. \A r \in Revs : DocRecord(r) \in DocRecords /\ DocRecord(r).kind = "doc"
  BY DEF DocRecord, DocRecords
<1>3. \A r \in Revs : AttRecord(r) \in AttRecords /\ AttRecord(r).kind = "att"
  BY DEF AttRecord, AttRecords
<1>4. \A q \in Seqs : Checkpoint(q) \in Checkpoints /\ Checkpoint(q).kind = "checkpoint"
  BY DEF Checkpoint, Checkpoints
<1>5. \A n, x, a \in Nat, q \in Seqs :
        Footer(n, x, a, q) \in Footers /\ Footer(n, x, a, q).kind = "footer"
  BY DEF Footer, Footers
<1>6. QED
  BY <1>1, <1>2, <1>3, <1>4, <1>5 DEF Records

LEMMA FooterType ==
  ASSUME NEW n \in Nat, NEW x \in Nat, NEW a \in Nat, NEW q \in Seqs
  PROVE  Footer(n, x, a, q) \in Records /\ Footer(n, x, a, q).kind = "footer"
BY RecordTypes

(* A record of a kind has the fields of that kind. *)
LEMMA RecordFields ==
  ASSUME NEW x \in Records
  PROVE  /\ x.kind \in {"header", "doc", "att", "checkpoint", "footer"}
         /\ x.kind = "header" => x.tomb \in BOOLEAN
         /\ x.kind = "doc" => x.rev \in Revs /\ x.dead \in BOOLEAN
         /\ x.kind \in {"checkpoint", "footer"} => x.seq \in Seqs
BY DEF Records, Headers, DocRecords, AttRecords, Checkpoints, Footers

(* A cut of a dump is a dump. *)
LEMMA CutType ==
  ASSUME NEW recs \in Seq(Records), NEW n \in 0..Len(recs)
  PROVE  /\ SubSeq(recs, 1, n) \in Seq(Records)
         /\ Len(SubSeq(recs, 1, n)) = n
         /\ \A i \in 1..n : SubSeq(recs, 1, n)[i] = recs[i]
OBVIOUS

(* The sequence read off a dump is 0 or that of a record of those kinds, and
   the last record's when that one is of those kinds. *)
LEMMA LastSeqOfIs ==
  ASSUME NEW recs \in Seq(Records), NEW kinds
  PROVE  /\ \/ LastSeqOf(recs, kinds) = 0
            \/ \E i \in 1..Len(recs) : /\ recs[i].kind \in kinds
                                       /\ LastSeqOf(recs, kinds) = recs[i].seq
         /\ Len(recs) > 0 /\ recs[Len(recs)].kind \in kinds =>
              LastSeqOf(recs, kinds) = recs[Len(recs)].seq
<1> DEFINE C == {i \in 1..Len(recs) : recs[i].kind \in kinds}
           m == CHOOSE i \in C : \A j \in C : j =< i
<1>1. CASE C = {}
  <2>1. LastSeqOf(recs, kinds) = 0
    BY <1>1 DEF LastSeqOf
  <2>2. Len(recs) \in Nat
    OBVIOUS
  <2>3. Len(recs) > 0 => recs[Len(recs)].kind \notin kinds
    BY <1>1, <2>2
  <2>4. QED
    BY <2>1, <2>3
<1>2. CASE C # {}
  <2>1. LastSeqOf(recs, kinds) = recs[m].seq
    BY <1>2 DEF LastSeqOf
  <2>2. Len(recs) \in Nat /\ C \subseteq 1..Len(recs)
    OBVIOUS
  <2>3. \E x \in C : \A y \in C : y =< x
    <3> HIDE DEF C
    <3> QED BY <1>2, <2>2, Greatest
  <2>4. m \in C /\ \A j \in C : j =< m
    <3> HIDE DEF C
    <3> QED BY <2>3
  <2>5. Len(recs) \in C => m = Len(recs)
    <3> HIDE DEF C, m
    <3> QED BY <2>2, <2>4
  <2>6. Len(recs) > 0 /\ recs[Len(recs)].kind \in kinds => Len(recs) \in C
    BY <2>2
  <2>7. m \in 1..Len(recs) /\ recs[m].kind \in kinds
    <3> HIDE DEF m
    <3> QED BY <2>4
  <2>8. QED
    <3> HIDE DEF C, m
    <3> QED BY <2>1, <2>5, <2>6, <2>7
<1>3. QED
  BY <1>1, <1>2

(* Nothing but the first n records matters to what is read off them. *)
LEMMA SamePrefix ==
  ASSUME NEW a \in Seq(Records), NEW b \in Seq(Records),
         NEW n \in 0..Len(a), n =< Len(b), \A i \in 1..n : a[i] = b[i]
  PROVE  SubSeq(a, 1, n) = SubSeq(b, 1, n)
OBVIOUS

-----------------------------------------------------------------------------
(* Type correctness.                                                       *)

(* An ended process leaves the local state it started with. *)
LEMMA ExitType ==
  ASSUME TypeOK, NEW o, Exit(o),
         o \in {"done", "lost", "failed", "stopped"}
  PROVE  /\ pc' = "idle" /\ tomb' \in BOOLEAN /\ batch' \in Nat
         /\ lastSeq' \in Seqs /\ page' \in [last : Seqs, final : BOOLEAN]
         /\ todo' \subseteq Revs
         /\ docs' \in Nat /\ deleted' \in Nat /\ atts' \in Nat
         /\ outcome' \in {"none", "running", "done", "lost", "failed",
                          "stopped", "notadump", "wrongmode", "nothing"}
         /\ UNCHANGED <<upd, row, leaves, dead, hasAtt, bodies, runs, skipped>>
<1>1. 0 \in Seqs
  BY BoundsAssumption DEF Seqs
<1>2. [last |-> 0, final |-> FALSE] \in [last : Seqs, final : BOOLEAN]
  BY <1>1
<1>3. QED
  BY <1>1, <1>2 DEF Exit, source

(* What Scan reads off a file has its type. *)
LEMMA ScanType ==
  ASSUME TypeOK
  PROVE  /\ Closed \in Seq(Records) /\ Len(Closed) = closed
         /\ \A i \in 1..closed : Closed[i] = file[i]
         /\ ScanSeq \in Seqs /\ Through \in Seqs
         /\ ScanDocs \in Nat /\ ScanDeleted \in Nat /\ ScanAtts \in Nat
<1>1. Closed \in Seq(Records) /\ Len(Closed) = closed
      /\ \A i \in 1..closed : Closed[i] = file[i]
  BY CutType DEF TypeOK, Closed
<1>2. ASSUME NEW kinds \in SUBSET {"checkpoint", "footer"}
      PROVE  LastSeqOf(Closed, kinds) \in Seqs
  <2>1. 0 \in Seqs
    BY BoundsAssumption DEF Seqs
  <2>2. \A i \in 1..Len(Closed) : Closed[i] \in Records
    BY <1>1
  <2>3. QED
    BY <1>1, <2>1, <2>2, LastSeqOfIs, RecordFields
<1>3. ScanSeq \in Seqs /\ Through \in Seqs
  BY <1>2 DEF ScanSeq, Through
<1>4. ScanDocs \in Nat /\ ScanDeleted \in Nat /\ ScanAtts \in Nat
  BY <1>1, AtFinite, TombstonesFinite DEF ScanDocs, ScanDeleted, ScanAtts
<1>5. QED
  BY <1>1, <1>3, <1>4

(* --since is a sequence the database has reached. *)
LEMMA GivenType ==
  ASSUME TypeOK, NEW given \in Given, NEW seq \in Seqs
  PROVE  /\ SinceOr(given, seq) \in Seqs
         /\ seq =< upd => SinceOr(given, seq) =< upd
<1>1. CASE given = {}
  BY <1>1 DEF SinceOr
<1>2. CASE given # {}
  <2>1. PICK q \in Sinces \cap 0..upd : given = {q}
    BY <1>2 DEF Given
  <2>2. SinceOr(given, seq) = q
    BY <2>1 DEF SinceOr
  <2>3. QED
    BY <2>1, <2>2, BoundsAssumption DEF Seqs, TypeOK
<1>3. QED
  BY <1>1, <1>2

(* Giving up on a dump keeps the types. *)
LEMMA AbandonType ==
  ASSUME TypeOK, NEW o, Abandon(o), o \in {"lost", "failed", "stopped"}
  PROVE  TypeOK'
<1>1. PICK cut \in closed..Len(file) :
        /\ file' = SubSeq(file, 1, cut)
        /\ stub' = (cut = 0 /\ file # <<>>)
  BY DEF Abandon
<1>2. closed' = closed /\ Exit(o)
  BY DEF Abandon
<1>3. cut \in 0..Len(file) /\ closed \in 0..cut
  BY <1>1 DEF TypeOK
<1>4. file' \in Seq(Records) /\ Len(file') = cut
  BY <1>1, <1>3, CutType DEF TypeOK
<1>5. QED
  BY <1>1, <1>2, <1>3, <1>4, ExitType DEF TypeOK

(* Every step of the command keeps the types. *)
LEMMA TypeStep == TypeOK /\ [Next]_vars => TypeOK'
<1> SUFFICES ASSUME TypeOK, [Next]_vars PROVE TypeOK'
  OBVIOUS
<1>1. ASSUME NEW d \in Docs, NEW base \in Seqs, NEW del \in BOOLEAN,
             NEW att \in BOOLEAN, Write(d, base, del, att)
      PROVE  TypeOK'
  <2>1. upd + 1 \in Seqs /\ upd + 1 \in Revs
    BY <1>1, BoundsAssumption DEF Write, TypeOK, Seqs, Revs
  <2>2. upd' \in Seqs /\ row' \in [Docs -> Seqs]
    BY <1>1, <2>1 DEF Write, TypeOK
  <2>3. leaves' \in [Docs -> SUBSET Revs]
    BY <1>1, <2>1 DEF Write, TypeOK
  <2>4. dead' \subseteq Revs /\ hasAtt' \subseteq Revs /\ bodies' \subseteq Revs
    BY <1>1, <2>1 DEF Write, TypeOK
  <2>5. QED
    BY <1>1, <2>2, <2>3, <2>4 DEF Write, TypeOK
<1>2. CASE CompactSource
  BY <1>2 DEF CompactSource, TypeOK
<1>3. ASSUME NEW flag \in BOOLEAN, ResumeRefused(flag) PROVE TypeOK'
  BY <1>3 DEF ResumeRefused, TypeOK, source, dump, counts
<1>4. ASSUME NEW flag \in BOOLEAN, NEW b \in Batches, NEW given \in Given,
             Start(flag, b, given)
      PROVE  TypeOK'
  <2>1. 0 \in Seqs
    BY BoundsAssumption DEF Seqs
  <2>2. SinceOr(given, 0) \in Seqs
    BY <2>1, GivenType
  <2>3. 1..SinceOr(given, 0) \subseteq Seqs
    BY <2>2, BoundsAssumption DEF Seqs
  <2>4. b \in Nat
    BY BoundsAssumption
  <2>5. QED
    BY <1>4, <2>2, <2>3, <2>4 DEF Start, TypeOK, source, dump, counts
<1>5. ASSUME NEW flag \in BOOLEAN, NEW b \in Batches, NEW given \in Given,
             Resume(flag, b, given)
      PROVE  TypeOK'
  <2>1. SinceOr(given, ScanSeq) \in Seqs /\ ScanSeq \in Seqs
    BY ScanType, GivenType
  <2>2. (ScanSeq + 1)..SinceOr(given, ScanSeq) \subseteq Seqs
    BY <2>1, BoundsAssumption DEF Seqs
  <2>3. b \in Nat
    BY BoundsAssumption
  <2>4. file' \in Seq(Records) /\ Len(file') = closed /\ closed' = closed
    BY <1>5, CutType DEF Resume, ScanOffset, TypeOK
  <2>5. closed' \in 0..Len(file')
    BY <2>4 DEF TypeOK
  <2>6. QED
    BY <1>5, <2>1, <2>2, <2>3, <2>4, <2>5, ScanType
    DEF Resume, TypeOK, source
<1>6. CASE WriteHeader
  <2>1. file' \in Seq(Records) /\ closed' \in 0..Len(file')
    BY <1>6, RecordTypes DEF WriteHeader, TypeOK
  <2>2. QED
    BY <1>6, <2>1 DEF WriteHeader, TypeOK, source, counts
<1>7. CASE ReadChanges
  <2>1. PICK ds \in SUBSET Docs, last \in Seqs :
          IF ds = {}
          THEN /\ lastSeq' = last /\ pc' = "footer" /\ UNCHANGED <<page, todo>>
          ELSE /\ page' = [last |-> last,
                           final |-> /\ ds = ChangedAfter(lastSeq)
                                     /\ Cardinality(ds) < batch]
               /\ todo' = PageRevs(ds)
               /\ pc' = "fetch"
               /\ UNCHANGED lastSeq
    BY <1>7 DEF ReadChanges
  <2>2. PageRevs(ds) \subseteq Revs
    BY DEF PageRevs, TypeOK
  <2>3. lastSeq' \in Seqs /\ page' \in [last : Seqs, final : BOOLEAN]
        /\ todo' \subseteq Revs /\ pc' \in {"footer", "fetch"}
    <3> DEFINE fin == ds = ChangedAfter(lastSeq) /\ Cardinality(ds) < batch
    <3>1. fin \in BOOLEAN
      OBVIOUS
    <3>2. [last |-> last, final |-> fin] \in [last : Seqs, final : BOOLEAN]
      <4> HIDE DEF fin
      <4> QED BY <3>1
    <3>3. CASE ds = {}
      BY <2>1, <3>3 DEF TypeOK
    <3>4. CASE ds # {}
      BY <2>1, <2>2, <3>2, <3>4 DEF TypeOK
    <3>5. QED
      BY <3>3, <3>4
  <2>4. QED
    BY <1>7, <2>3 DEF ReadChanges, TypeOK, source, dump, counts
<1>8. CASE FetchBodies
  BY <1>8 DEF FetchBodies, TypeOK, source, dump, counts
<1>9. ASSUME NEW r \in Revs, WriteBody(r) PROVE TypeOK'
  <2>1. file' \in Seq(Records) /\ closed \in 0..Len(file')
    BY <1>9, RecordTypes DEF WriteBody, TypeOK
  <2>2. QED
    BY <1>9, <2>1 DEF WriteBody, TypeOK, source
<1>10. CASE WriteCheckpoint
  <2>1. file' \in Seq(Records) /\ closed \in 0..Len(file')
    BY <1>10, RecordTypes DEF WriteCheckpoint, TypeOK
  <2>2. QED
    BY <1>10, <2>1 DEF WriteCheckpoint, TypeOK, source, counts
<1>11. CASE CloseMember
  BY <1>11 DEF CloseMember, TypeOK, source, counts
<1>12. CASE WriteFooter
  <2> DEFINE foot == Footer(docs, deleted, atts, lastSeq)
  <2>0. foot \in Records
    BY FooterType DEF TypeOK
  <2>1. file' \in Seq(Records) /\ closed \in 0..Len(file')
    <3>1. file' = Append(file, foot)
      BY <1>12 DEF WriteFooter
    <3> HIDE DEF foot
    <3> QED BY <2>0, <3>1 DEF TypeOK
  <2>2. QED
    BY <1>12, <2>1 DEF WriteFooter, TypeOK, source, counts
<1>13. CASE Close
  BY <1>13, ExitType DEF Close, TypeOK
<1>14. CASE RevisionLost \/ AttachmentLost \/ Stop
  BY <1>14, AbandonType DEF RevisionLost, AttachmentLost, Stop
<1>15. CASE UNCHANGED vars
  BY <1>15 DEF vars, TypeOK
<1>16. QED
  BY <1>1, <1>2, <1>3, <1>4, <1>5, <1>6, <1>7, <1>8, <1>9, <1>10, <1>11, <1>12,
     <1>13, <1>14, <1>15
  DEF Next, Database, Invoke, Dumping

LEMMA TypeCorrectInit == Init => TypeOK
<1>1. 0 \in Seqs
  BY BoundsAssumption DEF Seqs
<1>2. [last |-> 0, final |-> FALSE] \in [last : Seqs, final : BOOLEAN]
  BY <1>1
<1>3. <<>> \in Seq(Records) /\ 0 \in 0..Len(<<>>)
  OBVIOUS
<1>4. [d \in Docs |-> 0] \in [Docs -> Seqs]
      /\ [d \in Docs |-> {}] \in [Docs -> SUBSET Revs]
  BY <1>1
<1>5. SUFFICES ASSUME Init PROVE TypeOK
  OBVIOUS
<1>6. file \in Seq(Records) /\ closed \in 0..Len(file)
  BY <1>3, <1>5 DEF Init
<1>7. row \in [Docs -> Seqs] /\ leaves \in [Docs -> SUBSET Revs]
      /\ page \in [last : Seqs, final : BOOLEAN]
  BY <1>2, <1>4, <1>5 DEF Init
<1>8. QED
  BY <1>1, <1>5, <1>6, <1>7 DEF Init, TypeOK

(* The database, the file and the command keep the shape BackupDump gives
   them, whatever the bounds. *)
THEOREM TypeCorrect == Spec => []TypeOK
BY TypeCorrectInit, TypeStep, PTL DEF Spec

-----------------------------------------------------------------------------
(* The shape of the file.                                                  *)

(* Actions of the database leave the file and the command alone. *)
LEMMA DatabaseFrame ==
  Database => UNCHANGED <<file, closed, stub, pc, tomb, batch, lastSeq, page,
                          todo, docs, deleted, atts, runs, outcome, skipped>>
BY DEF Database, Write, CompactSource

(* What giving up leaves: a cut of the file that keeps its closed part. *)
LEMMA AbandonFile ==
  ASSUME TypeOK, NEW o, Abandon(o)
  PROVE  /\ pc' = "idle" /\ closed' = closed
         /\ lastSeq' = 0 /\ page'.last = 0 /\ runs' = runs
         /\ UNCHANGED <<source, skipped>>
         /\ file' \in Seq(Records)
         /\ Len(file') \in closed..Len(file)
         /\ \A i \in 1..Len(file') : file'[i] = file[i]
         /\ stub' => file' = <<>>
<1>1. PICK cut \in closed..Len(file) :
        /\ file' = SubSeq(file, 1, cut)
        /\ stub' = (cut = 0 /\ file # <<>>)
  BY DEF Abandon
<1>2. cut \in 0..Len(file)
  BY <1>1 DEF TypeOK
<1>3. file' \in Seq(Records) /\ Len(file') = cut
      /\ \A i \in 1..cut : file'[i] = file[i]
  BY <1>1, <1>2, CutType DEF TypeOK
<1>4. cut = 0 => file' = <<>>
  BY <1>3
<1>5. pc' = "idle" /\ closed' = closed /\ lastSeq' = 0 /\ page'.last = 0
      /\ runs' = runs /\ UNCHANGED <<source, skipped>>
  BY DEF Abandon, Exit
<1>6. QED
  BY <1>1, <1>3, <1>4, <1>5

(* An invocation that ends by giving up. *)
GiveUp == RevisionLost \/ AttachmentLost \/ Stop

LEMMA GiveUpIs == GiveUp => pc # "idle" /\ \E o : Abandon(o)
BY DEF GiveUp, RevisionLost, AttachmentLost, Stop

(* The step that --resume takes to go on, in terms of the file. *)
LEMMA ResumeFile ==
  ASSUME TypeOK, NEW flag \in BOOLEAN, NEW b \in Batches, NEW given \in Given,
         Resume(flag, b, given)
  PROVE  /\ file' \in Seq(Records) /\ Len(file') = closed /\ closed' = closed
         /\ \A i \in 1..closed : file'[i] = file[i]
         /\ file' = Closed
BY CutType DEF Resume, ScanOffset, Closed, TypeOK

(* What writing a body adds to the file. *)
LEMMA WriteBodyFile ==
  ASSUME TypeOK, NEW r \in Revs, WriteBody(r)
  PROVE  /\ file' \in Seq(Records) /\ Len(file') > Len(file)
         /\ \A i \in 1..Len(file) : file'[i] = file[i]
         /\ \A i \in (Len(file) + 1)..Len(file') : file'[i].kind \in {"doc", "att"}
         /\ r \notin hasAtt => file' = Append(file, DocRecord(r))
         /\ r \in hasAtt =>
              file' = Append(Append(file, DocRecord(r)), AttRecord(r))
<1> DEFINE x == DocRecord(r)
           y == AttRecord(r)
<1>1. x \in Records /\ x.kind = "doc" /\ y \in Records /\ y.kind = "att"
  BY RecordTypes
<1>2. file' = Append(file, x) \o (IF r \in hasAtt THEN <<y>> ELSE <<>>)
  BY DEF WriteBody
<1> HIDE DEF x, y
<1>3. file \in Seq(Records)
  BY DEF TypeOK
<1>4. CASE r \notin hasAtt
  <2>1. file' = Append(file, x)
    BY <1>1, <1>2, <1>3, <1>4
  <2>2. QED
    BY <1>1, <1>3, <1>4, <2>1 DEF x, y
<1>5. CASE r \in hasAtt
  <2>1. file' = Append(Append(file, x), y)
    BY <1>1, <1>2, <1>3, <1>5
  <2>2. QED
    BY <1>1, <1>3, <1>5, <2>1 DEF x, y
<1>6. QED
  BY <1>4, <1>5

(* The file keeps its shape. *)
LEMMA ShapeStep == TypeOK /\ Shape /\ [Next]_vars => Shape'
<1> SUFFICES ASSUME TypeOK, Shape, [Next]_vars PROVE Shape'
  OBVIOUS
<1>0. TypeOK'
  BY TypeStep
<1>1. CASE Database
  BY <1>1, DatabaseFrame DEF Shape, Checkpoint, Footer
<1>2. ASSUME NEW flag \in BOOLEAN, ResumeRefused(flag) PROVE Shape'
  BY <1>2 DEF ResumeRefused, Shape, dump, counts, Checkpoint, Footer, TypeOK
<1>3. ASSUME NEW flag \in BOOLEAN, NEW b \in Batches, NEW given \in Given,
             Start(flag, b, given)
      PROVE  Shape'
  BY <1>3 DEF Start, Shape, dump
<1>4. ASSUME NEW flag \in BOOLEAN, NEW b \in Batches, NEW given \in Given,
             Resume(flag, b, given)
      PROVE  Shape'
  <2>1. /\ file' \in Seq(Records) /\ Len(file') = closed /\ closed' = closed
        /\ \A i \in 1..closed : file'[i] = file[i]
        /\ Closed \in Seq(Records) /\ Len(Closed) = closed
        /\ \A i \in 1..closed : Closed[i] = file[i]
    BY <1>4, ResumeFile, ScanType
  <2>2. \A i \in 1..closed : file[i].kind # "footer"
    BY <1>4, <2>1 DEF Resume, ScanComplete, At
  <2>3. closed > 0 => file[1].tomb = flag
    BY <1>4 DEF Resume, WrongMode, ScanOffset
  <2>4. closed \in Nat /\ closed =< Len(file) /\ Len(file) \in Nat
    BY DEF TypeOK
  <2>5. stub' = FALSE
    BY <1>4 DEF Resume, NotADump, TypeOK
  <2>6. pc' = (IF closed = 0 THEN "header" ELSE "page") /\ tomb' = flag /\ runs' # 0
    BY <1>4 DEF Resume, ScanOffset, TypeOK
  <2>7. closed = 0 => file' = <<>>
    BY <2>1
  <2>8. file' # <<>> => closed > 0
    BY <2>1, <2>4
  <2>9. QED
    BY <2>1, <2>2, <2>3, <2>4, <2>5, <2>6, <2>7, <2>8 DEF Shape
<1>5. CASE WriteHeader
  <2>1. file = <<>> /\ Header(tomb) \in Records /\ Header(tomb).kind = "header"
    BY <1>5, RecordTypes DEF WriteHeader, Shape, TypeOK
  <2>2. file' = <<Header(tomb)>>
    BY <1>5, <2>1 DEF WriteHeader
  <2>3. Len(file') = 1 /\ file'[1] = Header(tomb) /\ file' # <<>>
    BY <2>2
  <2>4. Header(tomb).tomb = tomb
    BY DEF Header
  <2>5. pc' = "page" /\ tomb' = tomb /\ stub' = stub /\ runs' = runs /\ closed' = closed
    BY <1>5 DEF WriteHeader
  <2>6. ~stub /\ runs # 0
    BY <1>5 DEF WriteHeader, Shape, TypeOK
  <2>7. QED
    BY <2>1, <2>3, <2>4, <2>5, <2>6 DEF Shape
<1>6. CASE ReadChanges
  <2>1. pc' \in {"footer", "fetch"} /\ pc = "page"
        /\ UNCHANGED <<file, closed, stub, tomb, runs>>
    BY <1>6 DEF ReadChanges, dump
  <2>2. QED
    BY <2>1 DEF Shape
<1>7. CASE FetchBodies
  BY <1>7 DEF FetchBodies, Shape, dump
<1>8. ASSUME NEW r \in Revs, WriteBody(r) PROVE Shape'
  <2>1. /\ file' \in Seq(Records) /\ Len(file') > Len(file)
        /\ \A i \in 1..Len(file) : file'[i] = file[i]
        /\ \A i \in (Len(file) + 1)..Len(file') : file'[i].kind \in {"doc", "att"}
    BY <1>8, WriteBodyFile
  <2>2. pc = "write" /\ UNCHANGED <<pc, closed, stub, tomb, runs>>
    BY <1>8 DEF WriteBody
  <2>3. file # <<>> /\ file[1].kind = "header" /\ file[1].tomb = tomb /\ ~stub
    BY <2>2 DEF Shape
  <2>4. Len(file) > 0 /\ Len(file) \in Nat /\ Len(file') \in Nat
    BY <2>1, <2>3 DEF TypeOK
  <2>5. \A i \in 1..Len(file) : file[i].kind # "footer"
                                /\ (file[i].kind = "checkpoint" => i =< closed)
    BY <2>2 DEF Shape
  <2>6. file' # <<>> /\ file'[1] = file[1]
    BY <2>1, <2>4
  <2>7. \A i \in 2..Len(file') : file'[i].kind # "header"
    BY <2>1, <2>4 DEF Shape
  <2>8. \A i \in 1..Len(file') : file'[i].kind # "footer"
                                 /\ (file'[i].kind = "checkpoint" => i =< closed)
    BY <2>1, <2>4, <2>5
  <2>9. runs # 0
    BY <2>3 DEF Shape
  <2>10. QED
    BY <2>2, <2>3, <2>6, <2>7, <2>8, <2>9 DEF Shape
<1>9. CASE WriteCheckpoint
  <2> DEFINE x == Checkpoint(page.last)
  <2>1. x \in Records /\ x.kind = "checkpoint"
    BY RecordTypes DEF TypeOK
  <2>2. file' = Append(file, x) /\ lastSeq' = page.last /\ pc' = "seal"
        /\ pc = "write" /\ UNCHANGED <<closed, stub, tomb, runs>>
    BY <1>9 DEF WriteCheckpoint
  <2>3. x = Checkpoint(lastSeq')
    BY <2>2
  <2> HIDE DEF x
  <2>4. /\ Len(file') = Len(file) + 1 /\ file'[Len(file')] = x
        /\ \A i \in 1..Len(file) : file'[i] = file[i]
        /\ Len(file) \in Nat /\ closed =< Len(file)
    BY <2>1, <2>2 DEF TypeOK
  <2>5. file # <<>> /\ file[1].kind = "header" /\ file[1].tomb = tomb /\ ~stub
        /\ runs # 0 /\ Len(file) > 0
    BY <2>2, <2>4 DEF Shape, TypeOK
  <2>6. \A i \in 1..Len(file) : file[i].kind # "footer"
                                /\ (file[i].kind = "checkpoint" => i =< closed)
    BY <2>2 DEF Shape
  <2>7. file' # <<>> /\ file'[1] = file[1]
    BY <2>4, <2>5
  <2>8. \A i \in 2..Len(file') : file'[i].kind # "header"
    BY <2>1, <2>4 DEF Shape
  <2>9. \A i \in 1..Len(file') :
           /\ file'[i].kind # "footer"
           /\ file'[i].kind = "checkpoint" => i =< closed \/ i = Len(file')
    BY <2>1, <2>4, <2>6
  <2>10. Len(file') > closed /\ file'[Len(file')] = Checkpoint(lastSeq')
    BY <2>3, <2>4 DEF TypeOK
  <2>11. pc' = "seal" /\ UNCHANGED <<closed, stub, tomb, runs>> /\ ~stub /\ runs # 0
         /\ file'[1].kind = "header" /\ file'[1].tomb = tomb /\ file' # <<>>
    BY <2>2, <2>5, <2>7
  <2>12. QED
    BY <2>8, <2>9, <2>10, <2>11 DEF Shape
<1>10. CASE CloseMember
  <2>1. pc = "seal" /\ closed' = Len(file) /\ pc' \in {"footer", "page"}
        /\ UNCHANGED <<file, stub, tomb, runs>>
    BY <1>10 DEF CloseMember
  <2>2. QED
    BY <2>1 DEF Shape
<1>11. CASE WriteFooter
  <2> DEFINE x == Footer(docs, deleted, atts, lastSeq)
  <2>1. x \in Records /\ x.kind = "footer"
    BY FooterType, SMTT(30) DEF TypeOK
  <2>2. file' = Append(file, x) /\ pc' = "close" /\ pc = "footer"
        /\ UNCHANGED <<closed, stub, tomb, runs, lastSeq, docs, deleted, atts>>
    BY <1>11 DEF WriteFooter, counts
  <2>3. x = Footer(docs', deleted', atts', lastSeq')
    BY <2>2
  <2> HIDE DEF x
  <2>4. /\ Len(file') = Len(file) + 1 /\ file'[Len(file')] = x
        /\ \A i \in 1..Len(file) : file'[i] = file[i]
        /\ Len(file) \in Nat /\ closed =< Len(file)
    BY <2>1, <2>2 DEF TypeOK
  <2>5. file # <<>> /\ file[1].kind = "header" /\ file[1].tomb = tomb /\ ~stub
        /\ runs # 0 /\ Len(file) > 0
    BY <2>2, <2>4 DEF Shape, TypeOK
  <2>6. \A i \in 1..Len(file) : file[i].kind # "footer"
                                /\ (file[i].kind = "checkpoint" => i =< closed)
    BY <2>2 DEF Shape
  <2>7. file' # <<>> /\ file'[1] = file[1]
    BY <2>4, <2>5
  <2>8. \A i \in 2..Len(file') : file'[i].kind # "header"
    BY <2>1, <2>4 DEF Shape
  <2>9. ASSUME NEW i \in 1..Len(file')
        PROVE  /\ file'[i].kind = "footer" => i = Len(file') /\ i > closed
               /\ file'[i].kind = "checkpoint" => i =< closed
    <3>1. CASE i \in 1..Len(file)
      <4>1. file'[i] = file[i] /\ file[i].kind # "footer"
        BY <2>4, <2>6, <3>1
      <4>2. file[i].kind = "checkpoint" => i =< closed
        BY <2>6, <3>1
      <4>3. QED
        BY <4>1, <4>2
    <3>2. CASE i = Len(file')
      BY <2>1, <2>4, <3>2 DEF TypeOK
    <3>3. QED
      BY <2>4, <3>1, <3>2
  <2>10. Len(file') > closed /\ file'[Len(file')] = Footer(docs', deleted', atts', lastSeq')
    BY <2>3, <2>4 DEF TypeOK
  <2>11. pc' = "close" /\ UNCHANGED <<closed, stub, tomb, runs>> /\ ~stub /\ runs # 0
         /\ file'[1].kind = "header" /\ file'[1].tomb = tomb /\ file' # <<>>
    BY <2>2, <2>5, <2>7
  <2>12. QED
    BY <2>8, <2>9, <2>10, <2>11 DEF Shape
<1>12. CASE Close
  BY <1>12 DEF Close, Exit, Shape, Checkpoint, Footer
<1>13. CASE GiveUp
  <2>1. PICK o : Abandon(o)
    BY <1>13, GiveUpIs
  <2>2. runs' # 0 /\ pc' = "idle"
    BY <1>13, <2>1, GiveUpIs, AbandonFile DEF Shape
  <2>3. /\ file' \in Seq(Records) /\ Len(file') \in closed..Len(file)
        /\ \A i \in 1..Len(file') : file'[i] = file[i]
        /\ stub' => file' = <<>>
    BY <2>1, AbandonFile
  <2>4. Len(file) \in Nat /\ Len(file') \in Nat /\ Len(file') =< Len(file)
    BY <2>3 DEF TypeOK
  <2>5. file' # <<>> => file # <<>> /\ file'[1] = file[1] /\ Len(file') > 0
    BY <2>3, <2>4
  <2>6. QED
    BY <2>2, <2>3, <2>4, <2>5 DEF Shape
<1>14. CASE UNCHANGED vars
  BY <1>14 DEF vars, Shape, Checkpoint, Footer
<1>15. QED
  BY <1>1, <1>2, <1>3, <1>4, <1>5, <1>6, <1>7, <1>8, <1>9, <1>10, <1>11, <1>12,
     <1>13, <1>14
  DEF Next, Invoke, Dumping, GiveUp

-----------------------------------------------------------------------------
(* Bounds, counters and the footer.                                        *)

(* No sequence is ahead of the database. *)
LEMMA BoundedStep == TypeOK /\ Shape /\ Bounded /\ [Next]_vars => Bounded'
<1> SUFFICES ASSUME TypeOK, Shape, Bounded, [Next]_vars PROVE Bounded'
  OBVIOUS
<1>0. TypeOK'
  BY TypeStep
<1>1. ASSUME NEW d \in Docs, NEW base \in Seqs, NEW del \in BOOLEAN,
             NEW att \in BOOLEAN, Write(d, base, del, att)
      PROVE  Bounded'
  <2>1. upd \in Nat /\ upd' = upd + 1
    BY <1>1, BoundsAssumption DEF Write, TypeOK, Seqs
  <2>2. \A e \in Docs : row'[e] =< upd' /\ leaves'[e] \subseteq 1..upd'
    <3> TAKE e \in Docs
    <3>1. CASE e = d
      BY <1>1, <2>1, <3>1 DEF Write, TypeOK, Bounded
    <3>2. CASE e # d
      <4>1. row'[e] = row[e] /\ leaves'[e] = leaves[e]
        BY <1>1, <3>2 DEF Write, TypeOK
      <4>2. row[e] \in Nat
        BY BoundsAssumption DEF TypeOK, Seqs
      <4>3. QED
        BY <2>1, <4>1, <4>2 DEF Bounded
    <3>3. QED
      BY <3>1, <3>2
  <2>3. dead' \subseteq 1..upd' /\ hasAtt' \subseteq 1..upd'
    BY <1>1, <2>1 DEF Write, Bounded
  <2>4. \A i \in 1..Len(file) :
          file[i].kind \in {"checkpoint", "footer"} => file[i].seq =< upd'
    <3> TAKE i \in 1..Len(file)
    <3>1. file[i] \in Records
      BY DEF TypeOK
    <3>2. file[i].kind \in {"checkpoint", "footer"} => file[i].seq \in Nat
      BY <3>1, RecordFields, BoundsAssumption DEF Seqs
    <3>3. QED
      BY <2>1, <3>2 DEF Bounded
  <2>5. lastSeq =< upd' /\ page.last =< upd'
    BY <2>1, BoundsAssumption DEF Bounded, TypeOK, Seqs
  <2>6. UNCHANGED <<file, lastSeq, page>>
    BY <1>1 DEF Write
  <2>7. QED
    BY <2>2, <2>3, <2>4, <2>5, <2>6 DEF Bounded
<1>2. CASE CompactSource
  BY <1>2 DEF CompactSource, Bounded
<1>3. ASSUME NEW flag \in BOOLEAN, ResumeRefused(flag) PROVE Bounded'
  BY <1>3 DEF ResumeRefused, Bounded, source, dump
<1>4. ASSUME NEW flag \in BOOLEAN, NEW b \in Batches, NEW given \in Given,
             Start(flag, b, given)
      PROVE  Bounded'
  <2>1. 0 \in Seqs /\ 0 =< upd
    BY BoundsAssumption DEF Seqs, TypeOK
  <2>2. SinceOr(given, 0) =< upd
    BY <2>1, GivenType
  <2>3. QED
    BY <1>4, <2>2 DEF Start, Bounded, source, dump
<1>5. ASSUME NEW flag \in BOOLEAN, NEW b \in Batches, NEW given \in Given,
             Resume(flag, b, given)
      PROVE  Bounded'
  <2>1. /\ file' \in Seq(Records) /\ Len(file') = closed /\ closed \in 0..Len(file)
        /\ \A i \in 1..closed : file'[i] = file[i]
    BY <1>5, ResumeFile DEF TypeOK
  <2>2. ScanSeq =< upd
    <3>1. Closed \in Seq(Records) /\ Len(Closed) = closed
          /\ \A i \in 1..closed : Closed[i] = file[i]
      BY ScanType
    <3>2. \/ ScanSeq = 0
          \/ \E i \in 1..closed : /\ Closed[i].kind \in {"checkpoint"}
                                  /\ ScanSeq = Closed[i].seq
      BY <3>1, LastSeqOfIs DEF ScanSeq
    <3>3. 0 =< upd
      BY BoundsAssumption DEF TypeOK, Seqs
    <3>4. QED
      BY <2>1, <3>1, <3>2, <3>3 DEF Bounded
  <2>3. lastSeq' =< upd
    BY <1>5, <2>2, GivenType, ScanType DEF Resume
  <2>4. UNCHANGED <<upd, row, leaves, dead, hasAtt, page>>
    BY <1>5 DEF Resume, source
  <2>5. QED
    BY <2>1, <2>3, <2>4 DEF Bounded
<1>6. CASE WriteHeader
  <2>1. Header(tomb) \in Records /\ Header(tomb).kind = "header"
    BY RecordTypes DEF TypeOK
  <2>2. file' = Append(file, Header(tomb))
        /\ UNCHANGED <<upd, row, leaves, dead, hasAtt, page, lastSeq>>
    BY <1>6 DEF WriteHeader, source
  <2>3. QED
    BY <2>1, <2>2 DEF Bounded, TypeOK
<1>7. CASE ReadChanges
  <2>1. PICK ds \in SUBSET Docs, last \in Seqs :
          /\ IsPage(ds, last, lastSeq, batch)
          /\ IF ds = {}
             THEN lastSeq' = last /\ UNCHANGED page
             ELSE page'.last = last /\ UNCHANGED lastSeq
    BY <1>7 DEF ReadChanges
  <2>2. last =< upd
    BY <2>1, BoundsAssumption DEF IsPage, Bounded, TypeOK, Seqs
  <2>3. UNCHANGED <<upd, row, leaves, dead, hasAtt, file>>
    BY <1>7 DEF ReadChanges, source, dump
  <2>4. QED
    BY <2>1, <2>2, <2>3 DEF Bounded
<1>8. CASE FetchBodies
  BY <1>8 DEF FetchBodies, Bounded, source, dump
<1>9. ASSUME NEW r \in Revs, WriteBody(r) PROVE Bounded'
  <2>1. /\ file' \in Seq(Records) /\ Len(file') > Len(file)
        /\ \A i \in 1..Len(file) : file'[i] = file[i]
        /\ \A i \in (Len(file) + 1)..Len(file') : file'[i].kind \in {"doc", "att"}
        /\ Len(file) \in Nat /\ Len(file') \in Nat
    BY <1>9, WriteBodyFile DEF TypeOK
  <2>2. UNCHANGED <<upd, row, leaves, dead, hasAtt, page, lastSeq>>
    BY <1>9 DEF WriteBody, source
  <2>3. \A i \in 1..Len(file') :
          file'[i].kind \in {"checkpoint", "footer"} => file'[i].seq =< upd
    BY <2>1 DEF Bounded
  <2>4. QED
    BY <2>2, <2>3 DEF Bounded
<1>10. CASE WriteCheckpoint
  <2>1. Checkpoint(page.last) \in Records /\ Checkpoint(page.last).seq = page.last
    BY RecordTypes DEF TypeOK, Checkpoint
  <2>2. file' = Append(file, Checkpoint(page.last)) /\ lastSeq' = page.last
        /\ UNCHANGED <<upd, row, leaves, dead, hasAtt, page>>
    BY <1>10 DEF WriteCheckpoint, source
  <2>3. QED
    BY <2>1, <2>2 DEF Bounded, TypeOK
<1>11. CASE CloseMember
  BY <1>11 DEF CloseMember, Bounded, source
<1>12. CASE WriteFooter
  <2> DEFINE x == Footer(docs, deleted, atts, lastSeq)
  <2>1. x \in Records /\ x.seq = lastSeq
    BY FooterType DEF TypeOK, Footer
  <2>2. file' = Append(file, x)
        /\ UNCHANGED <<upd, row, leaves, dead, hasAtt, page, lastSeq>>
    BY <1>12 DEF WriteFooter, source
  <2> HIDE DEF x
  <2>3. QED
    BY <2>1, <2>2 DEF Bounded, TypeOK
<1>13. CASE Close
  <2>1. 0 =< upd
    BY BoundsAssumption DEF TypeOK, Seqs
  <2>2. lastSeq' = 0 /\ page'.last = 0
        /\ UNCHANGED <<upd, row, leaves, dead, hasAtt, file>>
    BY <1>13 DEF Close, Exit, source
  <2>3. QED
    BY <2>1, <2>2 DEF Bounded
<1>14. CASE GiveUp
  <2>1. PICK o : Abandon(o)
    BY <1>14, GiveUpIs
  <2>2. 0 =< upd
    BY BoundsAssumption DEF TypeOK, Seqs
  <2>3. /\ lastSeq' = 0 /\ page'.last = 0
        /\ Len(file') \in closed..Len(file)
        /\ \A i \in 1..Len(file') : file'[i] = file[i]
        /\ UNCHANGED <<upd, row, leaves, dead, hasAtt>>
    BY <2>1, AbandonFile DEF source
  <2>4. QED
    BY <2>2, <2>3 DEF Bounded, TypeOK
<1>15. CASE UNCHANGED vars
  BY <1>15 DEF vars, Bounded
<1>16. QED
  BY <1>1, <1>2, <1>3, <1>4, <1>5, <1>6, <1>7, <1>8, <1>9, <1>10, <1>11, <1>12,
     <1>13, <1>14, <1>15
  DEF Next, Database, Invoke, Dumping, GiveUp

(* A record counts once, under its kind. *)
LEMMA CountAppend ==
  ASSUME NEW recs \in Seq(Records), NEW x \in Records, NEW k
  PROVE  Cardinality(At(Append(recs, x), k)) =
           Cardinality(At(recs, k)) + (IF x.kind = k THEN 1 ELSE 0)
<1>1. IsFiniteSet(At(recs, k)) /\ Cardinality(At(recs, k)) \in Nat
  BY AtFinite
<1>2. CASE x.kind = k
  <2>1. At(Append(recs, x), k) = At(recs, k) \cup {Len(recs) + 1}
        /\ Len(recs) + 1 \notin At(recs, k)
    BY <1>2, AtAppend
  <2>2. QED
    BY <1>1, <1>2, <2>1, FS_AddElement, ZenonT(60)
<1>3. CASE x.kind # k
  BY <1>1, <1>3, AtAppend
<1>4. QED
  BY <1>2, <1>3

LEMMA CountTombstones ==
  ASSUME NEW recs \in Seq(Records), NEW x \in Records
  PROVE  Cardinality(Tombstones(Append(recs, x))) =
           Cardinality(Tombstones(recs))
             + (IF x.kind = "doc" /\ x.dead THEN 1 ELSE 0)
<1>1. IsFiniteSet(Tombstones(recs)) /\ Cardinality(Tombstones(recs)) \in Nat
  BY TombstonesFinite
<1>2. \A i \in 1..Len(recs) : Append(recs, x)[i] = recs[i]
  OBVIOUS
<1>3. Append(recs, x)[Len(recs) + 1] = x
  OBVIOUS
<1>4. At(recs, "doc") \subseteq 1..Len(recs) /\ Len(recs) \in Nat
  BY DEF At
<1>5. CASE x.kind = "doc" /\ x.dead
  <2>1. Tombstones(Append(recs, x)) = Tombstones(recs) \cup {Len(recs) + 1}
        /\ Len(recs) + 1 \notin Tombstones(recs)
    BY <1>2, <1>3, <1>4, <1>5, AtAppend DEF Tombstones
  <2>2. QED
    BY <1>1, <1>5, <2>1, FS_AddElement
<1>6. CASE ~ (x.kind = "doc" /\ x.dead)
  <2>1. Tombstones(Append(recs, x)) = Tombstones(recs)
    BY <1>2, <1>3, <1>4, <1>6, AtAppend DEF Tombstones
  <2>2. QED
    BY <1>1, <1>6, <2>1
<1>7. QED
  BY <1>5, <1>6

(* Only documents and attachments count. *)
LEMMA CountSame ==
  ASSUME NEW recs \in Seq(Records), NEW x \in Records, x.kind \notin {"doc", "att"}
  PROVE  /\ Cardinality(At(Append(recs, x), "doc")) = Cardinality(At(recs, "doc"))
         /\ Cardinality(At(Append(recs, x), "att")) = Cardinality(At(recs, "att"))
         /\ Cardinality(Tombstones(Append(recs, x))) = Cardinality(Tombstones(recs))
BY CountAppend, CountTombstones, AtFinite, TombstonesFinite

(* The counters follow the records. *)
LEMMA CountedStep == TypeOK /\ Shape /\ Counted /\ [Next]_vars => Counted'
<1> SUFFICES ASSUME TypeOK, Shape, Counted, [Next]_vars PROVE Counted'
  OBVIOUS
<1>1. CASE Database
  BY <1>1, DatabaseFrame DEF Counted, Tombstones, At
<1>2. ASSUME NEW flag \in BOOLEAN, ResumeRefused(flag) PROVE Counted'
  BY <1>2 DEF ResumeRefused, Counted, counts
<1>3. ASSUME NEW flag \in BOOLEAN, NEW b \in Batches, NEW given \in Given,
             Start(flag, b, given)
      PROVE  Counted'
  <2>1. file' = <<>> /\ docs' = 0 /\ deleted' = 0 /\ atts' = 0 /\ pc' # "idle"
    BY <1>3 DEF Start, Counted, Shape, dump, counts
  <2>2. (\A k : At(<<>>, k) = {}) /\ Tombstones(<<>>) = {}
    BY DEF At, Tombstones
  <2>3. QED
    BY <2>1, <2>2, FS_EmptySet DEF Counted
<1>4. ASSUME NEW flag \in BOOLEAN, NEW b \in Batches, NEW given \in Given,
             Resume(flag, b, given)
      PROVE  Counted'
  <2>1. file' = Closed
    BY <1>4, ResumeFile
  <2>2. docs' = Cardinality(At(Closed, "doc")) /\ pc' # "idle"
        /\ deleted' = Cardinality(Tombstones(Closed))
        /\ atts' = Cardinality(At(Closed, "att"))
    BY <1>4 DEF Resume, ScanDocs, ScanDeleted, ScanAtts
  <2>3. QED
    BY <2>1, <2>2 DEF Counted
<1>5. CASE WriteHeader
  <2>1. Header(tomb) \in Records /\ Header(tomb).kind = "header"
    BY RecordTypes DEF TypeOK
  <2>2. file' = Append(file, Header(tomb)) /\ pc # "idle" /\ pc' # "idle"
        /\ UNCHANGED <<docs, deleted, atts>>
    BY <1>5 DEF WriteHeader, counts
  <2>3. QED
    BY <2>1, <2>2, CountSame DEF Counted, TypeOK
<1>6. CASE ReadChanges
  <2>1. pc # "idle" /\ pc' # "idle" /\ UNCHANGED <<file, docs, deleted, atts>>
    BY <1>6 DEF ReadChanges, counts, dump
  <2>2. QED
    BY <2>1 DEF Counted
<1>7. CASE FetchBodies
  BY <1>7 DEF FetchBodies, Counted, counts, dump
<1>8. ASSUME NEW r \in Revs, WriteBody(r) PROVE Counted'
  <2> DEFINE x == DocRecord(r)
             y == AttRecord(r)
  <2>1. x \in Records /\ x.kind = "doc" /\ y \in Records /\ y.kind = "att"
        /\ (x.dead <=> r \in dead)
    BY RecordTypes DEF DocRecord
  <2>2. /\ r \notin hasAtt => file' = Append(file, x)
        /\ r \in hasAtt => file' = Append(Append(file, x), y)
    BY <1>8, WriteBodyFile
  <2>3. /\ pc # "idle" /\ pc' # "idle"
        /\ docs' = docs + 1
        /\ deleted' = (IF r \in dead THEN deleted + 1 ELSE deleted)
        /\ atts' = (IF r \in hasAtt THEN atts + 1 ELSE atts)
    BY <1>8 DEF WriteBody
  <2> HIDE DEF x, y
  <2>4. file \in Seq(Records) /\ Append(file, x) \in Seq(Records)
    BY <2>1 DEF TypeOK
  <2>5. /\ Cardinality(At(Append(file, x), "doc")) = docs'
        /\ Cardinality(Tombstones(Append(file, x))) = deleted'
        /\ Cardinality(At(Append(file, x), "att")) = atts
    BY <2>1, <2>3, <2>4, CountAppend, CountTombstones DEF Counted, TypeOK
  <2>6. /\ Cardinality(At(Append(Append(file, x), y), "doc")) = docs'
        /\ Cardinality(Tombstones(Append(Append(file, x), y))) = deleted'
        /\ Cardinality(At(Append(Append(file, x), y), "att")) = atts + 1
    <3> DEFINE z == Append(file, x)
    <3>1. z \in Seq(Records) /\ Cardinality(At(z, "doc")) = docs'
          /\ Cardinality(Tombstones(z)) = deleted' /\ Cardinality(At(z, "att")) = atts
      BY <2>4, <2>5
    <3>2. deleted' \in Nat /\ docs' \in Nat /\ atts \in Nat
      BY <2>3 DEF TypeOK
    <3> HIDE DEF z
    <3>3. Cardinality(At(Append(z, y), "doc")) = docs'
      BY <2>1, <3>1, <3>2, CountAppend
    <3>4. Cardinality(At(Append(z, y), "att")) = atts + 1
      BY <2>1, <3>1, <3>2, CountAppend
    <3>5. Cardinality(Tombstones(Append(z, y))) = deleted'
      BY <2>1, <3>1, <3>2, CountTombstones
    <3>6. QED
      BY <3>3, <3>4, <3>5 DEF z
  <2>7. QED
    BY <2>2, <2>3, <2>5, <2>6 DEF Counted
<1>9. CASE WriteCheckpoint
  <2>1. Checkpoint(page.last) \in Records /\ Checkpoint(page.last).kind = "checkpoint"
    BY RecordTypes DEF TypeOK
  <2>2. file' = Append(file, Checkpoint(page.last)) /\ pc # "idle" /\ pc' # "idle"
        /\ UNCHANGED <<docs, deleted, atts>>
    BY <1>9 DEF WriteCheckpoint, counts
  <2>3. QED
    BY <2>1, <2>2, CountSame DEF Counted, TypeOK
<1>10. CASE CloseMember
  BY <1>10 DEF CloseMember, Counted, counts
<1>11. CASE WriteFooter
  <2> DEFINE x == Footer(docs, deleted, atts, lastSeq)
  <2>1. x \in Records /\ x.kind = "footer"
    BY FooterType, SMTT(30) DEF TypeOK
  <2>2. file' = Append(file, x) /\ pc # "idle" /\ pc' # "idle"
        /\ UNCHANGED <<docs, deleted, atts>>
    BY <1>11 DEF WriteFooter, counts
  <2> HIDE DEF x
  <2>3. QED
    BY <2>1, <2>2, CountSame DEF Counted, TypeOK
<1>12. CASE Close
  BY <1>12 DEF Close, Exit, Counted
<1>13. CASE GiveUp
  BY <1>13 DEF GiveUp, RevisionLost, AttachmentLost, Stop, Abandon, Exit, Counted
<1>14. CASE UNCHANGED vars
  BY <1>14 DEF vars, Counted
<1>15. QED
  BY <1>1, <1>2, <1>3, <1>4, <1>5, <1>6, <1>7, <1>8, <1>9, <1>10, <1>11, <1>12,
     <1>13, <1>14
  DEF Next, Invoke, Dumping, GiveUp

(* A footer ends the file and tells the truth. *)
LEMMA FooterStep ==
  TypeOK /\ Shape /\ Counted /\ FooterIsTrue /\ [Next]_vars => FooterIsTrue'
<1> SUFFICES ASSUME TypeOK, Shape, Counted, FooterIsTrue, [Next]_vars
             PROVE  FooterIsTrue'
  OBVIOUS
<1>1. Shape' /\ TypeOK'
  BY ShapeStep, TypeStep
<1>2. CASE pc' \notin {"idle", "close"}
  <2>1. At(file', "footer") = {}
    BY <1>1, <1>2 DEF Shape, At
  <2>2. QED
    BY <2>1 DEF FooterIsTrue
<1>3. CASE file' = file
  BY <1>3 DEF FooterIsTrue, TrueTotals, Tombstones, At
<1>4. CASE WriteFooter
  <2> DEFINE x == Footer(docs, deleted, atts, lastSeq)
  <2>1. x \in Records /\ x.kind = "footer"
        /\ x.docs = docs /\ x.deleted = deleted /\ x.atts = atts
    BY FooterType DEF TypeOK, Footer
  <2>2. file' = Append(file, x) /\ pc # "idle"
    BY <1>4 DEF WriteFooter
  <2> HIDE DEF x
  <2>3. \A i \in At(file', "footer") : i = Len(file')
    BY <1>1 DEF Shape, At
  <2>4. file'[Len(file')] = x
    BY <2>1, <2>2 DEF TypeOK
  <2>5. TrueTotals(file', x)
    BY <2>1, <2>2, CountSame DEF Counted, TrueTotals, TypeOK
  <2>6. ASSUME NEW i \in At(file', "footer")
        PROVE  i = Len(file') /\ TrueTotals(file', file'[i])
    BY <2>3, <2>4, <2>5, <2>6
  <2>7. FooterIsTrue' <=> \A i \in At(file', "footer") :
                            i = Len(file') /\ TrueTotals(file', file'[i])
    BY DEF FooterIsTrue, TrueTotals, Tombstones, At
  <2>8. QED
    BY <2>6, <2>7
<1>5. CASE GiveUp
  <2>1. /\ file' \in Seq(Records) /\ Len(file') \in closed..Len(file)
        /\ \A i \in 1..Len(file') : file'[i] = file[i]
    BY <1>5, GiveUpIs, AbandonFile
  <2>2. CASE At(file', "footer") = {}
    BY <2>2 DEF FooterIsTrue
  <2>3. CASE At(file', "footer") # {}
    <3>1. PICK i \in At(file', "footer") : TRUE
      BY <2>3
    <3>2. i \in 1..Len(file') /\ file'[i].kind = "footer"
      BY <3>1 DEF At
    <3>3. i \in 1..Len(file) /\ file[i].kind = "footer"
      BY <2>1, <3>2 DEF TypeOK
    <3>4. i = Len(file)
      BY <3>3 DEF Shape
    <3>5. Len(file') = Len(file)
      BY <2>1, <3>2, <3>4 DEF TypeOK
    <3>6. file' = file
      BY <2>1, <3>5 DEF TypeOK
    <3>7. QED
      BY <1>3, <3>6
  <2>4. QED
    BY <2>2, <2>3
<1>6. CASE Database \/ Close \/ UNCHANGED vars
  <2>1. file' = file
    BY <1>6, DatabaseFrame DEF Close, vars
  <2>2. QED
    BY <1>3, <2>1
<1>7. CASE Invoke
  <2>1. file' = file \/ pc' \notin {"idle", "close"}
    BY <1>7 DEF Invoke, ResumeRefused, Start, Resume, dump
  <2>2. QED
    BY <1>2, <1>3, <2>1
<1>8. CASE WriteHeader \/ ReadChanges \/ FetchBodies \/ WriteCheckpoint
           \/ CloseMember \/ \E r \in Revs : WriteBody(r)
  <2>1. pc' \notin {"idle", "close"}
    BY <1>8 DEF WriteHeader, ReadChanges, FetchBodies, WriteCheckpoint,
                CloseMember, WriteBody
  <2>2. QED
    BY <1>2, <2>1
<1>9. QED
  BY <1>4, <1>5, <1>6, <1>7, <1>8 DEF Next, Dumping, GiveUp

(* The invariant of the file itself. *)
FileInv == TypeOK /\ Shape /\ Bounded /\ Counted /\ FooterIsTrue

THEOREM FileCorrect == Spec => []FileInv
<1>1. Init => FileInv
  <2>1. ASSUME Init PROVE TypeOK
    BY <2>1, TypeCorrectInit
  <2>2. ASSUME Init PROVE Shape /\ Bounded /\ Counted /\ FooterIsTrue
    BY <2>2, BoundsAssumption
    DEF Init, Shape, Bounded, Counted, FooterIsTrue, At, Seqs
  <2>3. QED
    BY <2>1, <2>2 DEF FileInv
<1>2. FileInv /\ [Next]_vars => FileInv'
  BY TypeStep, ShapeStep, BoundedStep, CountedStep, FooterStep DEF FileInv
<1>3. QED
  BY <1>1, <1>2, PTL DEF Spec

(* Restore can trust a footer: it ends the file and counts every record that
   any of the invocations wrote before it. *)
THEOREM FooterCorrect == Spec => []FooterIsTrue
<1>1. FileInv => FooterIsTrue
  BY DEF FileInv
<1>2. QED
  BY <1>1, FileCorrect, PTL

-----------------------------------------------------------------------------
(* No document is missed.                                                  *)

(* What is saved stays saved as the file grows. *)
LEMMA SavedGrows ==
  ASSUME NEW a \in Seq(Records), NEW b \in Seq(Records), Len(a) =< Len(b),
         \A i \in 1..Len(a) : b[i] = a[i]
  PROVE  Saved(a) \subseteq Saved(b)
<1>1. \A k : At(a, k) \subseteq At(b, k) /\ \A i \in At(a, k) : b[i] = a[i]
  BY DEF At
<1>2. QED
  BY <1>1 DEF Saved

(* The sequence a dump speaks for is one the database has reached, and a dump
   that speaks for one has records. *)
LEMMA ThroughBound ==
  ASSUME TypeOK, Bounded
  PROVE  Through \in Nat /\ Through =< upd /\ (Through > 0 => closed > 0)
<1>1. Closed \in Seq(Records) /\ Len(Closed) = closed
      /\ \A i \in 1..closed : Closed[i] = file[i]
  BY ScanType
<1>2. \/ Through = 0
      \/ \E i \in 1..closed : /\ Closed[i].kind \in {"checkpoint", "footer"}
                              /\ Through = Closed[i].seq
  BY <1>1, LastSeqOfIs DEF Through
<1>3. closed \in 0..Len(file) /\ Len(file) \in Nat /\ upd \in Nat
  BY BoundsAssumption DEF TypeOK, Seqs
<1>4. Through \in Nat
  BY ScanType, BoundsAssumption DEF Seqs
<1>5. CASE Through = 0
  BY <1>3, <1>5
<1>6. CASE Through # 0
  <2>1. PICK i \in 1..closed : /\ Closed[i].kind \in {"checkpoint", "footer"}
                               /\ Through = Closed[i].seq
    BY <1>2, <1>6
  <2>2. file[i].kind \in {"checkpoint", "footer"} /\ Through = file[i].seq
        /\ i \in 1..Len(file)
    BY <1>1, <1>3, <2>1
  <2>3. QED
    BY <1>3, <1>4, <2>1, <2>2 DEF Bounded
<1>7. QED
  BY <1>5, <1>6

(* The rows of the database are naturals. *)
LEMMA RowNat ==
  ASSUME TypeOK
  PROVE  /\ \A d \in Docs : row[d] \in Nat
         /\ upd \in Nat /\ lastSeq \in Nat /\ page.last \in Nat
BY BoundsAssumption DEF TypeOK, Seqs

(* A step that keeps the database and the closed part of the file. *)
LEMMA NoGapFrame ==
  ASSUME TypeOK, Bounded, NoGap, Closed' = Closed, UNCHANGED source,
         closed > 0 => skipped \subseteq skipped' /\ file'[1] = file[1]
  PROVE  NoGap'
<1>1. UNCHANGED <<row, leaves, dead, hasAtt>>
  BY DEF source
<1>2. Through' = Through /\ Saved(Closed)' = Saved(Closed)
  BY <1>1 DEF Through, Saved
<1>3. CASE closed > 0
  BY <1>1, <1>2, <1>3 DEF NoGap, Wanted, IsDeleted
<1>4. CASE ~ (closed > 0)
  <2>1. Through = 0
    BY <1>4, ThroughBound
  <2>2. QED
    BY <1>2, <2>1 DEF NoGap
<1>5. QED
  BY <1>3, <1>4

(* A write moves its document beyond everything that has been read, and
   leaves the others alone. *)
LEMMA WriteCover ==
  ASSUME TypeOK, Bounded, Covered, NoGap,
         NEW d \in Docs, NEW base \in Seqs, NEW del \in BOOLEAN,
         NEW att \in BOOLEAN, Write(d, base, del, att)
  PROVE  Covered' /\ NoGap'
<1>1. upd \in Nat /\ lastSeq \in Nat /\ page.last \in Nat
      /\ \A e \in Docs : row[e] \in Nat
  BY RowNat
<1>2. row'[d] = upd + 1
  BY <1>1 DEF Write, TypeOK
<1>3. UNCHANGED <<file, closed, skipped, lastSeq, page, todo, pc, batch>>
  BY DEF Write
<1>4. ASSUME NEW e \in Docs, e # d
      PROVE  /\ row'[e] = row[e] /\ leaves'[e] = leaves[e]
             /\ leaves[e] \subseteq 1..upd
             /\ Wanted(e)' <=> Wanted(e)
  <2>1. row'[e] = row[e] /\ leaves'[e] = leaves[e] /\ leaves[e] \subseteq 1..upd
    BY <1>4 DEF Write, TypeOK, Bounded
  <2>2. \A r \in 1..upd : r \in dead' <=> r \in dead
    BY <1>1 DEF Write
  <2>3. IsDeleted(e)' <=> IsDeleted(e)
    BY <2>1, <2>2 DEF IsDeleted
  <2>4. QED
    BY <1>3, <2>1, <2>3 DEF Wanted
<1>5. \A r \in 1..upd : r \in hasAtt' <=> r \in hasAtt
  BY <1>1 DEF Write
<1>6. /\ \A r \in 1..upd : r \in Saved(file) => r \in Saved(file)'
      /\ \A r \in 1..upd : r \in Saved(Closed) => r \in Saved(Closed)'
  <2>1. Closed' = Closed
    BY <1>3 DEF Closed
  <2>2. QED
    BY <1>3, <1>5, <2>1 DEF Saved
<1>7. Through' = Through /\ Through \in Nat /\ Through =< upd
  BY <1>3, ThroughBound DEF Closed, Through
<1>8. row'[d] > Through /\ row'[d] > lastSeq /\ row'[d] > page.last
  BY <1>1, <1>2, <1>7 DEF Bounded
<1>9. NoGap'
  <2>1. ASSUME NEW e \in Docs, row'[e] \in 1..Through', row'[e] \notin skipped',
               Wanted(e)'
        PROVE  leaves'[e] \subseteq Saved(Closed)'
    <3>1. e # d
      BY <1>1, <1>2, <1>7, <1>8, <2>1
    <3>2. leaves[e] \subseteq Saved(Closed)
      BY <1>3, <1>4, <1>7, <2>1, <3>1 DEF NoGap
    <3>3. QED
      BY <1>4, <1>6, <3>1, <3>2
  <2>2. QED
    BY <2>1 DEF NoGap
<1>10. Covered'
  <2>1. ASSUME NEW e \in Docs, row'[e] \in 1..lastSeq', row'[e] \notin skipped',
               Wanted(e)', pc' \notin {"idle", "header"}
        PROVE  leaves'[e] \subseteq Saved(file)'
    <3>1. e # d
      BY <1>1, <1>2, <1>3, <1>8, <2>1
    <3>2. leaves[e] \subseteq Saved(file)
      BY <1>3, <1>4, <2>1, <3>1 DEF Covered
    <3>3. QED
      BY <1>4, <1>6, <3>1, <3>2
  <2>2. ASSUME NEW e \in Docs, row'[e] \in (lastSeq' + 1)..page'.last, Wanted(e)',
               pc' \in {"fetch", "write"}
        PROVE  leaves'[e] \subseteq todo' \cup Saved(file)'
    <3>1. e # d
      BY <1>1, <1>2, <1>3, <1>8, <2>2
    <3>2. leaves[e] \subseteq todo \cup Saved(file)
      BY <1>3, <1>4, <2>2, <3>1 DEF Covered
    <3>3. QED
      BY <1>3, <1>4, <1>6, <3>1, <3>2
  <2>3. /\ pc' # "idle" => batch' # 0
        /\ pc' = "header" => 1..lastSeq' \subseteq skipped'
    BY <1>3 DEF Covered
  <2>4. QED
    BY <2>1, <2>2, <2>3 DEF Covered
<1>11. QED
  BY <1>9, <1>10

(* A step that keeps the closed part of the file, whatever it does behind it. *)
LEMMA PrefixKept ==
  ASSUME TypeOK, TypeOK', closed' = closed, closed =< Len(file'),
         \A i \in 1..closed : file'[i] = file[i]
  PROVE  Closed' = Closed
<1>1. /\ file \in Seq(Records) /\ file' \in Seq(Records)
      /\ closed \in 0..Len(file')  /\ closed =< Len(file)
  BY DEF TypeOK
<1>2. SubSeq(file', 1, closed) = SubSeq(file, 1, closed)
  BY <1>1, SamePrefix
<1>3. QED
  BY <1>2 DEF Closed

(* A step of the command that only appends to the file leaves NoGap alone and
   saves what was saved. *)
LEMMA AppendKeeps ==
  ASSUME TypeOK, TypeOK', Bounded, NoGap, UNCHANGED <<source, closed, skipped>>,
         Len(file) =< Len(file'), \A i \in 1..Len(file) : file'[i] = file[i]
  PROVE  /\ NoGap'
         /\ Saved(file) \subseteq Saved(file)'
         /\ file # <<>> => \A d \in Docs : Wanted(d)' <=> Wanted(d)
<1>1. /\ file \in Seq(Records) /\ file' \in Seq(Records)
      /\ closed \in Nat /\ closed =< Len(file)
  BY DEF TypeOK
<1>2. Closed' = Closed
  BY <1>1, PrefixKept
<1>3. file # <<>> => file'[1] = file[1]
  BY <1>1
<1>4. NoGap'
  BY <1>1, <1>2, <1>3, NoGapFrame
<1>5. Saved(file) \subseteq Saved(file)'
  <2>1. Saved(file) \subseteq Saved(file')
    BY <1>1, SavedGrows
  <2>2. Saved(file)' = Saved(file')
    BY DEF source, Saved
  <2>3. QED
    BY <2>1, <2>2
<1>6. file # <<>> => \A d \in Docs : Wanted(d)' <=> Wanted(d)
  BY <1>3 DEF source, Wanted, IsDeleted
<1>7. QED
  BY <1>4, <1>5, <1>6

(* Closing a member makes the whole file count, up to the sequence read. *)
LEMMA CloseCover ==
  ASSUME TypeOK, Covered, UNCHANGED <<source, file, skipped>>,
         closed' = Len(file), pc \notin {"idle", "header"}, Len(file) > 0,
         file[Len(file)].kind \in {"checkpoint", "footer"},
         file[Len(file)].seq = lastSeq
  PROVE  NoGap'
<1>1. file \in Seq(Records)
  BY DEF TypeOK
<1>2. Closed' = file
  BY <1>1 DEF Closed
<1>3. Through' = lastSeq
  BY <1>1, <1>2, LastSeqOfIs DEF Through
<1>4. UNCHANGED <<row, leaves, dead, hasAtt>>
  BY DEF source
<1>5. Saved(Closed)' = Saved(file)
  BY <1>2, <1>4 DEF Saved
<1>6. QED
  BY <1>3, <1>4, <1>5 DEF NoGap, Covered, Wanted, IsDeleted

(* Starting and continuing: what the feed is not asked for is in the file or
   was stepped over. *)
LEMMA StartCover ==
  ASSUME TypeOK, Shape, Bounded, NoGap, NEW flag \in BOOLEAN, NEW b \in Batches,
         NEW given \in Given, Start(flag, b, given)
  PROVE  Covered' /\ NoGap'
<1>1. file = <<>> /\ closed = 0
  BY DEF Start, Shape, TypeOK
<1>2. Closed' = Closed
  BY DEF Start, dump, Closed
<1>3. NoGap'
  BY <1>1, <1>2, NoGapFrame DEF Start
<1>4. Covered'
  BY BoundsAssumption DEF Start, Covered
<1>5. QED
  BY <1>3, <1>4

LEMMA ResumeCover ==
  ASSUME TypeOK, TypeOK', Shape, Bounded, NoGap, NEW flag \in BOOLEAN,
         NEW b \in Batches, NEW given \in Given, Resume(flag, b, given)
  PROVE  Covered' /\ NoGap'
<1>1. /\ file' \in Seq(Records) /\ Len(file') = closed /\ closed' = closed
      /\ \A i \in 1..closed : file'[i] = file[i]
      /\ file' = Closed /\ closed \in Nat
  BY ResumeFile DEF TypeOK
<1>2. Closed' = Closed
  BY <1>1, PrefixKept
<1>3. /\ UNCHANGED source /\ batch' # 0 /\ lastSeq' = SinceOr(given, ScanSeq)
      /\ pc' = IF closed = 0 THEN "header" ELSE "page"
      /\ skipped' = (IF closed = 0 THEN {} ELSE skipped)
                      \cup ((ScanSeq + 1)..SinceOr(given, ScanSeq))
  BY BoundsAssumption DEF Resume, ScanOffset
<1>4. closed > 0 => skipped \subseteq skipped' /\ file'[1] = file[1]
  BY <1>1, <1>3
<1>5. NoGap'
  BY <1>2, <1>3, <1>4, NoGapFrame
<1>6. /\ ScanSeq \in Nat /\ lastSeq' \in Nat /\ \A d \in Docs : row[d] \in Nat
      /\ Closed \in Seq(Records) /\ Len(Closed) = closed
  <2>1. lastSeq' \in Nat
    BY BoundsAssumption DEF Seqs, TypeOK
  <2>2. ScanSeq \in Nat /\ Closed \in Seq(Records) /\ Len(Closed) = closed
    BY ScanType, BoundsAssumption DEF Seqs
  <2>3. QED
    BY <2>1, <2>2, RowNat
<1>7. ASSUME closed = 0 PROVE ScanSeq = 0
  <2>1. 1..Len(Closed) = {}
    BY <1>6, <1>7
  <2>2. QED
    BY <2>1 DEF ScanSeq, LastSeqOf
<1>8. Through = ScanSeq
  <2> DEFINE Last(C) == IF C = {} THEN 0
                        ELSE Closed[CHOOSE i \in C : \A j \in C : j =< i].seq
             Both == {i \in 1..Len(Closed) : Closed[i].kind \in {"checkpoint", "footer"}}
             One == {i \in 1..Len(Closed) : Closed[i].kind \in {"checkpoint"}}
  <2>1. Through = Last(Both) /\ ScanSeq = Last(One)
    BY DEF Through, ScanSeq, LastSeqOf
  <2>2. Both = One
    BY DEF Resume, ScanComplete, At
  <2> HIDE DEF Last, Both, One
  <2>3. QED
    BY <2>1, <2>2
<1>9. ASSUME NEW d \in Docs, closed > 0, row'[d] \in 1..lastSeq',
             row'[d] \notin skipped', Wanted(d)'
      PROVE  leaves'[d] \subseteq Saved(file)'
  <2>1. UNCHANGED <<row, leaves, dead, hasAtt>>
    BY <1>3 DEF source
  <2>2. row[d] \in 1..Through
    BY <1>3, <1>6, <1>8, <1>9, <2>1
  <2>3. Wanted(d)
    BY <1>4, <1>9, <2>1 DEF Wanted, IsDeleted
  <2>4. leaves[d] \subseteq Saved(Closed)
    BY <1>4, <1>9, <2>1, <2>2, <2>3 DEF NoGap
  <2>5. QED
    BY <1>1, <2>1, <2>4 DEF Saved
<1>10. Covered'
  BY <1>3, <1>6, <1>7, <1>9 DEF Covered
<1>11. QED
  BY <1>5, <1>10

(* A page of the feed holds every document changed up to where the next page
   starts, and an empty page means that none is left. *)
LEMMA PageHolds ==
  ASSUME TypeOK, batch # 0, NEW ds \in SUBSET Docs, NEW last \in Seqs,
         IsPage(ds, last, lastSeq, batch), NEW d \in Docs,
         row[d] > lastSeq, row[d] =< last
  PROVE  d \in ds
<1>1. SUFFICES ASSUME d \notin ds PROVE FALSE
  OBVIOUS
<1>2. d \in ChangedAfter(lastSeq) \ ds
  BY <1>1 DEF ChangedAfter
<1>3. ds # ChangedAfter(lastSeq)
  BY <1>2
<1>4. PICK e \in ds : row[e] = last
  BY <1>3 DEF IsPage
<1>5. row[e] < row[d]
  BY <1>2, <1>4 DEF IsPage
<1>6. QED
  BY <1>4, <1>5, RowNat

LEMMA ReadCover ==
  ASSUME TypeOK, TypeOK', Shape, Bounded, Covered, NoGap, ReadChanges
  PROVE  Covered' /\ NoGap'
<1>1. PICK ds \in SUBSET Docs, last \in Seqs :
        /\ IsPage(ds, last, lastSeq, batch)
        /\ IF ds = {}
           THEN lastSeq' = last /\ pc' = "footer" /\ UNCHANGED <<page, todo>>
           ELSE /\ page'.last = last /\ todo' = PageRevs(ds)
                /\ pc' = "fetch" /\ UNCHANGED lastSeq
  BY DEF ReadChanges
<1>2. /\ UNCHANGED <<source, dump, tomb, batch, skipped>>
      /\ pc = "page" /\ batch # 0 /\ file[1].tomb = tomb
  BY DEF ReadChanges, Covered, Shape
<1>3. UNCHANGED <<file, closed, row, leaves, dead, hasAtt>>
  BY <1>2 DEF source, dump
<1>4. NoGap'
  <2>1. Closed' = Closed
    BY <1>3 DEF Closed
  <2>2. QED
    BY <1>2, <1>3, <2>1, NoGapFrame
<1>5. Saved(file)' = Saved(file) /\ \A d \in Docs : Wanted(d)' <=> Wanted(d)
  BY <1>3 DEF Saved, Wanted, IsDeleted
<1>6. CASE ds = {}
  <2>1. ASSUME NEW d \in Docs, row[d] \in 1..last PROVE row[d] \in 1..lastSeq
    BY <1>1, <1>2, <1>6, <2>1, PageHolds, RowNat
  <2>2. QED
    BY <1>1, <1>2, <1>3, <1>4, <1>5, <1>6, <2>1 DEF Covered
<1>7. CASE ds # {}
  <2>1. ASSUME NEW d \in Docs, row[d] \in (lastSeq + 1)..last, Wanted(d)
        PROVE  leaves[d] \subseteq todo'
    <3>1. d \in ds
      BY <1>1, <1>2, <2>1, PageHolds, RowNat
    <3>2. QED
      BY <1>1, <1>2, <1>7, <2>1, <3>1 DEF PageRevs, Wanted
  <2>2. QED
    BY <1>1, <1>2, <1>3, <1>4, <1>5, <1>7, <2>1 DEF Covered
<1>8. QED
  BY <1>6, <1>7

(* A revision that is written leaves the page and is in the file. *)
LEMMA BodyCover ==
  ASSUME TypeOK, TypeOK', Shape, Bounded, Covered, NoGap,
         NEW r \in Revs, WriteBody(r)
  PROVE  Covered' /\ NoGap'
<1>1. /\ pc = "write" /\ todo' = todo \ {r}
      /\ UNCHANGED <<source, closed, pc, batch, lastSeq, page, skipped>>
  BY DEF WriteBody
<1>2. /\ file' \in Seq(Records) /\ Len(file) \in Nat /\ Len(file') \in Nat
      /\ Len(file) =< Len(file') /\ file # <<>>
      /\ \A i \in 1..Len(file) : file'[i] = file[i]
  BY <1>1, WriteBodyFile DEF Shape, TypeOK
<1>3. /\ NoGap' /\ Saved(file) \subseteq Saved(file)'
      /\ \A d \in Docs : Wanted(d)' <=> Wanted(d)
  BY <1>1, <1>2, AppendKeeps
<1>4. UNCHANGED <<row, leaves, dead, hasAtt>>
  BY <1>1 DEF source
<1>5. r \in Saved(file)'
  <2>1. DocRecord(r) \in Records /\ DocRecord(r).kind = "doc" /\ DocRecord(r).rev = r
        /\ AttRecord(r) \in Records /\ AttRecord(r).kind = "att" /\ AttRecord(r).rev = r
    BY RecordTypes DEF DocRecord, AttRecord
  <2>2. file \in Seq(Records)
    BY DEF TypeOK
  <2>3. CASE r \notin hasAtt
    <3>1. file' = Append(file, DocRecord(r))
      BY <2>3, WriteBodyFile
    <3>2. Len(file) + 1 \in At(file', "doc") /\ file'[Len(file) + 1].rev = r
      BY <2>1, <2>2, <3>1 DEF At
    <3>3. QED
      BY <1>4, <2>3, <3>2 DEF Saved
  <2>4. CASE r \in hasAtt
    <3>1. file' = Append(Append(file, DocRecord(r)), AttRecord(r))
      BY <2>4, WriteBodyFile
    <3>2. /\ Len(file') = Len(file) + 2
          /\ file'[Len(file) + 1] = DocRecord(r)
          /\ file'[Len(file) + 2] = AttRecord(r)
      BY <2>1, <2>2, <3>1
    <3>3. /\ Len(file) + 1 \in At(file', "doc") /\ file'[Len(file) + 1].rev = r
          /\ Len(file) + 2 \in At(file', "att") /\ file'[Len(file) + 2].rev = r
      BY <1>2, <2>1, <3>2 DEF At
    <3>4. QED
      BY <1>4, <3>3 DEF Saved
  <2>5. QED
    BY <2>3, <2>4
<1>6. Covered'
  BY <1>1, <1>3, <1>4, <1>5 DEF Covered
<1>7. QED
  BY <1>3, <1>6

(* The checkpoint is written when nothing of the page is left to write. *)
LEMMA CheckpointCover ==
  ASSUME TypeOK, TypeOK', Shape, Bounded, Covered, NoGap, WriteCheckpoint
  PROVE  Covered' /\ NoGap'
<1>1. /\ pc = "write" /\ pc' = "seal" /\ todo = {} /\ lastSeq' = page.last
      /\ UNCHANGED <<source, closed, batch, page, skipped>>
      /\ file' = Append(file, Checkpoint(page.last))
  BY DEF WriteCheckpoint
<1>2. /\ file \in Seq(Records) /\ Len(file) =< Len(file')
      /\ \A i \in 1..Len(file) : file'[i] = file[i] /\ file # <<>>
  BY <1>1, RecordTypes DEF Shape, TypeOK
<1>3. /\ NoGap' /\ Saved(file) \subseteq Saved(file)'
      /\ \A d \in Docs : Wanted(d)' <=> Wanted(d)
  BY <1>1, <1>2, AppendKeeps DEF Shape
<1>4. UNCHANGED <<row, leaves, dead, hasAtt>>
  BY <1>1 DEF source
<1>5. ASSUME NEW d \in Docs, row[d] \in 1..page.last, row[d] \notin skipped, Wanted(d)
      PROVE  leaves[d] \subseteq Saved(file)
  <2>1. row[d] \in 1..lastSeq \/ row[d] \in (lastSeq + 1)..page.last
    BY <1>5, RowNat
  <2>2. QED
    BY <1>1, <1>5, <2>1 DEF Covered
<1>6. Covered'
  BY <1>1, <1>3, <1>4, <1>5 DEF Covered
<1>7. QED
  BY <1>3, <1>6

LEMMA CoverStep ==
  TypeOK /\ Shape /\ Bounded /\ Covered /\ NoGap /\ [Next]_vars
    => Covered' /\ NoGap'
<1> SUFFICES ASSUME TypeOK, Shape, Bounded, Covered, NoGap, [Next]_vars
             PROVE  Covered' /\ NoGap'
  OBVIOUS
<1>1. TypeOK'
  BY TypeStep
<1>2. ASSUME NEW d \in Docs, NEW base \in Seqs, NEW del \in BOOLEAN,
             NEW att \in BOOLEAN, Write(d, base, del, att)
      PROVE  Covered' /\ NoGap'
  BY <1>2, WriteCover
<1>3. CASE CompactSource \/ UNCHANGED vars
  <2>1. UNCHANGED <<row, leaves, dead, hasAtt, file, closed, pc, batch, lastSeq,
                    page, todo, skipped>>
    BY <1>3 DEF CompactSource, vars
  <2>2. Closed' = Closed /\ Through' = Through
    BY <2>1 DEF Closed, Through
  <2>3. QED
    BY <2>1, <2>2 DEF Covered, NoGap, Wanted, IsDeleted, Saved
<1>4. ASSUME NEW flag \in BOOLEAN, ResumeRefused(flag)
      PROVE  Covered' /\ NoGap'
  <2>1. UNCHANGED <<row, leaves, dead, hasAtt, file, closed, pc, batch, lastSeq,
                    page, todo, skipped>>
    BY <1>4 DEF ResumeRefused, source, dump
  <2>2. Closed' = Closed /\ Through' = Through
    BY <2>1 DEF Closed, Through
  <2>3. QED
    BY <2>1, <2>2 DEF Covered, NoGap, Wanted, IsDeleted, Saved
<1>5. ASSUME NEW flag \in BOOLEAN, NEW b \in Batches, NEW given \in Given,
             Start(flag, b, given) \/ Resume(flag, b, given)
      PROVE  Covered' /\ NoGap'
  BY <1>1, <1>5, StartCover, ResumeCover
<1>6. CASE WriteHeader
  <2>1. /\ pc = "header" /\ pc' = "page" /\ file' = Append(file, Header(tomb))
        /\ UNCHANGED <<source, closed, batch, lastSeq, skipped>>
    BY <1>6 DEF WriteHeader
  <2>2. file = <<>> /\ 1..lastSeq \subseteq skipped
    BY <2>1 DEF Shape, Covered
  <2>3. NoGap'
    BY <1>1, <2>1, <2>2, AppendKeeps DEF TypeOK
  <2>4. Covered'
    BY <2>1, <2>2 DEF Covered, source
  <2>5. QED
    BY <2>3, <2>4
<1>7. CASE ReadChanges
  BY <1>1, <1>7, ReadCover
<1>8. CASE FetchBodies
  <2>1. /\ pc = "fetch" /\ pc' = "write"
        /\ UNCHANGED <<row, leaves, dead, hasAtt, file, closed, batch, lastSeq,
                       page, todo, skipped>>
    BY <1>8 DEF FetchBodies, source, dump
  <2>2. Closed' = Closed /\ Through' = Through
    BY <2>1 DEF Closed, Through
  <2>3. Saved(file)' = Saved(file) /\ Saved(Closed)' = Saved(Closed)
        /\ \A d \in Docs : Wanted(d)' <=> Wanted(d)
    BY <2>1, <2>2 DEF Wanted, IsDeleted, Saved
  <2>4. QED
    BY <2>1, <2>2, <2>3 DEF Covered, NoGap
<1>9. ASSUME NEW r \in Revs, WriteBody(r)
      PROVE  Covered' /\ NoGap'
  BY <1>1, <1>9, BodyCover
<1>10. CASE WriteCheckpoint
  BY <1>1, <1>10, CheckpointCover
<1>11. CASE CloseMember
  <2>1. /\ pc = "seal" /\ pc' \in {"footer", "page"} /\ closed' = Len(file)
        /\ UNCHANGED <<source, file, batch, lastSeq, skipped>>
    BY <1>11 DEF CloseMember
  <2>2. Len(file) > 0 /\ file[Len(file)] = Checkpoint(lastSeq)
    BY <2>1 DEF Shape, TypeOK
  <2>3. NoGap'
    BY <2>1, <2>2, CloseCover DEF Checkpoint
  <2>4. Saved(file)' = Saved(file) /\ \A d \in Docs : Wanted(d)' <=> Wanted(d)
    BY <2>1 DEF source, Wanted, IsDeleted, Saved
  <2>5. QED
    BY <2>1, <2>3, <2>4 DEF Covered, source
<1>12. CASE WriteFooter
  <2>1. /\ pc = "footer" /\ pc' = "close"
        /\ file' = Append(file, Footer(docs, deleted, atts, lastSeq))
        /\ UNCHANGED <<source, closed, batch, lastSeq, skipped>>
    BY <1>12 DEF WriteFooter
  <2>2. /\ NoGap' /\ Saved(file) \subseteq Saved(file)'
        /\ \A d \in Docs : Wanted(d)' <=> Wanted(d)
    BY <1>1, <2>1, AppendKeeps DEF TypeOK, Shape
  <2>3. QED
    BY <2>1, <2>2 DEF Covered, source
<1>13. CASE Close
  <2>1. /\ pc = "close" /\ pc' = "idle" /\ closed' = Len(file)
        /\ UNCHANGED <<source, file, skipped>>
    BY <1>13 DEF Close, Exit
  <2>2. Len(file) > 0 /\ file[Len(file)] = Footer(docs, deleted, atts, lastSeq)
    BY <2>1 DEF Shape, TypeOK
  <2>3. NoGap'
    BY <2>1, <2>2, CloseCover DEF Footer
  <2>4. QED
    BY <2>1, <2>3 DEF Covered
<1>14. CASE GiveUp
  <2>1. PICK o : Abandon(o)
    BY <1>14, GiveUpIs
  <2>2. /\ pc' = "idle" /\ closed' = closed /\ UNCHANGED <<source, skipped>>
        /\ Len(file') \in closed..Len(file)
        /\ \A i \in 1..Len(file') : file'[i] = file[i]
    BY <2>1, AbandonFile
  <2>3. closed \in Nat /\ Len(file) \in Nat
    BY DEF TypeOK
  <2>4. Closed' = Closed
    BY <1>1, <2>2, <2>3, PrefixKept
  <2>5. NoGap'
    BY <2>2, <2>3, <2>4, NoGapFrame
  <2>6. QED
    BY <2>2, <2>5 DEF Covered
<1>15. QED
  BY <1>2, <1>3, <1>4, <1>5, <1>6, <1>7, <1>8, <1>9, <1>10, <1>11, <1>12, <1>13,
     <1>14 DEF Next, Dumping, Database, Invoke, GiveUp

(* The inductive invariant. *)
THEOREM InvariantHolds == Spec => []IInv
<1>1. Init => IInv
  <2>1. ASSUME Init PROVE FileInv
    <3>1. TypeOK
      BY <2>1, TypeCorrectInit
    <3>2. Shape /\ Bounded /\ Counted /\ FooterIsTrue
      BY <2>1, BoundsAssumption
      DEF Init, Shape, Bounded, Counted, FooterIsTrue, At, Seqs
    <3>3. QED
      BY <3>1, <3>2 DEF FileInv
  <2>2. ASSUME Init PROVE Covered /\ NoGap
    BY <2>2 DEF Init, Covered, NoGap
  <2>3. QED
    BY <2>1, <2>2 DEF FileInv, IInv
<1>2. IInv /\ [Next]_vars => IInv'
  BY TypeStep, ShapeStep, BoundedStep, CountedStep, FooterStep, CoverStep DEF IInv
<1>3. QED
  BY <1>1, <1>2, PTL DEF Spec

(* No document falls between two pages, batches or invocations. *)
THEOREM NoGapCorrect == Spec => []NoGap
<1>1. IInv => NoGap
  BY DEF IInv
<1>2. QED
  BY <1>1, InvariantHolds, PTL

-----------------------------------------------------------------------------
(* The dump implements the log.                                            *)

(* Every step but the end of a gzip member leaves the closed part alone. *)
LEMMA ClosedKept ==
  ASSUME TypeOK, Shape, [Next]_vars, ~CloseMember, ~Close
  PROVE  Closed' = Closed
<1>1. TypeOK' /\ closed \in Nat /\ Len(file) \in Nat /\ closed =< Len(file)
      /\ file \in Seq(Records)
  BY TypeStep DEF TypeOK
<1>2. CASE Database \/ UNCHANGED vars
  BY <1>2, DatabaseFrame DEF vars, Closed
<1>3. CASE Invoke
  <2>1. ASSUME NEW flag \in BOOLEAN, NEW b \in Batches, NEW given \in Given,
               Resume(flag, b, given)
        PROVE  Closed' = Closed
    BY <1>1, <2>1, ResumeFile, PrefixKept
  <2>2. QED
    BY <1>3, <2>1 DEF Invoke, ResumeRefused, Start, dump, Closed
<1>4. CASE GiveUp
  <2>1. PICK o : Abandon(o)
    BY <1>4, GiveUpIs
  <2>2. closed' = closed /\ Len(file') \in closed..Len(file)
        /\ \A i \in 1..Len(file') : file'[i] = file[i]
    BY <2>1, AbandonFile
  <2>3. QED
    BY <1>1, <2>2, PrefixKept
<1>5. CASE ReadChanges \/ FetchBodies
  BY <1>5 DEF ReadChanges, FetchBodies, dump, Closed
<1>6. CASE WriteHeader \/ WriteCheckpoint \/ WriteFooter
  <2>1. PICK x : file' = Append(file, x) /\ closed' = closed
    BY <1>6 DEF WriteHeader, WriteCheckpoint, WriteFooter
  <2>2. closed =< Len(file') /\ \A i \in 1..closed : file'[i] = file[i]
    BY <1>1, <2>1
  <2>3. QED
    BY <1>1, <2>1, <2>2, PrefixKept
<1>7. ASSUME NEW r \in Revs, WriteBody(r)
      PROVE  Closed' = Closed
  <2>1. /\ closed' = closed /\ file' \in Seq(Records) /\ Len(file') > Len(file)
        /\ \A i \in 1..Len(file) : file'[i] = file[i]
    BY <1>7, WriteBodyFile DEF WriteBody
  <2>2. closed =< Len(file')
    BY <1>1, <2>1
  <2>3. QED
    BY <1>1, <2>1, <2>2, PrefixKept
<1>8. QED
  BY <1>2, <1>3, <1>4, <1>5, <1>6, <1>7 DEF Next, Dumping, GiveUp

(* Closing a member appends to the log what the member holds. *)
LEMMA MemberGrows ==
  ASSUME TypeOK, Shape, pc \in {"seal", "close"}, file' = file,
         closed' = Len(file)
  PROVE  /\ Closed' = file
         /\ Log!Grows /\ ~Log!Sealed /\ Log!HeaderFirst
         /\ Log!New = (closed + 1)..Len(file)
<1>1. /\ file \in Seq(Records) /\ closed \in Nat /\ Len(file) > closed
      /\ Closed \in Seq(Records) /\ Len(Closed) = closed
      /\ \A i \in 1..closed : Closed[i] = file[i]
  BY ScanType DEF Shape, TypeOK
<1>2. Closed' = file
  BY <1>1 DEF Closed
<1>3. Log!Grows
  BY <1>1, <1>2 DEF Log!Grows, Closed
<1>4. ~Log!Sealed
  BY <1>1 DEF Log!Sealed, Log!Kind, Shape
<1>5. Log!HeaderFirst
  <2>1. file[1].kind = "header" /\ \A i \in 2..Len(file) : file[i].kind # "header"
    BY <1>1 DEF Shape
  <2>2. QED
    BY <1>1, <1>2, <2>1 DEF Log!HeaderFirst, Log!Kind
<1>6. QED
  BY <1>1, <1>2, <1>3, <1>4, <1>5 DEF Log!New

LEMMA LogStep ==
  IInv /\ [Next]_vars => [Log!Next]_Closed
<1> SUFFICES ASSUME IInv, [Next]_vars PROVE [Log!Next]_Closed
  OBVIOUS
<1>1. TypeOK /\ Shape /\ Counted /\ file \in Seq(Records) /\ closed \in Nat
  BY DEF IInv, TypeOK
<1>2. CASE CloseMember
  <2>1. pc = "seal" /\ file' = file /\ closed' = Len(file)
    BY <1>2 DEF CloseMember
  <2>2. /\ Closed' = file /\ Log!Grows /\ ~Log!Sealed /\ Log!HeaderFirst
        /\ Log!New = (closed + 1)..Len(file)
    BY <1>1, <2>1, MemberGrows
  <2>3. \A i \in (closed + 1)..Len(file) :
          file[i].kind = "checkpoint" <=> i = Len(file)
    BY <1>1, <2>1 DEF Shape, Checkpoint
  <2>4. \A i \in 1..Len(file) : file[i].kind # "footer"
    <3>1. pc # "idle" /\ pc # "close"
      BY <2>1
    <3>2. QED
      BY <1>1, <3>1 DEF Shape
  <2>5. Log!Batch
    BY <2>2, <2>3, <2>4 DEF Log!Batch, Log!Kind
  <2>6. QED
    BY <2>5 DEF Log!Next
<1>3. CASE Close
  <2>1. pc = "close" /\ file' = file /\ closed' = Len(file)
    BY <1>3 DEF Close
  <2>2. /\ Closed' = file /\ Log!Grows /\ ~Log!Sealed /\ Log!HeaderFirst
        /\ Log!New = (closed + 1)..Len(file)
    BY <1>1, <2>1, MemberGrows
  <2>3. file[Len(file)] = Footer(docs, deleted, atts, lastSeq)
    BY <1>1, <2>1 DEF Shape
  <2>4. \A i \in (closed + 1)..Len(file) :
          file[i].kind = "footer" <=> i = Len(file)
    BY <1>1, <2>1, <2>3 DEF Shape, Footer
  <2>5. TrueTotals(file, file[Len(file)])
    BY <1>1, <2>1, <2>3 DEF TrueTotals, Counted, Footer
  <2>6. Log!Seal
    <3>1. /\ Log!Kind(file, "doc") = At(file, "doc")
          /\ Log!Kind(file, "att") = At(file, "att")
          /\ {i \in Log!Kind(file, "doc") : file[i].dead} = Tombstones(file)
      BY DEF Log!Kind, At, Tombstones
    <3>2. \A i \in Log!New : Closed'[i].kind = "footer" <=> i = Len(Closed')
      BY <2>2, <2>4
    <3>3. \A S : Log!Cardinality(S) = Cardinality(S)
      BY DEF Cardinality, Log!Cardinality, IsFiniteSet, Log!IsFiniteSet
    <3>4. QED
      BY <2>2, <2>5, <3>1, <3>2, <3>3 DEF Log!Seal, TrueTotals
  <2>7. QED
    BY <2>6 DEF Log!Next
<1>4. CASE ~CloseMember /\ ~Close
  BY <1>1, <1>4, ClosedKept
<1>5. QED
  BY <1>2, <1>3, <1>4

(* Whatever is written, killed and resumed, the closed members of the file are
   a log of whole batches, sealed at most once. *)
THEOREM Implementation == Spec => IsALog
<1>1. Init => Log!Init
  BY DEF Init, Log!Init, Closed
<1>2. IInv /\ [Next]_vars => [Log!Next]_Closed
  BY LogStep
<1>3. QED
  BY <1>1, <1>2, InvariantHolds, PTL DEF Spec, IsALog, Log!Spec
=============================================================================
