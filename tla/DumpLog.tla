------------------------------ MODULE DumpLog -------------------------------
(***************************************************************************)
(* What a dump file promises to whoever reads it: a log that grows by      *)
(* whole batches and is sealed once by a footer that tells the truth.      *)
(* Crashes, torn members and resumptions are not visible here.             *)
(***************************************************************************)
EXTENDS Naturals, Sequences, FiniteSets

VARIABLE log    \* the records that can be relied on, in order

Kind(recs, kind) == {i \in 1..Len(recs) : recs[i].kind = kind}

(* log' is log with more records after it. *)
Grows ==
  /\ Len(log') > Len(log)
  /\ SubSeq(log', 1, Len(log)) = log

New == (Len(log) + 1)..Len(log')

Sealed == Kind(log, "footer") # {}

(* Only the first record of a dump is a header, and it always is one. *)
HeaderFirst == Kind(log', "header") = {1}

(* A batch: documents and attachments, and the checkpoint that ends it. *)
Batch ==
  /\ ~Sealed
  /\ Grows
  /\ HeaderFirst
  /\ \A i \in New : log'[i].kind = "checkpoint" <=> i = Len(log')
  /\ Kind(log', "footer") = {}

(* The end: a footer that counts every record before it. *)
Seal ==
  /\ ~Sealed
  /\ Grows
  /\ HeaderFirst
  /\ \A i \in New : log'[i].kind = "footer" <=> i = Len(log')
  /\ LET foot == log'[Len(log')]
     IN  /\ foot.docs = Cardinality(Kind(log', "doc"))
         /\ foot.deleted = Cardinality({i \in Kind(log', "doc") : log'[i].dead})
         /\ foot.atts = Cardinality(Kind(log', "att"))

Init == log = <<>>
Next == Batch \/ Seal
Spec == Init /\ [][Next]_log
=============================================================================
