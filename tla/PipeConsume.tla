----------------------------- MODULE PipeConsume ----------------------------
(***************************************************************************)
(* put, rm and cat as a later stage of a pipeline                          *)
(* (internal/command/pipeconsume.go): values are read off the pipe in      *)
(* batches, a batch is looked up and written in separate requests, and     *)
(* every value is answered by a row.  How many values a batch holds        *)
(* depends on how many happen to be queued when it is read.                *)
(*                                                                         *)
(* A revision is a number that no other write is given.                    *)
(***************************************************************************)
EXTENDS Naturals, Sequences, FiniteSets, SequencesExt

CONSTANTS
  Inputs,     \* the pipelines tried: sequences of values
  Held,       \* what the databases hold at first: [database -> [id -> revision]];
              \* 0 stands for no document, and id 0 for none that can be
  Batch,      \* the most values a batch may hold (pipeBatch)
  MaxWrites   \* bound: writes of other clients

ASSUME ConsumeAssumption ==
  /\ Batch \in Nat \ {0} /\ MaxWrites \in Nat
  /\ Held \in [DOMAIN Held -> [DOMAIN Held[1] -> Nat]]
  /\ \A s \in Inputs : s \in Seq([db : DOMAIN Held, id : DOMAIN Held[1], rev : Nat])

(* A value names a document, with a revision or 0; one that is neither a
   document nor a reference is Bad. *)
Bad == [db |-> 1, id |-> 0, rev |-> 0]

VARIABLES
  kind,       \* "put", "rm" or "cat"
  input,
  cur,        \* cur[db][id]: the current revision, 0 if there is none
  clock,      \* the last revision given out
  state,
  seen,       \* values read off the pipe
  batch,      \* the values being handled
  order,      \* the databases of the batch that are still to be handled
  refs,       \* those of the first of them, with the revisions looked up
  answers,    \* what the server has answered of the request under way
  pending,    \* rows waiting to be handed on
  handed,     \* rows handed on
  applied,    \* history: the writes the server accepted, as <<id, revision>>
  others      \* writes of other clients

consumeVars ==
  <<kind, input, cur, clock, state, seen, batch, order, refs, answers, pending,
    handed, applied, others>>

Dbs == DOMAIN Held
Ids == DOMAIN Held[1]

(* The place of k among some numbers, the j-th of them, and what stands at them
   in a sequence, in its order. *)
Rank(S, k)   == Cardinality({i \in S : i =< k})
Nth(S, j)    == CHOOSE k \in S : Rank(S, k) = j
Picked(s, S) == [j \in 1..Cardinality(S) |-> s[Nth(S, j)]]

(* Another client writes or deletes a document. *)
OtherWrites(db, id, del) ==
  /\ others < MaxWrites
  /\ del => cur[db][id] # 0
  /\ cur' = [cur EXCEPT ![db][id] = IF del THEN 0 ELSE clock + 1]
  /\ clock' = clock + 1
  /\ others' = others + 1
  /\ UNCHANGED <<kind, input, state, seen, batch, order, refs, answers, pending,
                 handed, applied>>

-----------------------------------------------------------------------------
ConsumeInit ==
  /\ kind \in {"put", "rm", "cat"}
  /\ input \in Inputs
  /\ kind = "put" => \A k \in 1..Len(input) : input[k].db = 1
  /\ cur = Held /\ clock = 1
  /\ state = IF kind = "rm" THEN "confirm" ELSE "read"
  /\ seen = 0 /\ batch = <<>> /\ order = <<>> /\ refs = <<>> /\ answers = <<>>
  /\ pending = <<>> /\ handed = <<>> /\ applied = {} /\ others = 0

(* rm asks once, before it reads anything. *)
Confirm(yes) ==
  /\ state = "confirm"
  /\ state' = IF yes THEN "read" ELSE "failed"
  /\ UNCHANGED <<kind, input, cur, clock, seen, batch, order, refs, answers,
                 pending, handed, applied, others>>

(* The databases of a batch, in the order they first appear. *)
ByDatabase(vs) ==
  Picked([k \in 1..Len(vs) |-> vs[k].db],
         {k \in 1..Len(vs) : \A j \in 1..(k - 1) : vs[j].db # vs[k].db})

(* nextBatch: the first value is waited for, and what else is queued by then is
   taken with it.  A value that will not do ends the stage, and with it go the
   values read before it into the same batch. *)
Take(vs) == IF Contains(vs, Bad) THEN <<>> ELSE vs

Sizes == 1..Batch

(* A batch is read only once every row of the one before has been handed on. *)
IdleEarly == state = "read"                                       \* mutant
Idle == state = "read" /\ pending = <<>>

NextBatch ==
  /\ Idle /\ seen < Len(input)
  /\ \E n \in Sizes :
       /\ seen + n =< Len(input)
       /\ LET vs == SubSeq(input, seen + 1, seen + n)
          IN  /\ ~Contains(Front(vs), Bad)
              /\ batch' = Take(vs) /\ order' = ByDatabase(Take(vs))
              /\ state' = IF Take(vs) = <<>> THEN "failed" ELSE "lookup"
       /\ seen' = seen + n
  /\ UNCHANGED <<kind, input, cur, clock, refs, answers, pending, handed, applied,
                 others>>

Finish ==
  /\ Idle /\ seen = Len(input)
  /\ state' = "done"
  /\ UNCHANGED <<kind, input, cur, clock, seen, batch, order, refs, answers,
                 pending, handed, applied, others>>

-----------------------------------------------------------------------------
(* Looking the batch up.                                                   *)

(* dropAndResolveRevs: revisions that arrive are dropped; of the values with
   one id, only the last is given the revision looked up. *)
Resolve(vs) ==
  [k \in 1..Len(vs) |->
     [vs[k] EXCEPT !.rev = IF \E j \in (k + 1)..Len(vs) : vs[j].id = vs[k].id
                             THEN 0 ELSE cur[vs[k].db][vs[k].id]]]

(* fillRevisions: a revision that arrives is used. *)
FillRevisions(vs) ==
  [k \in 1..Len(vs) |->
     IF vs[k].rev = 0 THEN [vs[k] EXCEPT !.rev = cur[vs[k].db][vs[k].id]] ELSE vs[k]]

(* The values of the database at hand; put has no other. *)
Here  == {k \in 1..Len(batch) : batch[k].db = Head(order)}
Group == Picked(batch, Here)

Lookup ==
  /\ state = "lookup" /\ order # <<>> /\ kind # "cat"
  /\ refs' = IF kind = "put" THEN Resolve(Group) ELSE FillRevisions(Group)
  /\ state' = "write"
  /\ UNCHANGED <<kind, input, cur, clock, seen, batch, order, answers, pending,
                 handed, applied, others>>

(* cat reads the documents themselves; one that is not there ends it. *)
LookupDocs ==
  /\ state = "lookup" /\ order # <<>> /\ kind = "cat"
  /\ IF \E k \in 1..Len(Group) : cur[Group[k].db][Group[k].id] = 0
       THEN /\ state' = "failed" /\ pending' = <<>>
            /\ UNCHANGED order
       ELSE /\ pending' = pending \o
                 [k \in 1..Len(Group) |-> [id |-> Group[k].id,
                                           rev |-> cur[Group[k].db][Group[k].id],
                                           status |-> "ok"]]
            /\ order' = Tail(order)
            /\ UNCHANGED state
  /\ UNCHANGED <<kind, input, cur, clock, seen, batch, refs, answers, handed,
                 applied, others>>

-----------------------------------------------------------------------------
(* Writing it.                                                             *)

(* A reference with no revision is not sent. *)
Sent == {k \in 1..Len(refs) : kind = "rm" => refs[k].rev # 0}

(* _bulk_docs (external): the next document sent, against the revision it
   names; 0 creates.  Between two of them others may write, and a request that
   has been sent goes on when the stage has ended. *)
BulkDocs ==
  /\ state \in {"write", "failed"} /\ Len(answers) < Cardinality(Sent)
  /\ LET d   == refs[Nth(Sent, Len(answers) + 1)]
         now == cur[d.db][d.id]
     IN  IF now = d.rev /\ (kind = "rm" => d.rev # 0)
           THEN /\ cur' = [cur EXCEPT ![d.db][d.id] = IF kind = "rm" THEN 0 ELSE clock + 1]
                /\ clock' = clock + 1
                /\ applied' = applied \cup {<<d.id, clock + 1>>}
                /\ answers' = Append(answers, [id |-> d.id, rev |-> clock + 1, status |-> "ok"])
           ELSE /\ answers' = Append(answers, [id |-> d.id, rev |-> 0, status |-> "conflict"])
                /\ UNCHANGED <<cur, clock, applied>>
  /\ UNCHANGED <<kind, input, state, seen, batch, order, refs, pending, handed,
                 others>>

(* The rows of the database at hand: the j-th answer belongs to the j-th
   document sent. *)
RowsById ==                                                       \* mutant
  [k \in 1..Len(refs) |->
     IF k \notin Sent THEN [id |-> refs[k].id, rev |-> 0, status |-> "not_found"]
     ELSE LET same == {j \in 1..Len(answers) : answers[j].id = refs[k].id}
          IN  answers[CHOOSE j \in same : \A i \in same : j =< i]]
RowsSent == answers                                               \* mutant
Rows ==
  [k \in 1..Len(refs) |->
     IF k \notin Sent THEN [id |-> refs[k].id, rev |-> 0, status |-> "not_found"]
     ELSE answers[Rank(Sent, k)]]

(* The answer to the request arrives. *)
BulkWrite ==
  /\ state = "write" /\ Len(answers) = Cardinality(Sent)
  /\ pending' = pending \o Rows
  /\ order' = Tail(order)
  /\ refs' = <<>> /\ answers' = <<>>
  /\ state' = "lookup"
  /\ UNCHANGED <<kind, input, cur, clock, seen, batch, handed, applied, others>>

(* The batch is done with; its rows are handed on. *)
Batched ==
  /\ state = "lookup" /\ order = <<>>
  /\ state' = "read"
  /\ UNCHANGED <<kind, input, cur, clock, seen, batch, order, refs, answers,
                 pending, handed, applied, others>>

Emit ==
  /\ state = "read" /\ pending # <<>>
  /\ handed' = Append(handed, Head(pending))
  /\ pending' = Tail(pending)
  /\ UNCHANGED <<kind, input, cur, clock, state, seen, batch, order, refs, answers,
                 applied, others>>

(* A request fails before or after it reaches the server, or the line is
   cancelled.  Rows of the databases handled before are lost with it. *)
Fail ==
  /\ state \in {"read", "lookup", "write"}
  /\ state' = "failed" /\ pending' = <<>>
  /\ UNCHANGED <<kind, input, cur, clock, seen, batch, order, refs, answers, handed,
                 applied, others>>

ConsumeNext ==
  \/ \E yes \in BOOLEAN : Confirm(yes)
  \/ NextBatch \/ Finish \/ Lookup \/ LookupDocs \/ BulkDocs \/ BulkWrite
  \/ Batched \/ Emit \/ Fail
  \/ \E db \in Dbs, id \in Ids \ {Bad.id}, del \in BOOLEAN : OtherWrites(db, id, del)

ConsumeSpec == ConsumeInit /\ [][ConsumeNext]_consumeVars

-----------------------------------------------------------------------------

OneDatabase == \A k \in 1..Len(input) : input[k].db = input[1].db
Occurrences(s, id) == Cardinality({k \in 1..Len(s) : s[k].id = id})

(* There is a row for every value that was read, none is repeated or lost when
   the stage ends in order, and over one database they come in the order of the
   values (byDatabase, rmBatch), however the values fell into batches. *)
RowPerValue ==
  /\ OneDatabase => \A k \in 1..Len(handed) : handed[k].id = input[k].id
  /\ state = "done" => \A id \in Ids : Occurrences(handed, id) = Occurrences(input, id)

OkRows(s) == {k \in 1..Len(s) : s[k].status = "ok"}
Told(s)   == {<<s[k].id, s[k].rev>> : k \in OkRows(s)}

(* A row of put or rm says "ok" of a write the server accepted, one row of each,
   though one batch may name a document twice; and when the stage ends in order
   nothing was accepted that no row tells of (rmBatch, sent). *)
OkIsTrue ==
  kind # "cat" =>
    /\ Told(handed) \subseteq applied
    /\ Cardinality(Told(handed)) = Cardinality(OkRows(handed))
    /\ state = "done" => Told(handed) = applied

(* When the stage is cut short, what it has written and tells nobody of is one
   batch at the most, all of it from values before the first that will not do: a
   batch is handed on before the next is read, and one that holds such a value
   ends with it (nextBatch, and putPipeline, rmPipeline: len(pending) == 0). *)
WrittenAccounted ==
  /\ Cardinality(applied \ Told(handed)) =< Batch
  /\ \A w \in applied : \E k \in 1..Len(input) :
       input[k].id = w[1] /\ \A j \in 1..k : input[j] # Bad

=============================================================================
