----------------------------- MODULE TailFollow -----------------------------
(***************************************************************************)
(* tail --follow (internal/command/tail.go) over the continuous changes    *)
(* feed (internal/couch/bulk.go, ChangesFollow): a goroutine holds the     *)
(* feed open and hands each change over an unbuffered channel; a feed that *)
(* drops is reopened from the last change handed over.                     *)
(*                                                                         *)
(* A change is its sequence; a document has one change, its latest.  How   *)
(* long a wait is before the feed is reopened is left out.                 *)
(***************************************************************************)
EXTENDS Naturals, Sequences, FiniteSets, SequencesExt

CONSTANTS
  Docs,
  MaxSeq,     \* bound: writes to the database
  MaxDrops,   \* bound: times the feed drops or cannot be opened
  MaxGarbled, \* bound: lines that will not decode
  InFlight    \* bound: lines the server is ahead of the reader

ASSUME FollowAssumption ==
  /\ MaxSeq \in Nat /\ MaxDrops \in Nat /\ MaxGarbled \in Nat
  /\ InFlight \in Nat \ {0}

VARIABLES
  latest,     \* latest[d]: the sequence of d's latest change, 0 if it has none
  updateSeq,  \* that of the database
  deleted,    \* the database has been deleted
  pc,         \* where the goroutine stands
  start,      \* the sequence the follow began at
  since,      \* the one it would reopen the feed from
  err,        \* how the feed ended: "none", "drop" or "refused"
  sent,       \* the last sequence sent on this connection
  wire,       \* the lines on their way
  row,        \* the change in hand
  errc,       \* what the goroutine reported: "none", "refused" or "cancelled"
  reader,     \* "next", "busy", "gone", or "ended"
  reason,     \* what the reader was told at the end
  shown,      \* the changes it was given
  interrupt,  \* the context is done
  garbled,    \* lines passed over because they would not decode
  drops

server == <<latest, updateSeq, deleted>>
vars   == <<latest, updateSeq, deleted, pc, start, since, err, sent, wire,
            row, errc, reader, reason, shown, interrupt, garbled, drops>>

Init ==
  /\ latest \in [Docs -> 0..1] /\ Cardinality({d \in Docs : latest[d] = 1}) = 1
  /\ updateSeq = 1 /\ deleted = FALSE
  /\ pc = "info" /\ start = 0 /\ since = 0 /\ err = "none"
  /\ sent = 0 /\ wire = <<>> /\ row = 0
  /\ errc = "none" /\ reader = "next" /\ reason = "none" /\ shown = <<>>
  /\ interrupt = FALSE /\ garbled = {} /\ drops = 0

-----------------------------------------------------------------------------
(* The database and the operator.                                          *)

Write(d) ==
  /\ ~deleted /\ updateSeq < MaxSeq
  /\ updateSeq' = updateSeq + 1
  /\ latest' = [latest EXCEPT ![d] = updateSeq + 1]
  /\ UNCHANGED <<deleted, pc, start, since, err, sent, wire, row, errc,
                 reader, reason, shown, interrupt, garbled, drops>>

DeleteDatabase ==
  /\ ~deleted /\ deleted' = TRUE
  /\ UNCHANGED <<latest, updateSeq, pc, start, since, err, sent, wire, row,
                 errc, reader, reason, shown, interrupt, garbled, drops>>

(* Ctrl-C, or the line a later stage has ended. *)
Interrupt ==
  /\ ~interrupt /\ interrupt' = TRUE
  /\ UNCHANGED <<server, pc, start, since, err, sent, wire, row, errc,
                 reader, reason, shown, garbled, drops>>

(* The change that comes next on a connection: of those after the last one sent,
   the first. *)
After(n) == {d \in Docs : latest[d] > n}
Send ==
  /\ pc \in {"reading", "handing"} /\ ~deleted
  /\ Len(wire) < InFlight
  /\ \E d \in After(sent) :
       /\ \A e \in After(sent) : latest[d] =< latest[e]
       /\ wire' = Append(wire, latest[d])
       /\ sent' = latest[d]
  /\ UNCHANGED <<server, pc, start, since, err, row, errc, reader, reason,
                 shown, interrupt, garbled, drops>>

-----------------------------------------------------------------------------
(* The goroutine.                                                          *)

(* tailOptions: where "now" is, asked once, before the feed is opened.  The
   command fails if that does. *)
Info ==
  /\ pc = "info"
  /\ IF deleted \/ interrupt
       THEN /\ pc' = "ended" /\ reader' = "ended"
            /\ reason' = IF interrupt THEN "cancelled" ELSE "refused"
            /\ UNCHANGED <<start, since>>
       ELSE /\ pc' = "open" /\ start' = updateSeq /\ since' = updateSeq
            /\ UNCHANGED <<reader, reason>>
  /\ UNCHANGED <<server, err, sent, wire, row, errc, shown, interrupt,
                 garbled, drops>>

ResumeNow   == updateSeq                                          \* mutant
ResumeStart == start                                              \* mutant
Resume == since

Open ==
  /\ pc = "open" /\ ~deleted /\ ~interrupt
  /\ pc' = "reading" /\ sent' = Resume /\ wire' = <<>>
  /\ UNCHANGED <<server, start, since, err, row, errc, reader, reason,
                 shown, interrupt, garbled, drops>>

(* The feed ends: as e tells, or because the context is done. *)
FeedEnds(e) ==
  /\ pc' = "returned" /\ err' = e /\ wire' = <<>>
  /\ UNCHANGED <<server, start, since, sent, row, errc, reader, reason,
                 shown, interrupt, garbled>>

(* The body ends, the connection breaks, or the server answers 5xx; what was on
   its way is gone.  The feed of a deleted database ends too. *)
Drop ==
  /\ \/ /\ pc \in {"open", "reading"} /\ drops < MaxDrops
        /\ drops' = drops + 1
     \/ /\ pc = "reading" /\ deleted /\ wire = <<>>
        /\ UNCHANGED drops
  /\ FeedEnds("drop")

(* The database is gone: 404. *)
NotFound ==
  /\ pc = "open" /\ deleted
  /\ FeedEnds("refused")
  /\ UNCHANGED drops

(* The server answers another 4xx; a change is too large to read. *)
Refuse ==
  /\ \/ pc = "open"
     \/ pc = "reading" /\ wire # <<>>
  /\ FeedEnds("refused")
  /\ UNCHANGED drops

CancelRead ==
  /\ pc \in {"open", "reading"} /\ interrupt
  /\ FeedEnds("none")
  /\ UNCHANGED drops

Read ==
  /\ pc = "reading" /\ wire # <<>>
  /\ pc' = "handing" /\ row' = Head(wire) /\ wire' = Tail(wire)
  /\ UNCHANGED <<server, start, since, err, sent, errc, reader, reason,
                 shown, interrupt, garbled, drops>>

(* A line that will not decode is passed over. *)
PassOver ==
  /\ pc = "reading" /\ wire # <<>> /\ Cardinality(garbled) < MaxGarbled
  /\ garbled' = garbled \cup {Head(wire)} /\ wire' = Tail(wire)
  /\ UNCHANGED <<server, pc, start, since, err, sent, row, errc, reader,
                 reason, shown, interrupt, drops>>

(* The select of the callback: the change is taken, or the context is done. *)
HandOver ==
  /\ pc = "handing" /\ reader = "next"
  /\ shown' = Append(shown, row) /\ reader' = "busy"
  /\ since' = row /\ row' = 0
  /\ pc' = "reading"
  /\ UNCHANGED <<server, start, err, sent, wire, errc, reason, interrupt,
                 garbled, drops>>

CancelHandOver ==
  /\ pc = "handing" /\ interrupt
  /\ FeedEnds("none")
  /\ UNCHANGED drops

(* tailReconnectable: every drop is; what the server refused is not. *)
Reconnectable(e) == e # "refused"

Retry ==
  /\ pc = "returned" /\ ~interrupt /\ Reconnectable(err)
  /\ pc' = "sleeping"
  /\ UNCHANGED <<server, start, since, err, sent, wire, row, errc, reader, reason, shown,
                 interrupt, garbled, drops>>

Awake ==
  /\ pc = "sleeping"
  /\ pc' = "open" /\ err' = "none"
  /\ UNCHANGED <<server, start, since, sent, wire, row, errc, reader,
                 reason, shown, interrupt, garbled, drops>>

(* It reports why, once, and closes the channel; an interrupt wins over whatever
   the feed answered.  The report waits for nobody. *)
Why == IF interrupt THEN "cancelled" ELSE err

Room == errc = "none"

Report ==
  /\ \/ pc = "returned" /\ (interrupt \/ ~Reconnectable(err))
     \/ pc = "sleeping" /\ interrupt
  /\ Room
  /\ errc' = Why
  /\ pc' = "ended"
  /\ UNCHANGED <<server, start, since, err, sent, wire, row, reader, reason,
                 shown, interrupt, garbled, drops>>

-----------------------------------------------------------------------------
(* The reader.                                                             *)

Rendered ==
  /\ reader = "busy" /\ reader' = "next"
  /\ UNCHANGED <<server, pc, start, since, err, sent, wire, row, errc,
                 reason, shown, interrupt, garbled, drops>>

(* It asks no more: the stage it feeds has what it wants. *)
Leave ==
  /\ reader = "busy" /\ reader' = "gone"
  /\ UNCHANGED <<server, pc, start, since, err, sent, wire, row, errc,
                 reason, shown, interrupt, garbled, drops>>

Ended ==
  /\ reader = "next" /\ pc = "ended"
  /\ reader' = "ended" /\ reason' = errc
  /\ UNCHANGED <<server, pc, start, since, err, sent, wire, row, errc,
                 shown, interrupt, garbled, drops>>

Goroutine ==
  Info \/ Open \/ NotFound \/ CancelRead \/ Read \/ HandOver \/ CancelHandOver \/ Retry \/ Awake \/ Report

Next ==
  \/ \E d \in Docs : Write(d)
  \/ DeleteDatabase \/ Interrupt \/ Send \/ Drop \/ Refuse \/ PassOver
  \/ Goroutine
  \/ Rendered \/ Leave \/ Ended

Spec == Init /\ [][Next]_vars

(* The goroutine runs on, the server sends what it has and ends the feed of a
   deleted database, the reader renders what it was given, and a line whose last
   stage has ended is cancelled (pipeline.go, execute).  Nothing says that
   the operator interrupts, or that a drop or a write happens. *)
Fairness ==
  /\ WF_vars(Goroutine) /\ WF_vars(Send) /\ WF_vars(deleted /\ Drop)
  /\ WF_vars(Rendered \/ Leave) /\ WF_vars(Ended)
  /\ WF_vars(reader = "gone" /\ Interrupt)

FairSpec == Spec /\ Fairness

-----------------------------------------------------------------------------

(* No change is shown twice or out of order, and none from before the follow
   began, however often the feed was reopened; and what lies between where it
   began and where it would resume was shown, unless its line could not be read
   or the document has changed again since (tailFollow, since = r.Seq). *)
OnceInOrder ==
  /\ \A k \in 1..Len(shown) : shown[k] > start
  /\ \A k \in 1..(Len(shown) - 1) : shown[k] < shown[k + 1]
  /\ pc # "info" =>
       \A d \in Docs :
         latest[d] > start /\ latest[d] =< since => latest[d] \in ToSet(shown) \cup garbled

(* A change made during the follow is shown, or superseded, or could not be read,
   unless the command ends or its reader leaves; and once interrupted the
   goroutine ends, though nobody reads from it again (tailFollow, errc is
   buffered). *)
Delivered ==
  /\ \A d \in Docs, n \in 2..MaxSeq :
       (pc # "info" /\ latest[d] = n /\ n > start)
         ~> (n \in ToSet(shown) \cup garbled \/ latest[d] # n \/ pc = "ended" \/ reader = "gone")
  /\ interrupt ~> pc = "ended"
=============================================================================
