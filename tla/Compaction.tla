----------------------------- MODULE Compaction -----------------------------
(***************************************************************************)
(* compact --cleanup --watch (internal/command/compact.go): a question,    *)
(* one or two requests, and then a look at the server's tasks every two    *)
(* seconds until the compaction is over.  The server answers at once,      *)
(* begins when it likes, and says nothing of a task that is over; it does  *)
(* not say whose a task is.                                                *)
(*                                                                         *)
(* The clock counts the pauses between two looks, from the moment the      *)
(* watch begins.  The rows that are drawn meanwhile are left out.          *)
(***************************************************************************)
EXTENDS Naturals

CONSTANT Window  \* how many pauses a task that was never seen is waited for

ASSUME WindowAssumption == Window \in Nat

VARIABLES
  own,      \* this compaction: "none", "queued", "running" or "over"
  theirs,   \* another of the same database, that someone else asked for
  options,  \* [cleanup, watch]
  step,     \* where the command is
  clock,
  seen,     \* a task of the database was in a list
  stranger, \* one of those was someone else's
  atEnd     \* what had become of this compaction when it was said to be over

watchVars == <<own, theirs, options, step, clock, seen, stranger, atEnd>>

Watching == step \in {"poll", "pause"}
Ended    == {"declined", "started", "finished", "failed", "interrupted"}

WatchInit ==
  /\ own = "none" /\ theirs \in {"none", "queued"}
  /\ options \in [cleanup : BOOLEAN, watch : BOOLEAN]
  /\ step = "confirm" /\ clock = 0 /\ seen = FALSE /\ stranger = FALSE
  /\ atEnd = "none"

-----------------------------------------------------------------------------
(* The server.                                                             *)

Moves(task, task2) ==
  \/ task = "queued"  /\ task2 = "running"
  \/ task = "running" /\ task2 = "over"

Advance ==
  /\ \E t \in {"running", "over"} : Moves(own, t) /\ own' = t
  /\ UNCHANGED <<theirs, options, step, clock, seen, stranger, atEnd>>

AdvanceTheirs ==
  /\ \E t \in {"running", "over"} : Moves(theirs, t) /\ theirs' = t
  /\ UNCHANGED <<own, options, step, clock, seen, stranger, atEnd>>

-----------------------------------------------------------------------------
(* The command.                                                            *)

AfterPost == IF options.cleanup THEN "cleanup" ELSE IF options.watch THEN "poll" ELSE "started"
AfterCleanup == IF options.watch THEN "poll" ELSE "started"

Confirm ==
  /\ step = "confirm" /\ step' \in {"post", "declined"}
  /\ UNCHANGED <<own, theirs, options, clock, seen, stranger, atEnd>>

(* Compact, CompactView: a failure may have begun a compaction all the same. *)
Post ==
  /\ step = "post"
  /\ \/ step' = AfterPost /\ own' = "queued"
     \/ step' = "failed" /\ own' \in {"none", "queued"}
  /\ UNCHANGED <<theirs, options, clock, seen, stranger, atEnd>>

ViewCleanup ==
  /\ step = "cleanup" /\ step' \in {AfterCleanup, "failed"}
  /\ UNCHANGED <<own, theirs, options, clock, seen, stranger, atEnd>>

(* compactionTasksFor, of what the server lists. *)
CompactionTasks == own = "running" \/ theirs = "running"

LateNever == FALSE                                                \* mutant
Late == clock > Window

(* When the watch takes the compaction to be over. *)
OverLate(active) == Late \/ (seen /\ ~active)                     \* mutant
Over(active) == ~active /\ (seen \/ Late)

Poll ==
  /\ step = "poll"
  /\ seen' = (seen \/ CompactionTasks)
  /\ stranger' = (stranger \/ theirs = "running")
  /\ IF Over(CompactionTasks)
       THEN step' = "finished" /\ atEnd' = own
       ELSE step' = "pause" /\ UNCHANGED atEnd
  /\ UNCHANGED <<own, theirs, options, clock>>

Pause ==
  /\ step = "pause" /\ step' = "poll"
  /\ clock' = IF clock > Window THEN clock ELSE clock + 1
  /\ UNCHANGED <<own, theirs, options, seen, stranger, atEnd>>

(* A request that takes its time. *)
Slow ==
  /\ step = "poll" /\ clock =< Window /\ clock' = clock + 1
  /\ UNCHANGED <<own, theirs, options, step, seen, stranger, atEnd>>

EndWatch ==
  /\ Watching /\ step' \in {"failed", "interrupted"}
  /\ UNCHANGED <<own, theirs, options, clock, seen, stranger, atEnd>>

WatchNext ==
  \/ Advance \/ AdvanceTheirs
  \/ Confirm \/ Post \/ ViewCleanup \/ Poll \/ Pause \/ Slow \/ EndWatch

-----------------------------------------------------------------------------
(* What must hold.                                                         *)

(* "Finished" is said of a compaction that is over: never of one that runs, and
   of one that has not begun only when it had not shown itself inside the
   window, or when somebody else's was taken for it (watchCompactionWith). *)
FinishedIsTrue ==
  step = "finished" =>
    \/ atEnd = "over"
    \/ atEnd = "queued" /\ (stranger \/ Late)

(* The watch ends, though the compaction was over before the first look at the
   tasks, or never begins (Late). *)
WatchEnds == Watching ~> step \in Ended
=============================================================================
