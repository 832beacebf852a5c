------------------------------ MODULE Pipeline ------------------------------
(***************************************************************************)
(* One line of the shell, "a | b | c" (internal/shell/pipeline.go): every  *)
(* stage but the last runs in a goroutine of its own and hands its values  *)
(* on through a bounded channel; the last runs in the caller.  The first   *)
(* failure cancels the others, and the line returns when all have ended.   *)
(*                                                                         *)
(* A stage leaves through its deferred calls, each a step here: a failure  *)
(* is recorded, the line is cancelled, the stage counts as reported, its   *)
(* channel is closed, and it is off the wait group.                        *)
(***************************************************************************)
EXTENDS Naturals, Sequences, FiniteSets, SequencesExt

CONSTANTS
  N,          \* the number of stages
  Cap,        \* the capacity of a channel (stageBuffer)
  Values,     \* what the stages hand to one another
  Source,     \* the values the first stage has to give
  Outs        \* Outs[i][v]: what stage i makes of the value v

ASSUME PipelineAssumption ==
  /\ N \in Nat \ {0, 1}
  /\ Cap \in Nat \ {0}
  /\ Source \in Seq(Values)
  /\ \A i \in 2..N : Outs[i] \in [Values -> Seq(Values)]

Stages    == 1..N
Producers == 1..(N - 1)

VARIABLES
  feed,       \* "finite", or "live": the first stage never runs dry
  pc,         \* pc[i]: where stage i stands
  given,      \* how many values the first stage has read from its feed
  pend,       \* pend[i]: values stage i has made and not yet sent
  chan,       \* chan[i]: the channel stage i writes
  closed,     \* closed[i]: it has been closed
  reported,   \* the stages that have said whether they are live
  live,       \* one of them was
  decided,    \* how the last stage renders: "unasked", "live" or "finite"
  cancelled,  \* the context of the line has been cancelled
  interrupt,  \* the context the line was given has: Ctrl-C
  err,        \* err[i]: "none", or why stage i ends: "own" or "cancelled"
  fail,       \* the failure on record, [stage, why]
  out,        \* the values the last stage has written
  early,      \* it stopped before its source ran dry
  result      \* what the line returns, [stage, why]

vars == <<feed, pc, given, pend, chan, closed, reported, live, decided,
          cancelled, interrupt, err, fail, out, early, result>>

None    == [stage |-> 0, why |-> "none"]
Running == [stage |-> 0, why |-> "running"]
Ok      == [stage |-> 0, why |-> "ok"]

Done == cancelled \/ interrupt

Init ==
  /\ feed \in {"finite", "live"}
  /\ pc = [i \in Stages |-> "start"]
  /\ given = 0
  /\ pend = [i \in Producers |-> <<>>]
  /\ chan = [i \in Producers |-> <<>>]
  /\ closed = [i \in Producers |-> FALSE]
  /\ reported = {} /\ live = FALSE /\ decided = "unasked"
  /\ cancelled = FALSE /\ interrupt = FALSE
  /\ err = [i \in Stages |-> "none"] /\ fail = None
  /\ out = <<>> /\ early = FALSE /\ result = Running

Goto(i, label) == pc' = [pc EXCEPT ![i] = label]

FailsUnsaid(i, why) ==                                            \* mutant
  /\ Goto(i, IF i = N THEN "finished" ELSE "leaving")
  /\ UNCHANGED err

(* Stage i ends with an error. *)
Fails(i, why) ==
  /\ Goto(i, "failing")
  /\ err' = [err EXCEPT ![i] = why]

-----------------------------------------------------------------------------
(* Every stage but the last.                                               *)

(* The stage has its result and says whether it is a feed with no end. *)
Report(i) ==
  /\ i \in Producers /\ pc[i] = "start"
  /\ reported' = reported \cup {i}
  /\ live' = (live \/ (i = 1 /\ feed = "live"))
  /\ Goto(i, "run")
  /\ UNCHANGED <<feed, given, pend, chan, closed, decided, cancelled, interrupt,
                 err, fail, out, early, result>>

(* The first stage reads its feed.  One with an end runs dry; one without
   waits for the next value. *)
Produce ==
  /\ pc[1] = "run" /\ pend[1] = <<>>
  /\ IF given < Len(Source)
       THEN /\ given' = given + 1
            /\ pend' = [pend EXCEPT ![1] = <<Source[given + 1]>>]
            /\ UNCHANGED pc
       ELSE /\ feed = "finite"
            /\ Goto(1, "leaving")
            /\ UNCHANGED <<given, pend>>
  /\ UNCHANGED <<feed, chan, closed, reported, live, decided, cancelled,
                 interrupt, err, fail, out, early, result>>

(* receive, in the middle of a line. *)
Receive(i) ==
  /\ i \in Producers \ {1} /\ pc[i] = "run" /\ pend[i] = <<>>
  /\ IF chan[i - 1] # <<>>
       THEN /\ pend' = [pend EXCEPT ![i] = Outs[i][Head(chan[i - 1])]]
            /\ chan' = [chan EXCEPT ![i - 1] = Tail(@)]
            /\ UNCHANGED pc
       ELSE /\ closed[i - 1]
            /\ Goto(i, "leaving")
            /\ UNCHANGED <<pend, chan>>
  /\ UNCHANGED <<feed, given, closed, reported, live, decided, cancelled,
                 interrupt, err, fail, out, early, result>>

Room(i) == Len(chan[i]) < Cap

(* send: a full channel makes the stage wait. *)
Send(i) ==
  /\ i \in Producers /\ pc[i] = "run" /\ pend[i] # <<>>
  /\ Room(i)
  /\ chan' = [chan EXCEPT ![i] = Append(@, Head(pend[i]))]
  /\ pend' = [pend EXCEPT ![i] = Tail(@)]
  /\ UNCHANGED <<feed, pc, given, closed, reported, live, decided, cancelled,
                 interrupt, err, fail, out, early, result>>

(* The select of receive and send: a cancelled line may be noticed at either,
   even when a value or a place is there. *)
NoticeOnRead(i) ==                                                \* mutant
  /\ Done /\ pc[i] \in {"start", "run"}
  /\ i \in Producers => pend[i] = <<>>
Notices(i) == Done /\ pc[i] \in {"start", "run"}

Notice(i) ==
  /\ Notices(i)
  /\ Fails(i, "cancelled")
  /\ UNCHANGED <<feed, given, pend, chan, closed, reported, live, decided,
                 cancelled, interrupt, fail, out, early, result>>

(* A stage fails of itself: its command, its filter, or its feed. *)
FailsItself(i) ==
  /\ pc[i] \in {"start", "run"}
  /\ Fails(i, "own")
  /\ UNCHANGED <<feed, given, pend, chan, closed, reported, live, decided,
                 cancelled, interrupt, fail, out, early, result>>

(* The first failure of a line is the one that is kept. *)
RecordedLast(i) == [stage |-> i, why |-> err[i]]                  \* mutant
Recorded(i) == IF fail = None THEN [stage |-> i, why |-> err[i]] ELSE fail

Record(i) ==
  /\ pc[i] = "failing"
  /\ fail' = Recorded(i)
  /\ Goto(i, IF i = N THEN "finished" ELSE "recorded")
  /\ UNCHANGED <<feed, given, pend, chan, closed, reported, live, decided,
                 cancelled, interrupt, err, out, early, result>>

Cancel(i) ==
  /\ i \in Producers /\ pc[i] = "recorded"
  /\ cancelled' = TRUE
  /\ Goto(i, "leaving")
  /\ UNCHANGED <<feed, given, pend, chan, closed, reported, live, decided,
                 interrupt, err, fail, out, early, result>>

(* A stage that failed before it had a result still reports. *)
Leave(i) ==
  /\ i \in Producers /\ pc[i] = "leaving"
  /\ reported' = reported \cup {i}
  /\ Goto(i, "closing")
  /\ UNCHANGED <<feed, given, pend, chan, closed, live, decided, cancelled,
                 interrupt, err, fail, out, early, result>>

CloseChan(i) ==
  /\ i \in Producers /\ pc[i] = "closing"
  /\ closed' = [closed EXCEPT ![i] = TRUE]
  /\ Goto(i, "closed")
  /\ UNCHANGED <<feed, given, pend, chan, reported, live, decided, cancelled,
                 interrupt, err, fail, out, early, result>>

SignOff(i) ==
  /\ i \in Producers /\ pc[i] = "closed"
  /\ Goto(i, "gone")
  /\ UNCHANGED <<feed, given, pend, chan, closed, reported, live, decided,
                 cancelled, interrupt, err, fail, out, early, result>>

-----------------------------------------------------------------------------
(* The last stage, in the caller.                                          *)

(* It renders as a feed when a stage above it is one, which it waits to be
   told. *)
Answered == reported = Producers

Decide ==
  /\ pc[N] = "start"
  /\ Answered
  /\ decided' = IF live THEN "live" ELSE "finite"
  /\ Goto(N, "run")
  /\ UNCHANGED <<feed, given, pend, chan, closed, reported, live, cancelled,
                 interrupt, err, fail, out, early, result>>

Write ==
  /\ pc[N] = "run"
  /\ IF chan[N - 1] # <<>>
       THEN /\ out' = out \o Outs[N][Head(chan[N - 1])]
            /\ chan' = [chan EXCEPT ![N - 1] = Tail(@)]
            /\ UNCHANGED pc
       ELSE /\ closed[N - 1]
            /\ Goto(N, "finished")
            /\ UNCHANGED <<out, chan>>
  /\ UNCHANGED <<feed, given, pend, closed, reported, live, decided, cancelled,
                 interrupt, err, fail, early, result>>

StopEarly ==
  /\ pc[N] = "run"
  /\ early' = TRUE
  /\ Goto(N, "finished")
  /\ UNCHANGED <<feed, given, pend, chan, closed, reported, live, decided,
                 cancelled, interrupt, err, fail, out, result>>

(* Whatever still waits on a send is released. *)
Release ==
  /\ pc[N] = "finished"
  /\ cancelled' = TRUE
  /\ Goto(N, "joining")
  /\ UNCHANGED <<feed, given, pend, chan, closed, reported, live, decided,
                 interrupt, err, fail, out, early, result>>

NeverJoined == TRUE                                               \* mutant
Joined == \A i \in Producers : pc[i] = "gone"

(* The cancellation that Release caused is not a failure of the line. *)
Shutdown == err[N] = "none" /\ ~interrupt /\ fail.why = "cancelled"

Return ==
  /\ pc[N] = "joining" /\ Joined
  /\ result' = IF fail = None \/ Shutdown THEN Ok ELSE fail
  /\ Goto(N, "gone")
  /\ UNCHANGED <<feed, given, pend, chan, closed, reported, live, decided,
                 cancelled, interrupt, err, fail, out, early>>

CtrlC ==
  /\ ~interrupt /\ result = Running
  /\ interrupt' = TRUE
  /\ UNCHANGED <<feed, pc, given, pend, chan, closed, reported, live, decided,
                 cancelled, err, fail, out, early, result>>

-----------------------------------------------------------------------------
(* What stage i does without being made to. *)
Step(i) ==
  \/ Report(i) \/ Receive(i) \/ Send(i) \/ Notice(i) \/ Record(i) \/ Cancel(i)
  \/ Leave(i) \/ CloseChan(i) \/ SignOff(i)
  \/ i = 1 /\ Produce
  \/ i = N /\ (Decide \/ Write \/ Release \/ Return)

Next == \/ \E i \in Stages : Step(i) \/ FailsItself(i)
        \/ StopEarly \/ CtrlC

(* Every goroutine that can go on does. *)
Spec == Init /\ [][Next]_vars /\ \A i \in Stages : WF_vars(Step(i))

-----------------------------------------------------------------------------
(* Properties                                                              *)

(* What the line makes of the whole source, one stage after the other. *)
Made[i \in Stages] ==
  IF i = 1 THEN Source
  ELSE FlattenSeq([k \in 1..Len(Made[i - 1]) |-> Outs[i][Made[i - 1][k]]])
Whole == Made[N]

(* What is written is always the beginning of what the line makes of its
   source: no interleaving of stages loses, repeats or reorders a value, even
   while the line is being torn down (send, receive, streamResult). *)
InOrder == IsPrefix(out, Whole)

(* A line that reports success has written everything, unless its last stage
   stopped of its own accord: a channel closed by a stage that failed is not
   mistaken for the end of the values (execute, the order of its defers). *)
NoSilentEnd == (result = Ok /\ ~early) => out = Whole /\ feed = "finite"

(* The failure a line returns is the one that started its end: a stage that
   was only cancelled by another is never blamed, and cancellation is the
   outcome only if it was asked for (failure.record, execute 182-188). *)
TheCause ==
  /\ result.why = "cancelled" => interrupt
  /\ (result.why \in {"own", "cancelled"} /\ ~interrupt) => err[result.stage] = "own"
  /\ (result = Ok /\ ~early) => \A i \in Stages : err[i] = "none"

(* A line ends when its source does, when a stage fails, when its last stage
   has had enough, or on Ctrl-C: full channels and waits never hold it up. *)
LineEnds ==
  (feed = "finite" \/ interrupt \/ pc[N] = "finished" \/ \E i \in Stages : err[i] # "none")
    ~> (result # Running)

(* Seen from outside the line is that of Line: what is on the screen only grows,
   by values in their order, while the last stage reads; it ends once, as it
   should; and when it has returned no goroutine of it is left to fail or to write
   (execute, which waits for the group before it looks at the failure). *)
Promise == INSTANCE Line WITH
  said    <- out,
  broken  <- {i \in Stages : err[i] = "own"},
  asked   <- interrupt,
  sated   <- early,
  endless <- (feed = "live"),
  outcome <- result
IsALine == Promise!Spec
=============================================================================
