------------------------------ MODULE DocWrites -----------------------------
(***************************************************************************)
(* The commands that read a document, ask, and write it back, run by       *)
(* several operators at once: put, cp, attach, edit, rm and resolve        *)
(* (internal/command), replications cancel (internal/replicate), and       *)
(* security, whose document has no revisions.  Between a read and the      *)
(* write that follows it, anybody may write.                               *)
(*                                                                         *)
(* All act on one document.  A revision is the number it was given; its    *)
(* content is the set of the writes it incorporates.                       *)
(***************************************************************************)
EXTENDS Naturals, Sequences, FiniteSets, FiniteSetsExt

CONSTANTS
  Operators,
  Commands,   \* the commands they may run
  Attempts,   \* maxEditAttempts and cancelAttempts
  MaxLeaves,  \* bound: revisions of the document to begin with, all in conflict
  MaxOthers   \* bound: writes of clients that are not cdb

Nobody == "nobody"

ASSUME WritesAssumption ==
  /\ Commands \subseteq {"put", "putrev", "cp", "attach", "edit", "rm", "rmrev", "rmatt",
                         "resolve", "cancel", "security"}
  /\ Attempts \in Nat \ {0} /\ MaxLeaves \in Nat /\ MaxOthers \in Nat
  /\ Nobody \notin Operators

VARIABLES
  leaves,     \* the live leaf revisions of the document
  last,       \* the last revision given out
  parent,     \* parent[n]: the revision n was written over, 0 if none
  branch,     \* branch[n]: the first revision of its line
  content,    \* content[n]: the writes n incorporates
  by,         \* by[n]: the operator whose command wrote n
  sec,        \* the security document: for whom there is an entry
  pc,         \* where each operator's command stands
  cmd,        \* which command it is
  rev,        \* the revision it would write over
  buf,        \* the content it would write
  keep,       \* resolve: the revision to keep
  drop,       \* resolve: those still to be deleted
  tries,      \* writes attempted
  asked,      \* the revisions its question was about, or the entries it read
  agreed,     \* the operator said yes to a question
  told,       \* what the command ended with, "running" before
  deleted,    \* history: the leaves deleted, [by, rev]
  others

doc   == <<leaves, last, parent, branch, content, by, deleted>>
local == <<cmd, rev, buf, keep, drop, tries, asked, agreed>>
vars  == <<leaves, last, parent, branch, content, by, sec, pc, cmd, rev, buf, keep, drop,
           tries, asked, agreed, told, deleted, others>>

(* The server's choice among the leaves (external): a fixed one, or none. *)
Winner == IF leaves = {} THEN 0 ELSE Max(leaves)

Init ==
  /\ last \in 0..MaxLeaves /\ leaves = 1..last
  /\ parent = [n \in leaves |-> 0] /\ branch = [n \in leaves |-> n]
  /\ content = [n \in leaves |-> {n}] /\ by = [n \in leaves |-> Nobody]
  /\ sec = {Nobody}
  /\ cmd \in [Operators -> Commands]
  /\ pc = [o \in Operators |-> "start"]
  /\ rev = [o \in Operators |-> 0] /\ buf = [o \in Operators |-> {}]
  /\ keep = [o \in Operators |-> 0] /\ drop = [o \in Operators |-> {}]
  /\ tries = [o \in Operators |-> 0] /\ asked = [o \in Operators |-> {}]
  /\ agreed = [o \in Operators |-> FALSE] /\ told = [o \in Operators |-> "running"]
  /\ deleted = {} /\ others = 0

-----------------------------------------------------------------------------
(* The server (external): a write names the leaf it goes over, 0 for none.   *)

Accepts(r) == IF r = 0 THEN leaves = {} ELSE r \in leaves

Stored(r, c, who) ==
  /\ last' = last + 1
  /\ leaves' = (leaves \ {r}) \cup {last + 1}
  /\ parent' = Append(parent, r)
  /\ branch' = Append(branch, IF r = 0 THEN last + 1 ELSE branch[r])
  /\ content' = Append(content, c \cup {last + 1})
  /\ by' = Append(by, who)
  /\ UNCHANGED deleted

Removed(r, who) ==
  /\ leaves' = leaves \ {r}
  /\ deleted' = deleted \cup {[by |-> who, rev |-> r]}
  /\ UNCHANGED <<last, parent, branch, content, by>>

(* Another client updates the document: the scheduler a replication, say. *)
OtherWrites ==
  /\ others < MaxOthers /\ others' = others + 1
  /\ \E r \in leaves : Stored(r, content[r], Nobody)
  /\ UNCHANGED <<sec, pc, local, told>>

-----------------------------------------------------------------------------
(* A command.                                                              *)

Goto(o, where) == pc' = [pc EXCEPT ![o] = where]
End(o, word)   == Goto(o, "done") /\ told' = [told EXCEPT ![o] = word]

(* cancel asks before it looks; the commands that are given a revision, by
   --rev or in the body, do not look at all. *)
Start(o) ==
  /\ pc[o] = "start"
  /\ CASE cmd[o] = "cancel" ->
            Goto(o, "ask") /\ UNCHANGED <<rev, asked>>
       [] cmd[o] \in {"putrev", "rmrev"} ->
            \E r \in 1..last :
              /\ rev' = [rev EXCEPT ![o] = r]
              /\ asked' = [asked EXCEPT ![o] = {r}]
              /\ Goto(o, IF cmd[o] = "rmrev" THEN "ask" ELSE "write")
       [] OTHER -> Goto(o, "read") /\ UNCHANGED <<rev, asked>>
  /\ UNCHANGED <<doc, sec, cmd, buf, keep, drop, tries, agreed, told, others>>

(* The content a read brings: what cdb was given is written as it is, but for
   the attachments and the first read of edit, which start from the document. *)
ReadContent(o) ==
  CASE cmd[o] \in {"attach", "rmatt"} -> content[Winner]
    [] cmd[o] = "edit" /\ tries[o] = 0   -> content[Winner]
    [] OTHER                             -> buf[o]

(* A document that is not there is created by put and cp, and fails the rest. *)
NotFound(o) ==
  /\ pc[o] = "read" /\ Winner = 0 /\ cmd[o] \notin {"put", "cp", "security"}
  /\ End(o, "error")
  /\ UNCHANGED <<doc, sec, local, others>>

Read(o) ==
  /\ pc[o] = "read" /\ cmd[o] \notin {"resolve", "security"}
  /\ Winner = 0 => cmd[o] \in {"put", "cp"}
  /\ rev' = [rev EXCEPT ![o] = Winner]
  /\ buf' = [buf EXCEPT ![o] = IF Winner = 0 THEN {} ELSE ReadContent(o)]
  /\ asked' = [asked EXCEPT ![o] = {Winner}]
  /\ Goto(o, IF cmd[o] \in {"rm", "rmatt"} \/ (cmd[o] = "put" /\ Winner # 0) THEN "ask" ELSE "write")
  /\ UNCHANGED <<doc, sec, cmd, keep, drop, tries, agreed, told, others>>

(* resolve: the operator, or --keep, names one of the leaves. *)
AllButWinner(k) == leaves \ {Winner}                              \* mutant
AllBut(k) == leaves \ {k}

ReadConflicts(o) ==
  /\ pc[o] = "read" /\ cmd[o] = "resolve" /\ leaves # {}
  /\ IF Cardinality(leaves) = 1
       THEN End(o, "nothing") /\ UNCHANGED <<keep, drop, asked>>
       ELSE /\ \E k \in leaves :
                 /\ keep' = [keep EXCEPT ![o] = k]
                 /\ drop' = [drop EXCEPT ![o] = AllBut(k)]
                 /\ asked' = [asked EXCEPT ![o] = AllBut(k)]
            /\ Goto(o, "ask")
            /\ UNCHANGED told
  /\ UNCHANGED <<doc, sec, cmd, rev, buf, tries, agreed, others>>

(* security: what was read, with an entry added or one taken away; nothing is
   asked if that is what it was. *)
ReadSecurity(o) ==
  /\ pc[o] = "read" /\ cmd[o] = "security"
  /\ asked' = [asked EXCEPT ![o] = sec]
  /\ \E entries \in {sec \cup {o}, sec \ {Nobody}} :
       IF entries = sec THEN End(o, "nothing") /\ UNCHANGED buf
       ELSE Goto(o, "ask") /\ buf' = [buf EXCEPT ![o] = entries] /\ UNCHANGED told
  /\ UNCHANGED <<doc, sec, cmd, rev, keep, drop, tries, agreed, others>>

(* edit saves nothing that was not changed. *)
Unchanged(o) ==
  /\ pc[o] = "write" /\ cmd[o] = "edit" /\ tries[o] = 0
  /\ End(o, "nothing")
  /\ UNCHANGED <<doc, sec, local, others>>

-----------------------------------------------------------------------------
(* Confirm: the question is answered, or --yes has; declined stands for every
   other way it ends, an interrupt and a session that cannot ask among them. *)

AfterYes(o) == IF cmd[o] \in {"cancel", "edit"} THEN "read" ELSE "write"

Yes(o) ==
  /\ pc[o] = "ask"
  /\ agreed' = [agreed EXCEPT ![o] = TRUE]
  /\ Goto(o, AfterYes(o))
  /\ UNCHANGED <<doc, sec, cmd, rev, buf, keep, drop, tries, asked, told, others>>

No(o) ==
  /\ pc[o] = "ask"
  /\ End(o, "declined")
  /\ UNCHANGED <<doc, sec, local, others>>

-----------------------------------------------------------------------------
(* The write.                                                              *)

Deletes(o) == cmd[o] \in {"rm", "rmrev", "cancel", "resolve"}

(* resolve deletes one revision after the other; the rest name the one they read. *)
TargetNow(o) == IF cmd[o] = "resolve" THEN Max(drop[o]) ELSE Winner  \* mutant
Target(o) == IF cmd[o] = "resolve" THEN Max(drop[o]) ELSE rev[o]

RetryUnasked(o) ==                                                \* mutant
  CASE cmd[o] \in {"edit", "cancel"} /\ tries[o] + 1 < Attempts -> "read"
    [] OTHER                                                    -> "done"
(* 409: edit asks whether to reapply and cancel reads again, a few times; the
   rest give up. *)
Retry(o) ==
  CASE cmd[o] = "edit" /\ tries[o] + 1 < Attempts   -> "ask"
    [] cmd[o] = "cancel" /\ tries[o] + 1 < Attempts -> "read"
    [] OTHER                                        -> "done"

(* The server does it; its answer may be lost on the way, which no command takes
   for a conflict. *)
OnLostRetry(o) == Retry(o)                                        \* mutant
OnLost(o) == "done"

Write(o, answered) ==
  /\ pc[o] = "write" /\ cmd[o] # "security" /\ Accepts(Target(o))
  /\ tries' = [tries EXCEPT ![o] = @ + 1]
  /\ IF Deletes(o) THEN Removed(Target(o), o) ELSE Stored(Target(o), buf[o], o)
  /\ drop' = [drop EXCEPT ![o] = @ \ {Target(o)}]
  /\ Goto(o, IF ~answered THEN OnLost(o) ELSE IF drop'[o] # {} THEN "write" ELSE "done")
  /\ told' = IF pc'[o] # "done" THEN told
             ELSE [told EXCEPT ![o] = IF answered THEN "done" ELSE "error"]
  /\ UNCHANGED <<sec, cmd, rev, buf, keep, asked, agreed, others>>

Conflict(o) ==
  /\ pc[o] = "write" /\ cmd[o] # "security" /\ ~Accepts(Target(o))
  /\ tries' = [tries EXCEPT ![o] = @ + 1]
  /\ Goto(o, Retry(o))
  /\ told' = IF Retry(o) = "done" THEN [told EXCEPT ![o] = "error"] ELSE told
  /\ UNCHANGED <<doc, sec, cmd, rev, buf, keep, drop, asked, agreed, others>>

(* SetSecurity: the whole object; here too the answer may be lost. *)
WriteSecurity(o, answered) ==
  /\ pc[o] = "write" /\ cmd[o] = "security"
  /\ sec' = buf[o]
  /\ End(o, IF answered THEN "done" ELSE "error")
  /\ UNCHANGED <<doc, local, others>>

(* A request fails before the server has seen it. *)
Fail(o) ==
  /\ pc[o] \in {"read", "write"}
  /\ End(o, "error")
  /\ UNCHANGED <<doc, sec, local, others>>

Step(o) ==
  \/ Start(o) \/ NotFound(o) \/ Read(o) \/ ReadConflicts(o) \/ ReadSecurity(o)
  \/ Unchanged(o) \/ Yes(o) \/ No(o)
  \/ \E answered \in BOOLEAN : Write(o, answered) \/ WriteSecurity(o, answered)
  \/ Conflict(o) \/ Fail(o)

Next == OtherWrites \/ \E o \in Operators : Step(o)

Spec == Init /\ [][Next]_vars

-----------------------------------------------------------------------------

Written(o)  == {n \in 1..last : by[n] = o}
Deletion(o) == {d \in deleted : d.by = o}

(* What put, rm and resolve replace or delete is a revision their question named,
   however long the answer took (Confirm). *)
OnlyWhatWasAsked ==
  \A o \in Operators :
    cmd[o] \in {"put", "rm", "rmrev", "rmatt", "resolve"} =>
      /\ \A d \in Deletion(o) : agreed[o] /\ d.rev \in asked[o]
      /\ \A n \in Written(o) : parent[n] # 0 => agreed[o] /\ parent[n] \in asked[o]

(* Nobody's write is lost to a command unless its operator agreed to it: an
   attachment is added to what was read, and edit asks before it reapplies.
   cp, and put of a body that names the revision it replaces, never ask.  What
   security did to an entry stands, unless the object is now as another command
   wrote it, whatever that was told, that had read it before: the object has no
   revisions to tell (SetSecurity). *)
NothingLostUnasked ==
  /\ \A o \in Operators : \A n \in Written(o) :
       parent[n] # 0 /\ cmd[o] \notin {"cp", "putrev"} =>
         content[parent[n]] \subseteq content[n] \/ agreed[o]
  /\ \A o \in Operators : cmd[o] = "security" /\ told[o] = "done" =>
       \A e \in {o, Nobody} :
         (e \in asked[o]) # (e \in buf[o]) =>
           \/ (e \in sec) = (e \in buf[o])
           \/ \E p \in Operators \ {o} :
                /\ cmd[p] = "security" /\ agreed[p] /\ pc[p] = "done" /\ sec = buf[p]
                /\ (e \in asked[p]) = (e \in asked[o])

(* A command that is not resolve changes the document once at most, however often
   it tries, even if an answer is lost; one that reports success has. *)
ChangedOnce ==
  \A o \in Operators : cmd[o] \notin {"resolve", "security"} =>
    /\ Cardinality(Written(o)) + Cardinality(Deletion(o)) =< 1
    /\ told[o] = "done" => Cardinality(Written(o)) + Cardinality(Deletion(o)) = 1

(* A document resolve says it kept is there, in the revision kept or one written
   over it, unless another command deleted that. *)
KeptIsThere ==
  \A o \in Operators :
    cmd[o] = "resolve" /\ told[o] = "done" =>
      \/ \E n \in leaves : branch[n] = branch[keep[o]]
      \/ \E d \in deleted : d.by # o /\ branch[d.rev] = branch[keep[o]]

=============================================================================
