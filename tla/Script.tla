------------------------------- MODULE Script -------------------------------
(***************************************************************************)
(* Lines and scripts: how the shell, "cdb run" and "cdb < file" run lines  *)
(* that may run further scripts and capture further lines, what of the     *)
(* session each of them changes for its length and puts back, what becomes *)
(* of a failure, and where the working directory is                        *)
(* (internal/shell/script.go, internal/command/run.go, vars.go and         *)
(* confirm.go, internal/session, cmd/cdb/main.go).                         *)
(*                                                                         *)
(* The calls that are under way are a stack: a line within a script within *)
(* a line.  A script's lines are not given beforehand, any line may come   *)
(* next: what holds here holds of every set of files, and of files edited  *)
(* while they run.  The stages of a line are in Pipeline.                  *)
(***************************************************************************)
EXTENDS Naturals, Sequences, FiniteSets

CONSTANTS Names, Values,  \* variables and what they hold
          Servers,
          None,
          MaxDepth,       \* how deeply scripts nest; the code has 8
          MaxLines,       \* bound: physical lines read altogether
          Fronts,         \* ways to start: [kind, prefs, url, env, path, arg], the server of
                          \* --url or --profile and that of the environment, or None;
                          \* arg is the argument of the script of "cdb run"
          Lines           \* the statements a line may hold

\* What a line can come to, and the place and telling of a failure.
Classes == {"ok", "exit", "usage", "error", "canceled"}
Dues == [class : Classes, place : Nat \X Nat, told : Seq(Nat \X Nat), ignored : BOOLEAN]
Prefs == [interactive : BOOLEAN, yes : BOOLEAN, anonymous : BOOLEAN]

ASSUME DepthAssumption == MaxDepth \in Nat
ASSUME NoneAssumption == None \notin Classes \cup Dues
ASSUME FlagsAssumption == /\ \A f \in Fronts : f.prefs \in Prefs
                          /\ \A l \in Lines : l.yes \in BOOLEAN /\ l.anon \in BOOLEAN

VARIABLES front,          \* how this process was started
          prefs,          \* the session's preferences: [interactive, yes, anonymous]
          args,           \* $1, or None
          tables,         \* the variable tables, the innermost last
          conn,           \* the server the session is connected to, or None
          cwd,            \* "root", the --path "start", or a database of a server
          stack,          \* the lines and scripts under way
          mode,           \* read the "next" line, "begin" the statement read, "exec" the
                          \* top line, or "done" with one
          res,            \* what it came to: [class, reported]
          interrupted,    \* Ctrl-C was pressed during this command
          status,         \* the exit code's meaning, when the process has ended
          left,           \* physical lines still to come
          due,            \* history: the last failure, and where it was told
          wiped,          \* history: how the last destructive action was approved
          moved           \* history: a line has connected or changed directory

session == <<prefs, args, tables, conn, cwd>>
history == <<due, wiped, moved>>
vars == <<front, session, stack, mode, res, interrupted, status, left, history>>

Ok == [class |-> "ok", reported |-> FALSE]
Unset == [n \in Names |-> None]

Init == /\ front \in Fronts
        /\ prefs = front.prefs
        /\ args = None
        /\ tables = <<Unset>>
        /\ conn \in {None} \cup IF front.kind = "shell" THEN Servers ELSE {}
        /\ cwd = IF front.path THEN "start" ELSE "root"
        /\ stack = <<>>
        /\ mode = IF front.kind = "shell" THEN "next" ELSE "exec"
        /\ res = Ok
        /\ interrupted = FALSE
        /\ status = None
        /\ left = MaxLines
        /\ due = None
        /\ wiped = None
        /\ moved = FALSE

(***************************************************************************)
(* The stack.                                                              *)
(***************************************************************************)
Top == stack[Len(stack)]
Pop(s) == SubSeq(s, 1, Len(s) - 1)
IsScript(frame) == frame.kind = "script"
Last(is) == CHOOSE i \in is : \A j \in is : j <= i
InScript == stack # <<>> /\ IsScript(Top)
ScriptsOf(s) == {i \in 1..Len(s) : IsScript(s[i])}
Depth(s) == Cardinality(ScriptsOf(s))
WithinScript(s) == \E i \in 1..Len(s) : IsScript(s[i])

\* The place a failure is named by: the innermost script and the first physical
\* line of the statement it is at.
Place ==
  IF ScriptsOf(stack) = {} THEN <<0, 0>>
  ELSE <<Depth(stack), stack[Last(ScriptsOf(stack))].start>>

\* The nearest definition of a name.
Lookup(n) ==
  LET defined == {i \in 1..Len(tables) : tables[i][n] # None} IN
  IF defined = {} THEN None
  ELSE tables[Last(defined)][n]

\* A table writes locally.
SetNearest(n, v) ==
  LET defined == {i \in 1..Len(tables) : tables[i][n] # None}
      at == IF defined = {} THEN Len(tables) ELSE Last(defined)
  IN [tables EXCEPT ![at][n] = v]
Set(n, v) == [tables EXCEPT ![Len(tables)][n] = v]

(***************************************************************************)
(* A result, and the failure behind it.                                    *)
(***************************************************************************)
Return(r) == mode' = "done" /\ res' = r
Came(class) == IF class = "ok" THEN Ok ELSE [class |-> class, reported |-> FALSE]

\* A failure that is made here, and is owed one sentence unless it is Ctrl-C.
NewDue(class, place) ==
  [class |-> class, place |-> place, told |-> <<>>, ignored |-> FALSE]
Fail(class) == /\ Return(Came(class))
               /\ due' = IF class \in {"ok", "exit"} THEN None ELSE NewDue(class, Place)

(***************************************************************************)
(* The length of a line: its preferences go on when it begins and come off *)
(* when it ends, however it ends.                                          *)
(***************************************************************************)
LineFrame(l) == [kind |-> "line", saved |-> prefs, line |-> l, yes |-> l.yes, anon |-> l.anon]

\* A line that does not parse, names an unknown command, or is "cd | ...", or one
\* that refers to a variable or an argument that is not set, fails before anything
\* is changed.
Unparsed(l) == l.cmd = "bad"
UnsetVariable(l) == \/ l.uses \in Names /\ Lookup(l.uses) = None
                    \/ l.uses = "1" /\ args = None
Refused(l) == Unparsed(l) \/ UnsetVariable(l)

ApplyLinePrefs(l) == [prefs EXCEPT !.yes = @ \/ l.yes, !.anonymous = @ \/ l.anon]

\* RunLine: parse, check and prepare the line, and put its preferences on.
RunLine(l) ==
  IF Refused(l)
  THEN /\ Fail("usage")
       /\ UNCHANGED <<prefs, stack>>
  ELSE /\ prefs' = ApplyLinePrefs(l)
       /\ stack' = Append(stack, LineFrame(l))
       /\ mode' = "exec" /\ res' = Ok /\ due' = None

RestoreOnOk(r) == IF r.class = "ok" THEN [prefs EXCEPT !.yes = Top.saved.yes,
                                                       !.anonymous = Top.saved.anonymous]
                  ELSE prefs
Restore(r) == [prefs EXCEPT !.yes = Top.saved.yes, !.anonymous = Top.saved.anonymous]

\* The top line is over.
EndLine(r) == /\ Return(r)
              /\ prefs' = Restore(r)
              /\ stack' = Pop(stack)

\* ... with what its own command came to.
Finish(class) == /\ EndLine(Came(class))
                 /\ due' = IF class \in {"ok", "exit"} THEN None ELSE NewDue(class, Place)

Executing(cmd) == mode = "exec" /\ stack # <<>> /\ Top.line.cmd = cmd

(***************************************************************************)
(* Connections.                                                            *)
(***************************************************************************)
\* A new connection starts at the root of its server.
Attach(s) == conn' = s /\ cwd' = "root"

NeedsClient == mode = "exec" /\ stack # <<>> /\ Top.line.cmd \in {"query", "destroy", "cd"}

\* The server that is dialled when a line names none: a flag before the environment
\* before what is saved.
TargetNamed == front.url # None \/ front.env # None
Targets == IF front.url # None THEN {front.url}
           ELSE IF front.env # None THEN {front.env}
           ELSE Servers

\* Once Ctrl-C was pressed no request is answered.
Outcomes == IF interrupted THEN {"canceled"} ELSE {"ok", "error", "canceled"}

\* The lazy connection, made once before any stage starts.
ConnectFor ==
  /\ NeedsClient /\ conn = None
  /\ \E how \in Outcomes :
       IF how = "ok"
       THEN /\ \E s \in Targets : Attach(s)
            /\ UNCHANGED <<prefs, stack, mode, res, due>>
       ELSE Finish(how) /\ UNCHANGED <<conn, cwd>>
  /\ UNCHANGED <<front, args, tables, interrupted, status, left, wiped, moved>>

\* An argument that is not what the flag names is refused.
Disagrees == front.url \notin {None, Top.line.server}

Connect ==
  /\ Executing("connect")
  /\ \E how \in IF Disagrees THEN {"usage"} ELSE Outcomes :
       /\ Finish(how)
       /\ IF how = "ok" THEN Attach(Top.line.server) /\ moved' = TRUE
          ELSE UNCHANGED <<conn, cwd, moved>>
  /\ UNCHANGED <<front, args, tables, interrupted, status, left, wiped>>

Cd ==
  /\ Executing("cd") /\ conn # None
  /\ \E how \in Outcomes : /\ Finish(how)
                           /\ IF how = "ok" THEN cwd' = conn /\ moved' = TRUE
                              ELSE UNCHANGED <<cwd, moved>>
  /\ UNCHANGED <<front, args, tables, conn, interrupted, status, left, wiped>>

(***************************************************************************)
(* The other commands.                                                     *)
(***************************************************************************)
Query ==
  /\ Executing("query") /\ conn # None
  /\ \E how \in Outcomes : Finish(how)
  /\ UNCHANGED <<front, args, tables, conn, cwd, interrupted, status, left, wiped, moved>>

\* Confirm: --yes answers every question, without it and without a terminal
\* nobody can be asked.
AskableTty == prefs.yes \/ front.prefs.interactive
Askable == prefs.yes \/ prefs.interactive

\* --yes was given: on a line, on "run", or to the process.
GivenYes(s) == front.prefs.yes \/ \E i \in 1..Len(s) : s[i].yes

Destroy ==
  /\ Executing("destroy") /\ conn # None
  /\ \/ ~Askable /\ Finish("usage") /\ UNCHANGED wiped
     \/ /\ ~prefs.yes /\ prefs.interactive
        /\ \E answer \in {"error", "canceled"} : Finish(answer)   \* no, or Ctrl-C
        /\ UNCHANGED wiped
     \/ /\ Askable
        /\ \E how \in Outcomes :
             /\ Finish(how)
             /\ wiped' = IF how # "ok" THEN wiped
                         ELSE IF GivenYes(stack) THEN "given"
                         ELSE IF prefs.yes THEN "unasked"
                         ELSE IF WithinScript(stack) THEN "script"
                         ELSE "asked"
  /\ UNCHANGED <<front, args, tables, conn, cwd, interrupted, status, left, moved>>

SetVar ==
  /\ Executing("set")
  /\ tables' = Set(Top.line.name, Top.line.value)
  /\ Finish("ok")
  /\ UNCHANGED <<front, args, conn, cwd, interrupted, status, left, wiped, moved>>

UnsetVar ==
  /\ Executing("unset")
  /\ tables' = Set(Top.line.name, None)
  /\ Finish("ok")
  /\ UNCHANGED <<front, args, conn, cwd, interrupted, status, left, wiped, moved>>

\* set name = line: the line is parsed and run when "set" runs.
Capture ==
  /\ Executing("capture") /\ left > 0
  /\ \E l \in Lines : RunLine(l)
  /\ left' = left - 1
  /\ UNCHANGED <<front, args, tables, conn, cwd, interrupted, status, wiped, moved>>

Captured ==
  /\ mode = "done" /\ stack # <<>> /\ ~InScript /\ Top.line.cmd = "capture"
  /\ \E v \in Values : tables' = IF res.class = "ok" THEN Set(Top.line.name, v) ELSE tables
  /\ EndLine(res)
  /\ UNCHANGED <<front, args, conn, cwd, interrupted, status, left, history>>

Exit ==
  /\ Executing("exit")
  /\ Finish("exit")
  /\ UNCHANGED <<front, args, tables, conn, cwd, interrupted, status, left, wiped, moved>>

(***************************************************************************)
(* Scripts.                                                                *)
(***************************************************************************)
\* "cdb run" is started by its front end, "run" by a line; "cdb < file" has no
\* file to open.
FromFront == mode = "exec" /\ stack = <<>>
Starting == FromFront \/ Executing("run")

\* The connection a target names is opened before the first line.
OpenFirst ==
  /\ Starting /\ conn = None /\ TargetNamed
  /\ \E how \in Outcomes :
       IF how = "ok"
       THEN /\ \E s \in Targets : Attach(s)
            /\ UNCHANGED <<prefs, stack, mode, res, due>>
       ELSE /\ IF FromFront THEN Fail(how) /\ UNCHANGED <<prefs, stack>> ELSE Finish(how)
            /\ UNCHANGED <<conn, cwd>>
  /\ UNCHANGED <<front, args, tables, interrupted, status, left, wiped, moved>>

ReadyToRun == Starting /\ (conn # None \/ ~TargetNamed)

\* The file cannot be read, or scripts nest too deeply.
NotRun(class) ==
  /\ IF FromFront THEN Fail(class) /\ UNCHANGED <<prefs, stack>> ELSE Finish(class)
  /\ UNCHANGED <<front, args, tables, conn, cwd, interrupted, status, left, wiped, moved>>
NoFile == ReadyToRun /\ ~(FromFront /\ front.kind = "stdin") /\ NotRun("error")
TooDeep == Depth(stack) >= MaxDepth
Nested == ReadyToRun /\ TooDeep /\ NotRun("usage")

\* A script is not interactive, has its own variables and arguments, and yes if
\* "run" was given it.
RunScript ==
  LET given == IF FromFront THEN front.prefs.yes /\ front.kind # "stdin" ELSE Top.line.yes
      own   == IF FromFront THEN front.arg ELSE Top.line.arg
  IN /\ ReadyToRun /\ ~TooDeep
     /\ stack' = Append(stack, [kind |-> "script", saved |-> prefs, args |-> args, yes |-> given,
                                anon |-> FALSE, own |-> own, lineNo |-> 0, start |-> 0,
                                pending |-> FALSE, ignore |-> FALSE])
     /\ prefs' = [prefs EXCEPT !.interactive = FALSE, !.yes = @ \/ given]
     /\ args' = own
     /\ tables' = Append(tables, Unset)
     /\ mode' = "next" /\ res' = Ok
     /\ UNCHANGED <<front, conn, cwd, interrupted, status, left, history>>

\* It puts back what it changed.
EndScript(r) ==
  /\ Return(r)
  /\ prefs' = [prefs EXCEPT !.interactive = Top.saved.interactive, !.yes = Top.saved.yes]
  /\ args' = Top.args
  /\ tables' = Pop(tables)
  /\ stack' = Pop(stack)

\* A physical line: blank, the first or a middle part of a statement, or its end.
Reading == mode = "next" /\ InScript
StartOf(frame) == IF frame.pending THEN frame.start ELSE frame.lineNo + 1
Read(pending, ignore) ==
  [stack EXCEPT ![Len(stack)] = [Top EXCEPT !.lineNo = @ + 1, !.start = StartOf(Top),
                                            !.pending = pending, !.ignore = ignore]]

Blank ==
  /\ Reading /\ left > 0 /\ ~Top.pending
  /\ stack' = [stack EXCEPT ![Len(stack)].lineNo = @ + 1]
  /\ left' = left - 1
  /\ UNCHANGED <<front, session, mode, res, interrupted, status, history>>

Continues ==
  /\ Reading /\ left > 0
  /\ stack' = Read(TRUE, FALSE)
  /\ left' = left - 1
  /\ UNCHANGED <<front, session, mode, res, interrupted, status, history>>

\* The statement is whole: a leading "-" has its failure ignored.
Statement ==
  /\ Reading /\ left > 0
  /\ \E ignore \in BOOLEAN : stack' = Read(FALSE, ignore)
  /\ mode' = "begin"
  /\ left' = left - 1
  /\ UNCHANGED <<front, session, res, interrupted, status, history>>

RunScriptLine ==
  /\ mode = "begin"
  /\ \E l \in Lines : RunLine(l)
  /\ UNCHANGED <<front, args, tables, conn, cwd, interrupted, status, left, wiped, moved>>

Told(place) == [due EXCEPT !.told = Append(@, place)]

\* The end of the file, within a statement or not, or a line too long to read.
EndOfFile ==
  /\ Reading
  /\ \/ /\ ~Top.pending /\ EndScript(Ok) /\ UNCHANGED due
     \/ /\ Top.pending
        /\ EndScript([class |-> "usage", reported |-> TRUE])
        /\ due' = [NewDue("usage", Place) EXCEPT !.told = <<Place>>]
     \/ /\ EndScript([class |-> "error", reported |-> TRUE])
        /\ LET at == <<Depth(stack), Top.lineNo + 1>>
           IN due' = [NewDue("error", at) EXCEPT !.told = <<at>>]
  /\ UNCHANGED <<front, conn, cwd, interrupted, status, left, wiped, moved>>

\* What a line of a script came to.
PassesReported(r) == r.class = "ok" \/ r.reported
Passes(r) == r.class = "ok"
Stops(r) == r.class \in {"exit", "canceled"}
SilentNever(r) == Passes(r) \/ Stops(r)
Silent(r) == Passes(r) \/ Stops(r) \/ r.reported
LineDone ==
  /\ mode = "done" /\ InScript
  /\ IF Stops(res) \/ (~Passes(res) /\ ~Top.ignore)
     THEN EndScript(CASE res.class = "exit"     -> Ok
                      [] res.class = "canceled" -> res
                      [] OTHER                  -> [res EXCEPT !.reported = TRUE])
     ELSE mode' = "next" /\ res' = Ok /\ UNCHANGED <<prefs, args, tables, stack>>
  /\ due' = IF Silent(res) /\ ~(res.reported /\ Top.ignore) THEN due
            ELSE [IF Silent(res) THEN due ELSE Told(Place) EXCEPT !.ignored = Top.ignore]
  /\ UNCHANGED <<front, conn, cwd, interrupted, status, left, wiped, moved>>

\* "run" passes on what its script came to.
ScriptDone ==
  /\ mode = "done" /\ stack # <<>> /\ ~InScript /\ Top.line.cmd = "run"
  /\ EndLine(res)
  /\ UNCHANGED <<front, args, tables, conn, cwd, interrupted, status, left, history>>

(***************************************************************************)
(* The front ends.                                                         *)
(***************************************************************************)
Prompt ==
  /\ mode = "next" /\ stack = <<>> /\ status = None /\ left > 0
  /\ \E l \in Lines : RunLine(l)
  /\ interrupted' = FALSE
  /\ left' = left - 1
  /\ UNCHANGED <<front, args, tables, conn, cwd, status, wiped, moved>>

\* reportError and Execute: a failure is told unless it was, or is Ctrl-C.
Report == IF Silent(res) THEN due ELSE Told(<<0, 0>>)

ShellDone ==
  /\ mode = "done" /\ stack = <<>> /\ front.kind = "shell"
  /\ due' = Report
  /\ mode' = "next" /\ res' = Ok
  /\ status' = IF res.class = "exit" THEN "ok" ELSE None
  /\ UNCHANGED <<front, session, stack, interrupted, left, wiped, moved>>

ProcessDone ==
  /\ mode = "done" /\ stack = <<>> /\ front.kind # "shell"
  /\ due' = Report
  /\ mode' = "next" /\ res' = Ok
  /\ status' = res.class
  /\ UNCHANGED <<front, session, stack, interrupted, left, wiped, moved>>

CtrlC ==
  /\ ~interrupted /\ status = None /\ stack # <<>>
  /\ interrupted' = TRUE
  /\ UNCHANGED <<front, session, stack, mode, res, status, left, history>>

Next == \/ ConnectFor \/ Connect \/ Cd \/ Query \/ Destroy \/ SetVar \/ UnsetVar
        \/ Capture \/ Captured \/ Exit
        \/ OpenFirst \/ NoFile \/ Nested \/ RunScript
        \/ Blank \/ Continues \/ Statement \/ RunScriptLine \/ EndOfFile \/ LineDone \/ ScriptDone
        \/ Prompt \/ ShellDone \/ ProcessDone \/ CtrlC

Spec == Init /\ [][Next]_vars

(***************************************************************************)
(* Properties                                                              *)
(***************************************************************************)
(* What the session's preferences are worth with these lines and scripts under *)
(* way: each --yes and --anonymous for the length of its own line, and no      *)
(* question within a script.                                                   *)
PrefsOf(s) == [interactive |-> front.prefs.interactive /\ ~WithinScript(s),
               yes         |-> GivenYes(s),
               anonymous   |-> front.prefs.anonymous \/ \E i \in 1..Len(s) : s[i].anon]

(* Preferences are those of the lines and scripts under way, and everything    *)
(* changed is put back however a line or a script ends (applyLinePrefs and     *)
(* RunScript: "everything it changed about the session's preferences is put    *)
(* back when it returns").                                                     *)
PrefsScoped == prefs = PrefsOf(stack)

(* Nothing is destroyed in a script without a --yes, nor at a prompt without   *)
(* one or an answer: "silently proceeding with a destructive action is the one *)
(* thing cdb must never do" (askable).                                         *)
NeverUnasked == wiped \in {None, "given", "asked"}

(* A step writes the innermost table only: a script, whatever lines it         *)
(* captures or scripts it runs, never changes its caller's variables           *)
(* (Vars.Child).                                                               *)
OnlyItsOwn ==
  [][\A i \in 1..Len(tables) : i < Len(tables) /\ i <= Len(tables') => tables'[i] = tables[i]]_vars

(* A failure is told exactly once, by the innermost script it happened in and  *)
(* the line that script is at, however many scripts and captures it travels    *)
(* through and whoever ignores it; Ctrl-C is told by nobody (runScriptLine,    *)
(* ReportedError, reportError).                                                *)
SaidOnce ==
  mode = "next" /\ due # None =>
    due.told = IF due.class = "canceled" THEN <<>> ELSE <<due.place>>

(* A process ends with the exit code of the failure that stopped it, and with  *)
(* success if none did or it was ignored (Execute, runStdinScript, ExitCode).  *)
CodeIsTrue ==
  status # None => status = IF due = None \/ due.ignored THEN "ok" ELSE due.class

(* --path "start[s] at a virtual path" (README.md:237), and is applied "after  *)
(* the connection", or it "would be silently thrown away" (cli.go:132-135): it *)
(* is where the first request of the process is made.                          *)
PathKept == front.path /\ ~moved /\ NeedsClient /\ conn # None => cwd = "start"
=============================================================================
