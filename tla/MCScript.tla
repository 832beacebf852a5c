------------------------------ MODULE MCScript ------------------------------
(* A process of each kind, with and without flags, and one line of each kind: the
   last of them are captures and scripts, with and without --yes, which is what
   nests. *)
EXTENDS Script

CONSTANTS x, v1, s1, s2

Plain == [cmd |-> "bad", yes |-> FALSE, anon |-> FALSE, uses |-> None,
          name |-> None, value |-> None, arg |-> None, server |-> None]
L(cmd) == [Plain EXCEPT !.cmd = cmd]

MCLines ==
  {L("bad"), L("query"), L("cd"), L("exit"), L("destroy"),
   [L("query") EXCEPT !.uses = x, !.anon = TRUE], [L("query") EXCEPT !.uses = "1"],
   [L("destroy") EXCEPT !.yes = TRUE],
   [L("connect") EXCEPT !.server = s1], [L("connect") EXCEPT !.server = s2, !.anon = TRUE],
   [L("set") EXCEPT !.name = x, !.value = v1], [L("unset") EXCEPT !.name = x],
   [L("capture") EXCEPT !.name = x], [L("capture") EXCEPT !.name = x, !.yes = TRUE],
   L("run"), [L("run") EXCEPT !.yes = TRUE, !.arg = v1]}

P(i, y, n) == [interactive |-> i, yes |-> y, anonymous |-> n]
F(kind, p, url, env, path, arg) ==
  [kind |-> kind, prefs |-> p, url |-> url, env |-> env, path |-> path, arg |-> arg]
MCFronts == {F("shell", P(TRUE, FALSE, FALSE), None, None, FALSE, None),
             F("oneshot", P(TRUE, FALSE, FALSE), s1, s2, FALSE, v1),
             F("oneshot", P(FALSE, TRUE, TRUE), None, None, TRUE, None),
             F("oneshot", P(FALSE, FALSE, FALSE), None, s1, TRUE, None),
             F("stdin", P(FALSE, FALSE, FALSE), None, s2, FALSE, None)}

(* `cdb run --path /x --url ... file`: --path with a target on the command line. *)
NamedFronts == {F("oneshot", P(FALSE, FALSE, FALSE), s1, None, TRUE, None)}
=============================================================================
