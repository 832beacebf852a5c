---------------------------- MODULE ScriptProofs ----------------------------
(***************************************************************************)
(* Proofs about Script: for every set of lines, of scripts and of ways to  *)
(* start, however deeply scripts and captures nest.                        *)
(*                                                                         *)
(* What a line or a script puts back is what it saved, so that the         *)
(* invariant says of every frame, not of the top one only, that what it    *)
(* saved is what the frames below it are worth (Saved).  The rest says     *)
(* which kind of frame is on top when a command runs, without which the    *)
(* end of a command could be taken for the end of a script.                *)
(***************************************************************************)
EXTENDS Script, SequenceTheorems, FiniteSetTheorems, WellFoundedInduction, TLAPS

(***************************************************************************)
(* The frames of the stack, and the invariant.                             *)
(***************************************************************************)
Parameters == {None} \cup {l.arg : l \in Lines} \cup {f.arg : f \in Fronts}
LineFrames == [kind : {"line"}, saved : Prefs, line : Lines, yes : BOOLEAN, anon : BOOLEAN]
ScriptFrames == [kind : {"script"}, saved : Prefs, args : Parameters, yes : BOOLEAN,
                 anon : {FALSE}, own : Parameters, lineNo : Nat, start : Nat,
                 pending : BOOLEAN, ignore : BOOLEAN]
Frames == LineFrames \cup ScriptFrames

\* What was under way when a frame began.
Below(s, i) == SubSeq(s, 1, i - 1)

Typed == /\ front \in Fronts
         /\ args \in Parameters
         /\ stack \in Seq(Frames)
LineOnTop == mode = "exec" /\ stack # <<>> => ~IsScript(Top)
Saved == \A i \in 1..Len(stack) : stack[i].saved = PrefsOf(Below(stack, i))
IInv == Typed /\ LineOnTop /\ PrefsScoped /\ Saved /\ NeverUnasked

\* --anonymous was given on a line.
Anon(s) == \E i \in 1..Len(s) : s[i].anon

(* What the preferences are worth is a matter of each frame by itself: one *)
(* more frame adds its own flags (applyLinePrefs, RunScript).              *)
LEMMA OnTop ==
  ASSUME NEW s \in Seq(Frames), NEW f \in Frames
  PROVE  /\ WithinScript(Append(s, f)) <=> WithinScript(s) \/ IsScript(f)
         /\ GivenYes(Append(s, f)) <=> GivenYes(s) \/ f.yes
         /\ Anon(Append(s, f)) <=> Anon(s) \/ f.anon
         /\ Append(s, f) \in Seq(Frames)
         /\ Below(Append(s, f), Len(s) + 1) = s
         /\ \A i \in 1..Len(s) : /\ Append(s, f)[i] = s[i]
                                 /\ Below(Append(s, f), i) = Below(s, i)
  <1>1. /\ Append(s, f) \in Seq(Frames)
        /\ Len(Append(s, f)) = Len(s) + 1
        /\ Append(s, f)[Len(s) + 1] = f
        /\ \A i \in 1..Len(s) : Append(s, f)[i] = s[i]
    OBVIOUS
  <1>2. 1..(Len(s) + 1) = 1..Len(s) \cup {Len(s) + 1}
    OBVIOUS
  <1>3. WithinScript(Append(s, f)) <=> WithinScript(s) \/ IsScript(f)
    BY <1>1, <1>2 DEF WithinScript
  <1>4. GivenYes(Append(s, f)) <=> GivenYes(s) \/ f.yes
    BY <1>1, <1>2 DEF GivenYes
  <1>5. Anon(Append(s, f)) <=> Anon(s) \/ f.anon
    BY <1>1, <1>2 DEF Anon
  <1>6. Below(Append(s, f), Len(s) + 1) = s
    BY <1>1 DEF Below
  <1>7. \A i \in 1..Len(s) : Below(Append(s, f), i) = Below(s, i)
    BY <1>1 DEF Below
  <1> QED BY <1>1, <1>3, <1>4, <1>5, <1>6, <1>7

(* ... and the top one, when it goes, takes no more than its own flags     *)
(* away.                                                                   *)
LEMMA OffTop ==
  ASSUME NEW s \in Seq(Frames), s # <<>>
  PROVE  /\ Pop(s) \in Seq(Frames)
         /\ Pop(s) = Below(s, Len(s))
         /\ Len(Pop(s)) = Len(s) - 1
         /\ WithinScript(s) <=> WithinScript(Pop(s)) \/ IsScript(s[Len(s)])
         /\ GivenYes(s) <=> GivenYes(Pop(s)) \/ s[Len(s)].yes
         /\ Anon(s) <=> Anon(Pop(s)) \/ s[Len(s)].anon
         /\ \A i \in 1..Len(Pop(s)) : /\ Pop(s)[i] = s[i]
                                      /\ Below(Pop(s), i) = Below(s, i)
  <1>1. /\ Len(s) \in Nat \ {0}
        /\ Pop(s) \in Seq(Frames)
        /\ Len(Pop(s)) = Len(s) - 1
        /\ \A i \in 1..Len(Pop(s)) : Pop(s)[i] = s[i]
    <2>1. Len(s) \in Nat \ {0} /\ \A i \in 1..Len(s) : s[i] \in Frames
      OBVIOUS
    <2>2. /\ SubSeq(s, 1, Len(s) - 1) \in Seq(Frames)
          /\ Len(SubSeq(s, 1, Len(s) - 1)) = Len(s) - 1
          /\ \A i \in 1..(Len(s) - 1) : SubSeq(s, 1, Len(s) - 1)[i] = s[i]
      <3> DEFINE n == Len(s) - 1
      <3>1. n \in Nat /\ n - 1 + 1 = n /\ \A i \in 1..n : s[i] \in Frames /\ 1 + i - 1 = i
        BY <2>1
      <3>2. /\ SubSeq(s, 1, n) \in Seq(Frames)
            /\ Len(SubSeq(s, 1, n)) = IF 1 <= n THEN n - 1 + 1 ELSE 0
            /\ \A i \in 1..(n - 1 + 1) : SubSeq(s, 1, n)[i] = s[1 + i - 1]
        <4> HIDE DEF n
        <4> QED BY <3>1, SubSeqProperties
      <3> HIDE DEF n
      <3>3. /\ SubSeq(s, 1, n) \in Seq(Frames)
            /\ Len(SubSeq(s, 1, n)) = n
            /\ \A i \in 1..n : SubSeq(s, 1, n)[i] = s[i]
        BY <3>1, <3>2
      <3> QED BY <3>3 DEF n
    <2> QED BY <2>1, <2>2 DEF Pop
  <1>2. 1..Len(s) = 1..Len(Pop(s)) \cup {Len(s)}
    BY <1>1
  <1>3. WithinScript(s) <=> WithinScript(Pop(s)) \/ IsScript(s[Len(s)])
    BY <1>1, <1>2 DEF WithinScript
  <1>4. GivenYes(s) <=> GivenYes(Pop(s)) \/ s[Len(s)].yes
    BY <1>1, <1>2 DEF GivenYes
  <1>5. Anon(s) <=> Anon(Pop(s)) \/ s[Len(s)].anon
    BY <1>1, <1>2 DEF Anon
  <1>6. \A i \in 1..Len(Pop(s)) : Below(Pop(s), i) = Below(s, i)
    BY <1>1 DEF Below, Pop
  <1>7. Pop(s) = Below(s, Len(s))
    BY DEF Pop, Below
  <1> QED BY <1>1, <1>3, <1>4, <1>5, <1>6, <1>7

(* Every step keeps the invariant.  A step leaves the stack alone (<1>5),  *)
(* puts a frame on it with its own flags (<1>6), takes the top one off and *)
(* puts back what that one saved (<1>7), or moves on in a script (<1>13);  *)
(* each action is one of these.                                            *)
LEMMA ScopeStep == IInv /\ [Next]_vars => IInv'
  <1> SUFFICES ASSUME IInv, [Next]_vars PROVE IInv'
    OBVIOUS
  <1> USE DEF IInv
  <1>1. /\ front.prefs \in Prefs
        /\ Len(stack) \in Nat
        /\ prefs \in Prefs
        /\ prefs = [interactive |-> front.prefs.interactive /\ ~WithinScript(stack),
                    yes |-> GivenYes(stack), anonymous |-> front.prefs.anonymous \/ Anon(stack)]
    BY FlagsAssumption DEF Typed, PrefsScoped, PrefsOf, Prefs, Anon, WithinScript, GivenYes
  <1>2. /\ prefs.interactive <=> front.prefs.interactive /\ ~WithinScript(stack)
        /\ prefs.yes <=> GivenYes(stack)
        /\ prefs.anonymous <=> front.prefs.anonymous \/ Anon(stack)
    BY <1>1
  <1>3. ASSUME stack # <<>>
        PROVE  /\ Top \in Frames
               /\ Top.saved \in Prefs
               /\ Top.saved = [interactive |-> front.prefs.interactive /\ ~WithinScript(Pop(stack)),
                     yes |-> GivenYes(Pop(stack)),
                     anonymous |-> front.prefs.anonymous \/ Anon(Pop(stack))]
    <2>1. Len(stack) \in 1..Len(stack) /\ stack[Len(stack)] \in Frames
      BY <1>3 DEF Typed
    <2>2. Top.saved = PrefsOf(Pop(stack))
      BY <2>1, <1>3, OffTop DEF Saved, Top, Typed
    <2>3. Top.saved \in Prefs
      BY <2>1 DEF Top, Frames, LineFrames, ScriptFrames
    <2> QED BY <2>1, <2>2, <2>3 DEF Top, PrefsOf, Anon
  <1> DEFINE InScope == Typed' /\ PrefsScoped' /\ Saved'
             Worth(s, p) == /\ p.interactive <=> front.prefs.interactive /\ ~WithinScript(s)
                            /\ p.yes <=> GivenYes(s)
                            /\ p.anonymous <=> front.prefs.anonymous \/ Anon(s)
  <1>4. ASSUME NEW s, NEW p \in Prefs, Worth(s, p)
        PROVE  p = PrefsOf(s)
    <2>1. /\ p = [interactive |-> p.interactive, yes |-> p.yes, anonymous |-> p.anonymous]
          /\ p.interactive \in BOOLEAN /\ p.yes \in BOOLEAN /\ p.anonymous \in BOOLEAN
      BY DEF Prefs
    <2>2. /\ p.interactive = (front.prefs.interactive /\ ~WithinScript(s))
          /\ p.yes = GivenYes(s)
          /\ p.anonymous = (front.prefs.anonymous \/ Anon(s))
      BY <1>4, <2>1 DEF GivenYes
    <2> QED BY <2>1, <2>2, ZenonT(60) DEF PrefsOf, Anon
  <1>5. ASSUME UNCHANGED <<front, prefs, args, stack>> PROVE InScope
    BY <1>5, ZenonT(60) DEF Typed, PrefsScoped, Saved, PrefsOf, Below, WithinScript, GivenYes
  <1>6. ASSUME NEW f \in Frames, UNCHANGED front, args' \in Parameters,
               f.saved = prefs, stack' = Append(stack, f), prefs' \in Prefs,
               prefs'.interactive = (prefs.interactive /\ ~IsScript(f)),
               prefs'.yes = (prefs.yes \/ f.yes),
               prefs'.anonymous = (prefs.anonymous \/ f.anon)
        PROVE  InScope
    <2> stack \in Seq(Frames) /\ f.yes \in BOOLEAN /\ f.anon \in BOOLEAN
      BY DEF Typed, Frames, LineFrames, ScriptFrames
    <2>1. /\ WithinScript(stack') <=> WithinScript(stack) \/ IsScript(f)
          /\ GivenYes(Append(stack, f)) <=> GivenYes(stack) \/ f.yes
          /\ Anon(stack') <=> Anon(stack) \/ f.anon
      BY <1>1, <1>6, OnTop
    <2>2. prefs'.interactive <=> front.prefs.interactive /\ ~WithinScript(stack')
      BY <1>2, <1>6, <2>1
    <2>3. prefs'.yes <=> GivenYes(Append(stack,f))
      BY <1>2, <1>6, <2>1
    <2>4. prefs'.anonymous <=> front.prefs.anonymous \/ Anon(stack')
      BY <1>2, <1>6, <2>1
    <2>5. Worth(stack', prefs')
      BY <1>6, <2>2, <2>3, <2>4
    <2>6. prefs' = PrefsOf(stack')
      BY <1>4, <1>6, <2>5
    <2>7. PrefsScoped'
      BY <1>6, <2>6 DEF PrefsScoped, PrefsOf, GivenYes
    <2>8. stack' \in Seq(Frames) /\ Len(stack') = Len(stack) + 1
      BY <1>6, OnTop
    <2>9. ASSUME NEW i \in 1..Len(stack')
          PROVE  stack'[i].saved = PrefsOf(Below(stack', i))
      <3>1. CASE i \in 1..Len(stack)
        BY <3>1, <1>6, OnTop DEF Saved
      <3>2. CASE i = Len(stack) + 1
        <4>1. stack'[i] = f /\ Below(stack', i) = stack
          BY <3>2, <1>6, OnTop
        <4> QED BY <4>1, <1>6 DEF PrefsScoped
      <3> QED BY <3>1, <3>2, <2>8, <1>1
    <2>10. Saved'
      BY <2>9, <1>6, SMTT(30) DEF Saved, PrefsOf, GivenYes
    <2> QED BY <1>6, <2>7, <2>8, <2>10 DEF Typed
  <1>7. ASSUME stack # <<>>, UNCHANGED front, args' \in Parameters,
               stack' = Pop(stack), prefs' \in Prefs,
               prefs'.interactive = IF IsScript(Top) THEN Top.saved.interactive
                                    ELSE prefs.interactive,
               prefs'.yes = Top.saved.yes,
               prefs'.anonymous = IF IsScript(Top) THEN prefs.anonymous
                                  ELSE Top.saved.anonymous
        PROVE  InScope
    <2> stack \in Seq(Frames)
      BY DEF Typed
    <2>1. IsScript(Top) => Top.anon = FALSE
      BY <1>3, <1>7 DEF Frames, LineFrames, ScriptFrames, IsScript
    <2>2. Worth(stack', prefs')
      BY <1>1, <1>3, <1>7, <2>1, OffTop DEF Prefs, Top
    <2>3. prefs' = PrefsOf(stack')
      BY <1>4, <1>7, <2>2
    <2>4. PrefsScoped'
      BY <1>7, <2>3 DEF PrefsScoped, PrefsOf, GivenYes
    <2>5. stack' \in Seq(Frames) /\ Len(stack') = Len(stack) - 1
      BY <1>7, OffTop
    <2>6. \A i \in 1..Len(stack') : stack'[i].saved = PrefsOf(Below(stack', i))
      <3>1. ASSUME NEW i \in 1..Len(stack')
            PROVE  /\ i \in 1..Len(stack)
                   /\ stack'[i] = stack[i] /\ Below(stack', i) = Below(stack, i)
        BY <1>1, <1>7, <2>5, OffTop
      <3> QED BY <3>1 DEF Saved
    <2>7. Saved'
      BY <2>6, <1>7, SMTT(30) DEF Saved, PrefsOf, GivenYes
    <2> QED BY <1>7, <2>4, <2>5, <2>7 DEF Typed
  <1>8. ASSUME NEW l \in Lines, RunLine(l), UNCHANGED <<front, args>>
        PROVE  InScope /\ LineOnTop'
    <2>1. CASE Refused(l)
      <3>1. UNCHANGED <<front, prefs, args, stack>> /\ mode' = "done"
        BY <2>1, <1>8 DEF RunLine, Fail, Return
      <3> QED BY <3>1, <1>5 DEF LineOnTop
    <2>2. CASE ~Refused(l)
      <3> DEFINE f == LineFrame(l)
      <3>1. l.yes \in BOOLEAN /\ l.anon \in BOOLEAN
        BY FlagsAssumption
      <3>2. f \in Frames /\ f.saved = prefs /\ ~IsScript(f) /\ f.yes = l.yes /\ f.anon = l.anon
        BY <3>1, <1>1 DEF LineFrame, Frames, LineFrames, IsScript
      <3>3. stack' = Append(stack, f) /\ prefs' = ApplyLinePrefs(l)
        BY <2>2, <1>8 DEF RunLine
      <3>4. /\ prefs' \in Prefs
            /\ prefs'.interactive = prefs.interactive
            /\ prefs'.yes = (prefs.yes \/ l.yes)
            /\ prefs'.anonymous = (prefs.anonymous \/ l.anon)
        BY <3>1, <3>3, <1>1, ZenonT(60) DEF ApplyLinePrefs, Prefs
      <3>5. InScope
        BY <3>2, <3>3, <3>4, <1>1, <1>6, <1>8 DEF Prefs, Typed
      <3>6. LineOnTop'
        BY <3>2, <3>3 DEF LineOnTop, Top, Typed
      <3> QED BY <3>5, <3>6
    <2> QED BY <2>1, <2>2
  <1>9. ASSUME NEW r, EndLine(r), stack # <<>>, ~IsScript(Top), UNCHANGED <<front, args>>
        PROVE  InScope /\ LineOnTop'
    <2>1. /\ prefs' \in Prefs
          /\ prefs'.interactive = prefs.interactive
          /\ prefs'.yes = Top.saved.yes
          /\ prefs'.anonymous = Top.saved.anonymous
      BY <1>9, <1>3, <1>1, ZenonT(60) DEF EndLine, Restore, Prefs
    <2> QED BY <1>9, <2>1, <1>7 DEF EndLine, Return, LineOnTop, Typed
  <1>10. ASSUME NEW r, EndScript(r), InScript, UNCHANGED front
        PROVE  InScope /\ LineOnTop'
    <2>1. /\ prefs' \in Prefs
          /\ prefs'.interactive = Top.saved.interactive
          /\ prefs'.yes = Top.saved.yes
          /\ prefs'.anonymous = prefs.anonymous
      BY <1>10, <1>3, <1>1, ZenonT(60) DEF EndScript, InScript, Prefs
    <2>2. args' \in Parameters
      BY <1>10, <1>3 DEF EndScript, InScript, IsScript, Frames, LineFrames, ScriptFrames
    <2> QED BY <1>10, <2>1, <2>2, <1>7 DEF EndScript, Return, LineOnTop, InScript
  <1>11. ASSUME NEW class, Finish(class), mode = "exec", stack # <<>>, UNCHANGED <<front, args>>
        PROVE  InScope /\ LineOnTop'
    BY <1>9, <1>11 DEF Finish, LineOnTop
  <1>12. ASSUME UNCHANGED <<front, prefs, args, stack>>, mode' \in {mode, "done", "next"}
         PROVE  InScope /\ LineOnTop'
    BY <1>5, <1>12 DEF LineOnTop, Top
  <1>13. ASSUME NEW frame \in ScriptFrames, InScript, mode' \in {"next", "begin"},
                frame.yes = Top.yes, frame.saved = Top.saved,
                stack' = [stack EXCEPT ![Len(stack)] = frame],
                UNCHANGED <<front, prefs, args>>
         PROVE  InScope /\ LineOnTop'
    <2> DEFINE n == Len(stack)
    <2>1. /\ n \in 1..Len(stack) /\ stack \in Seq(Frames) /\ stack[n] = Top
          /\ stack' \in Seq(Frames) /\ Len(stack') = n /\ stack'[n] = frame
          /\ \A i \in 1..n : i # n => stack'[i] = stack[i]
      BY <1>1, <1>13 DEF Typed, Frames, InScript, Top
    <2>2. \A i \in 1..n : /\ stack'[i].saved = stack[i].saved
                          /\ stack'[i].yes = stack[i].yes
                          /\ stack'[i].anon = stack[i].anon
                          /\ IsScript(stack'[i]) <=> IsScript(stack[i])
      <3>1. IsScript(frame) /\ frame.anon = FALSE /\ Top.anon = FALSE /\ IsScript(Top)
        <4>1. Top \in ScriptFrames
          BY <1>3, <1>13 DEF Frames, LineFrames, InScript, IsScript
        <4> QED BY <4>1, <1>13 DEF ScriptFrames, IsScript
      <3> QED BY <2>1, <3>1, <1>13
    <2>3. \A i \in 1..n : Below(stack', i) = Below(stack, i)
      BY <2>1 DEF Below
    <2>4. PrefsOf(stack') = PrefsOf(stack)
      BY <2>1, <2>2 DEF PrefsOf, WithinScript, GivenYes
    <2>5. PrefsScoped'
      BY <2>4, <1>13 DEF PrefsScoped, PrefsOf, GivenYes
    <2>6. \A i \in 1..n : stack'[i].saved = PrefsOf(Below(stack', i))
      BY <2>2, <2>3 DEF Saved
    <2>7. Saved'
      BY <2>1, <2>6, <1>13 DEF Saved, PrefsOf, GivenYes
    <2> QED BY <2>1, <2>5, <2>7, <1>13 DEF Typed, LineOnTop
  <1>14. CASE ConnectFor
    <2>1. stack # <<>> /\ mode = "exec" /\ UNCHANGED <<front, args>>
      BY <1>14 DEF ConnectFor, NeedsClient
    <2>2. UNCHANGED <<prefs, stack, mode>> \/ \E how : Finish(how)
      BY <1>14 DEF ConnectFor
    <2>3. InScope /\ LineOnTop'
      BY <2>1, <2>2, <1>11, <1>12
    <2> QED BY <2>3, <1>14 DEF ConnectFor, NeverUnasked
  <1>15. CASE Connect \/ Cd \/ Query \/ SetVar \/ UnsetVar \/ Exit
    <2>1. /\ stack # <<>> /\ mode = "exec" /\ UNCHANGED <<front, args, wiped>>
          /\ \E how : Finish(how)
      BY <1>15 DEF Connect, Cd, Query, SetVar, UnsetVar, Exit, Executing
    <2>2. InScope /\ LineOnTop'
      BY <2>1, <1>11
    <2> QED BY <2>1, <2>2 DEF NeverUnasked
  <1>16. CASE Destroy
    <2>1. /\ stack # <<>> /\ mode = "exec" /\ UNCHANGED <<front, args>>
          /\ \E how : Finish(how)
      BY <1>16 DEF Destroy, Executing
    <2>2. InScope /\ LineOnTop'
      BY <2>1, <1>11
    <2>3. NeverUnasked'
      <3>1. CASE wiped' = wiped
        BY <3>1 DEF NeverUnasked
      <3>2. CASE wiped' # wiped
        <4>1. /\ Askable
              /\ wiped' = IF GivenYes(stack) THEN "given"
                          ELSE IF prefs.yes THEN "unasked"
                          ELSE IF WithinScript(stack) THEN "script"
                          ELSE "asked"
          BY <1>16, <3>2 DEF Destroy
        <4> QED BY <4>1, <1>2 DEF NeverUnasked, Askable
      <3> QED BY <3>1, <3>2
    <2> QED BY <2>2, <2>3
  <1>17. CASE Capture
    <2>1. \E l \in Lines : RunLine(l)
      BY <1>17 DEF Capture
    <2> QED BY <2>1, <1>8, <1>17 DEF Capture, NeverUnasked
  <1>18. CASE Captured \/ ScriptDone
    <2>1. EndLine(res) /\ stack # <<>> /\ ~IsScript(Top) /\ UNCHANGED <<front, args, wiped>>
      BY <1>18 DEF Captured, ScriptDone, history, InScript
    <2>2. InScope /\ LineOnTop'
      BY <2>1, <1>9
    <2> QED BY <2>1, <2>2 DEF NeverUnasked
  <1>19. CASE OpenFirst \/ NoFile \/ Nested
    <2>1. /\ mode = "exec" /\ UNCHANGED <<front, args, wiped>>
          /\ \/ UNCHANGED <<prefs, stack, mode>>
             \/ UNCHANGED <<prefs, stack>> /\ \E how : Fail(how)
             \/ stack # <<>> /\ \E how : Finish(how)
      BY <1>19 DEF OpenFirst, NoFile, Nested, NotRun, ReadyToRun, Starting, FromFront, Executing
    <2>2. InScope /\ LineOnTop'
      BY <2>1, <1>11, <1>12 DEF Fail, Return
    <2> QED BY <2>1, <2>2 DEF NeverUnasked
  <1>20. CASE RunScript
    <2> DEFINE given == IF FromFront THEN front.prefs.yes /\ front.kind # "stdin" ELSE Top.line.yes
               own == IF FromFront THEN front.arg ELSE Top.line.arg
               f == [kind |-> "script", saved |-> prefs, args |-> args, yes |-> given,
                     anon |-> FALSE, own |-> own, lineNo |-> 0, start |-> 0,
                     pending |-> FALSE, ignore |-> FALSE]
    <2>1. /\ stack' = Append(stack, f)
          /\ prefs' = [prefs EXCEPT !.interactive = FALSE, !.yes = @ \/ given]
          /\ args' = own /\ mode' = "next" /\ UNCHANGED <<front, wiped>>
          /\ Starting
      BY <1>20 DEF RunScript, ReadyToRun, history
    <2>2. given \in BOOLEAN /\ own \in Parameters
      <3>1. CASE FromFront
        BY <3>1, <1>1 DEF Parameters, Prefs, Typed
      <3>2. CASE ~FromFront
        <4>1. Top \in LineFrames
          BY <2>1, <3>2, <1>3 DEF Starting, Executing, LineOnTop, Frames, ScriptFrames, IsScript
        <4>2. Top.line \in Lines
          BY <4>1 DEF LineFrames
        <4> QED BY <3>2, <4>2, FlagsAssumption DEF Parameters
      <3> QED BY <3>1, <3>2
    <2>3. f \in Frames /\ f.saved = prefs /\ IsScript(f) /\ f.yes = given /\ f.anon = FALSE
      BY <2>2, <1>1 DEF Frames, ScriptFrames, IsScript, Typed
    <2>4. /\ prefs' \in Prefs
          /\ prefs'.interactive = FALSE
          /\ prefs'.yes = (prefs.yes \/ given)
          /\ prefs'.anonymous = prefs.anonymous
      <3> HIDE DEF given
      <3> QED BY <2>1, <2>2, <1>1, ZenonT(60) DEF Prefs
    <2>5. InScope
      <3> HIDE DEF f, given
      <3> QED BY <2>1, <2>2, <2>3, <2>4, <1>1, <1>6 DEF Prefs
    <2> QED BY <2>1, <2>5 DEF LineOnTop, NeverUnasked
  <1>21. CASE Blank \/ Continues \/ Statement
    <2>1. /\ InScript /\ mode' \in {"next", "begin"} /\ UNCHANGED <<front, prefs, args, wiped>>
          /\ \/ stack' = [stack EXCEPT ![Len(stack)].lineNo = @ + 1]
             \/ \E pending, ignore \in BOOLEAN : stack' = Read(pending, ignore)
      BY <1>21 DEF Blank, Continues, Statement, Reading, session, history
    <2>2. Top \in ScriptFrames
      BY <2>1, <1>3 DEF InScript, IsScript, Frames, LineFrames
    <2>3. \E frame \in ScriptFrames : /\ frame.yes = Top.yes /\ frame.saved = Top.saved
                                      /\ stack' = [stack EXCEPT ![Len(stack)] = frame]
      <3>1. CASE stack' = [stack EXCEPT ![Len(stack)].lineNo = @ + 1]
        <4> DEFINE next == Top.lineNo + 1
                   frame == [Top EXCEPT !.lineNo = next]
        <4>1. next \in Nat
          BY <2>2 DEF ScriptFrames
        <4>2. frame \in ScriptFrames /\ frame.yes = Top.yes /\ frame.saved = Top.saved
          <5> HIDE DEF next
          <5> QED BY <2>2, <4>1 DEF ScriptFrames
        <4>3. stack' = [stack EXCEPT ![Len(stack)] = frame]
          BY <3>1 DEF Top
        <4> QED BY <4>2, <4>3
      <3>2. ASSUME NEW pending \in BOOLEAN, NEW ignore \in BOOLEAN, stack' = Read(pending, ignore)
            PROVE  \E frame \in ScriptFrames : /\ frame.yes = Top.yes /\ frame.saved = Top.saved
                                               /\ stack' = [stack EXCEPT ![Len(stack)] = frame]
        <4> DEFINE next == Top.lineNo + 1
                   start == StartOf(Top)
                   frame == [Top EXCEPT !.lineNo = next, !.start = start,
                                        !.pending = pending, !.ignore = ignore]
        <4>1. next \in Nat /\ start \in Nat
          BY <2>2 DEF StartOf, ScriptFrames
        <4>2. frame \in ScriptFrames /\ frame.yes = Top.yes /\ frame.saved = Top.saved
          <5> HIDE DEF next, start
          <5> QED BY <2>2, <4>1 DEF ScriptFrames
        <4>3. stack' = [stack EXCEPT ![Len(stack)] = frame]
          BY <3>2 DEF Read
        <4> QED BY <4>2, <4>3
      <3> QED BY <2>1, <3>1, <3>2
    <2>4. InScope /\ LineOnTop'
      BY <2>1, <2>3, <1>13
    <2> QED BY <2>1, <2>4 DEF NeverUnasked
  <1>22. CASE RunScriptLine
    <2>1. \E l \in Lines : RunLine(l)
      BY <1>22 DEF RunScriptLine
    <2> QED BY <2>1, <1>8, <1>22 DEF RunScriptLine, NeverUnasked
  <1>23. CASE EndOfFile
    <2>1. InScript /\ (\E r : EndScript(r)) /\ UNCHANGED <<front, wiped>>
      BY <1>23 DEF EndOfFile, Reading
    <2>2. InScope /\ LineOnTop'
      BY <2>1, <1>10
    <2> QED BY <2>1, <2>2 DEF NeverUnasked
  <1>24. CASE LineDone
    <2>1. /\ InScript /\ UNCHANGED <<front, wiped>>
          /\ \/ \E r : EndScript(r)
             \/ mode' = "next" /\ UNCHANGED <<prefs, args, stack>>
      BY <1>24 DEF LineDone
    <2>2. InScope /\ LineOnTop'
      BY <2>1, <1>10, <1>12
    <2> QED BY <2>1, <2>2 DEF NeverUnasked
  <1>25. CASE Prompt
    <2>1. \E l \in Lines : RunLine(l)
      BY <1>25 DEF Prompt
    <2> QED BY <2>1, <1>8, <1>25 DEF Prompt, NeverUnasked
  <1>26. CASE ShellDone \/ ProcessDone \/ CtrlC \/ UNCHANGED vars
    <2>1. UNCHANGED <<front, prefs, args, stack, wiped>> /\ mode' \in {mode, "next"}
      BY <1>26 DEF ShellDone, ProcessDone, CtrlC, vars, session, history
    <2>2. InScope /\ LineOnTop'
      BY <2>1, <1>12
    <2> QED BY <2>1, <2>2 DEF NeverUnasked
  <1> QED
    BY <1>14, <1>15, <1>16, <1>17, <1>18, <1>19, <1>20, <1>21, <1>22, <1>23, <1>24,
       <1>25, <1>26 DEF Next

(* The invariant holds of every line and script that is under way.         *)
LEMMA ScopeInvariant == Spec => []IInv
  <1>1. Init => IInv
    <2> SUFFICES ASSUME Init PROVE IInv
      OBVIOUS
    <2>1. front.prefs \in Prefs
      BY FlagsAssumption DEF Init
    <2>2. PrefsScoped
      BY <2>1 DEF Init, PrefsScoped, PrefsOf, WithinScript, GivenYes, Prefs
    <2> QED BY <2>2 DEF Init, IInv, Typed, LineOnTop, Saved, NeverUnasked, Parameters
  <1> QED BY <1>1, ScopeStep, PTL DEF Spec

(* However lines, scripts and captures nest and fail, the preferences are  *)
(* those of the lines and scripts under way (applyLinePrefs, RunScript).   *)
THEOREM PreferencesScoped == Spec => []PrefsScoped
  <1>1. IInv => PrefsScoped
    BY DEF IInv
  <1> QED BY <1>1, ScopeInvariant, PTL

(* Nothing is destroyed without a --yes that is in force or an answer      *)
(* (Confirm, askable).                                                     *)
THEOREM NothingUnasked == Spec => []NeverUnasked
  <1>1. IInv => NeverUnasked
    BY DEF IInv
  <1> QED BY <1>1, ScopeInvariant, PTL

(* A script, and all that it runs, writes its own variables and never its  *)
(* caller's (Vars.Child).                                                  *)
THEOREM CallersVariables == Spec => OnlyItsOwn
  <1> DEFINE Table == [Names -> Values \cup {None} \cup {l.value : l \in Lines}]
             Tables == tables \in Seq(Table)
             Kept == \A i \in 1..Len(tables) :
                       i < Len(tables) /\ i <= Len(tables') => tables'[i] = tables[i]
  <1>1. ASSUME Tables, NEW n, NEW v \in Values \cup {None} \cup {l.value : l \in Lines},
               tables' = Set(n, v)
        PROVE  Tables' /\ Kept
    <2> DEFINE m == Len(tables)
    <2>1. ASSUME NEW t \in Table PROVE [t EXCEPT ![n] = v] \in Table
      BY <1>1
    <2> HIDE DEF Table
    <2>2. m \in Nat /\ tables \in [1..m -> Table]
      BY <1>1
    <2>3. tables' = [tables EXCEPT ![m] = [tables[m] EXCEPT ![n] = v]]
      BY <1>1 DEF Set
    <2>4. tables' \in [1..m -> Table]
      <3> DEFINE row == [tables[m] EXCEPT ![n] = v]
      <3>1. m \in 1..m => row \in Table
        BY <2>1, <2>2
      <3> HIDE DEF m, row
      <3>2. tables' = [tables EXCEPT ![m] = row]
        BY <2>3 DEF row
      <3> QED BY <2>2, <3>1, <3>2
    <2>5. tables' \in Seq(Table)
      BY <2>2, <2>4
    <2>6. ASSUME NEW i \in 1..m, i < m
          PROVE  tables'[i] = tables[i]
      BY <2>2, <2>3, <2>6
    <2> QED BY <2>5, <2>6
  <1>2. ASSUME Tables, tables' = Pop(tables) PROVE Tables' /\ Kept
    <2> DEFINE k == Len(tables) - 1
    <2> HIDE DEF Table
    <2>1. /\ k \in Int /\ tables' = SubSeq(tables, 1, k)
          /\ \A i \in 1..k : tables[i] \in Table /\ i \in 1..(k - 1 + 1) /\ 1 + i - 1 = i
          /\ \A i \in 1..Len(tables) : i < Len(tables) => i \in 1..k
      BY <1>2 DEF Pop
    <2>2. /\ tables' \in Seq(Table)
          /\ \A i \in 1..(k - 1 + 1) : tables'[i] = tables[1 + i - 1]
      <3> HIDE DEF k
      <3> QED BY <2>1, SubSeqProperties
    <2> HIDE DEF k
    <2> QED BY <2>1, <2>2
  <1>3. ASSUME Tables, tables' = Append(tables, Unset) PROVE Tables' /\ Kept
    <2>1. Unset \in Table
      BY DEF Unset
    <2> HIDE DEF Table
    <2> QED BY <2>1, <1>3
  <1>4. ASSUME Tables, UNCHANGED tables PROVE Tables' /\ Kept
    BY <1>4
  <1>5. IInv /\ Tables /\ [Next]_vars => Tables' /\ Kept
    <2> SUFFICES ASSUME IInv, Tables, [Next]_vars PROVE Tables' /\ Kept
      OBVIOUS
    <2>1. ASSUME mode = "exec", stack # <<>>
          PROVE  Top.line \in Lines
      <3>1. Top \in Frames /\ ~IsScript(Top)
        BY <2>1 DEF IInv, Typed, LineOnTop, Top
      <3> QED BY <3>1 DEF Frames, LineFrames, ScriptFrames, IsScript
    <2>2. CASE SetVar
      BY <2>1, <2>2, <1>1 DEF SetVar, Executing
    <2>3. CASE UnsetVar
      BY <2>3, <1>1 DEF UnsetVar
    <2>4. CASE Captured
      BY <2>4, <1>1, <1>4 DEF Captured
    <2>5. CASE RunScript
      BY <2>5, <1>3 DEF RunScript
    <2>6. CASE EndOfFile \/ LineDone
      BY <2>6, <1>2, <1>4 DEF EndOfFile, LineDone, EndScript
    <2>7. ASSUME ~(SetVar \/ UnsetVar \/ Captured \/ RunScript \/ EndOfFile \/ LineDone)
          PROVE  UNCHANGED tables
      BY <2>7 DEF Next, vars, session, ConnectFor, Connect, Cd, Query, Destroy, Capture, Exit,
                  OpenFirst, NoFile, Nested, NotRun, Blank, Continues, Statement, RunScriptLine,
                  ScriptDone, Prompt, ShellDone, ProcessDone, CtrlC
    <2> QED BY <2>2, <2>3, <2>4, <2>5, <2>6, <2>7, <1>4
  <1>6. Init => Tables
    BY DEF Init, Unset
  <1>7. Kept => [Kept]_vars
    OBVIOUS
  <1> QED BY <1>5, <1>6, ScopeInvariant, PTL DEF Spec, OnlyItsOwn

(***************************************************************************)
(* Failures.  What is on record of the last one depends on where the       *)
(* control is: nothing but what was ignored while a script goes on, and    *)
(* while a result is on its way out what it came to, told already or to be *)
(* told by the script it is passed to next, which is the one it happened   *)
(* in.                                                                     *)
(***************************************************************************)
Results == [class : Classes, reported : BOOLEAN]
Said(d) == d.told = IF d.class = "canceled" THEN <<>> ELSE <<d.place>>
Over == due = None \/ (due \in Dues /\ Said(due) /\ due.ignored)
Fails == res.class \notin {"ok", "exit"}

OnItsWay == /\ ~Fails => ~res.reported /\ Over
            /\ Fails => due \in Dues /\ due.class = res.class /\ ~due.ignored
            /\ res.class = "canceled" => ~res.reported /\ due.told = <<>>
            /\ res.class \in {"usage", "error"} =>
                 IF res.reported THEN due.told = <<due.place>>
                 ELSE due.told = <<>> /\ due.place = Place

Record == /\ mode \in {"next", "begin", "exec", "done"}
          /\ res \in Results
          /\ mode = "exec" => due = None
          /\ mode \in {"next", "begin"} /\ stack # <<>> => Over
          /\ mode = "next" /\ stack = <<>> => due = None \/ (due \in Dues /\ Said(due))
          /\ mode = "done" => OnItsWay

\* Only the shell has lines outside a script, and only they end a process by "exit".
Bottom == front.kind # "shell" => stack = <<>> \/ IsScript(stack[1])
Ends == /\ mode = "begin" => InScript
        /\ Bottom
        /\ front.kind # "shell" /\ mode = "next" /\ stack = <<>> => status # None
        /\ front.kind # "shell" /\ mode = "done" /\ stack = <<>> => res.class # "exit"
        /\ status # None => mode = "next" /\ stack = <<>>
        /\ CodeIsTrue

(* The innermost script is there to be named, whenever there is one.       *)
LEMMA LastIs ==
  ASSUME NEW is \in SUBSET Nat, IsFiniteSet(is), is # {}
  PROVE  Last(is) \in is
  <1> DEFINE Above(i) == {j \in is : j > i}
             T == {Above(i) : i \in is}
  <1>1. IsWellFoundedOn(StrictSubsetOrdering(is), SUBSET is)
    BY FS_StrictSubsetOrderingWellFounded, FS_FiniteSubsetsOfFinite
  <1>2. T \subseteq SUBSET is /\ T # {}
    OBVIOUS
  <1>3. PICK t \in T : \A u \in T : <<u, t>> \notin StrictSubsetOrdering(is)
    <2> HIDE DEF T
    <2> QED BY <1>1, <1>2, WFMin
  <1>4. PICK i \in is : t = Above(i)
    OBVIOUS
  <1>5. ASSUME NEW j \in is, j > i PROVE FALSE
    <2>1. Above(j) \subseteq Above(i) /\ j \in Above(i) /\ j \notin Above(j)
      <3>1. \A k \in is : k \in Nat
        OBVIOUS
      <3>2. \A k \in is : k > j => k > i
        BY <1>5, <3>1
      <3>3. ~(j > j)
        BY <3>1
      <3> QED BY <1>5, <3>2, <3>3
    <2>2. Above(j) \in T /\ Above(i) \in SUBSET is /\ Above(j) \in SUBSET is
      OBVIOUS
    <2>3. <<Above(j), Above(i)>> \in StrictSubsetOrdering(is)
      <3> HIDE DEF Above
      <3> QED BY <2>1, <2>2 DEF StrictSubsetOrdering
    <2> QED BY <1>3, <1>4, <2>2, <2>3
  <1>6. \A j \in is : j <= i
    BY <1>5
  <1> QED BY <1>6 DEF Last

At(s) == IF ScriptsOf(s) = {} THEN <<0, 0>> ELSE <<Depth(s), s[Last(ScriptsOf(s))].start>>

(* A place is a script and a line of it ...                                *)
LEMMA AtTyped ==
  ASSUME NEW s \in Seq(Frames)
  PROVE  Depth(s) \in Nat /\ At(s) \in Nat \X Nat
  <1>1. ScriptsOf(s) \in SUBSET (1..Len(s)) /\ ScriptsOf(s) \in SUBSET Nat
    BY DEF ScriptsOf
  <1>2. IsFiniteSet(ScriptsOf(s)) /\ Depth(s) \in Nat
    <2>1. IsFiniteSet(1..Len(s))
      BY FS_Interval
    <2>2. IsFiniteSet(ScriptsOf(s))
      BY <1>1, <2>1, FS_Subset
    <2> QED BY <2>2, FS_CardinalityType DEF Depth
  <1>3. ASSUME ScriptsOf(s) # {} PROVE s[Last(ScriptsOf(s))].start \in Nat
    <2>1. Last(ScriptsOf(s)) \in ScriptsOf(s)
      BY <1>1, <1>2, <1>3, LastIs
    <2>2. PICK i \in ScriptsOf(s) : i = Last(ScriptsOf(s))
      BY <2>1
    <2>3. i \in 1..Len(s) /\ IsScript(s[i])
      BY DEF ScriptsOf
    <2>4. s[i] \in ScriptFrames
      BY <2>3 DEF Frames, LineFrames, IsScript
    <2> QED BY <2>2, <2>4 DEF ScriptFrames
  <1> QED BY <1>2, <1>3 DEF At

(* ... and that of the line on top is that of what it was called from.     *)
LEMMA AtPop ==
  ASSUME NEW s \in Seq(Frames), s # <<>>, ~IsScript(s[Len(s)])
  PROVE  At(Pop(s)) = At(s)
  <1>1. /\ Len(s) \in Nat \ {0} /\ Len(Pop(s)) = Len(s) - 1
        /\ \A i \in 1..Len(Pop(s)) : Pop(s)[i] = s[i]
    BY OffTop
  <1>2. ScriptsOf(Pop(s)) = ScriptsOf(s)
    BY <1>1 DEF ScriptsOf
  <1>3. ASSUME ScriptsOf(s) # {} PROVE Pop(s)[Last(ScriptsOf(s))] = s[Last(ScriptsOf(s))]
    <2>1. ScriptsOf(s) \in SUBSET (1..Len(s)) /\ ScriptsOf(s) \in SUBSET Nat
      BY DEF ScriptsOf
    <2>2. IsFiniteSet(1..Len(s))
      BY FS_Interval
    <2>3. IsFiniteSet(ScriptsOf(s))
      BY <2>1, <2>2, FS_Subset
    <2>4. Last(ScriptsOf(s)) \in ScriptsOf(Pop(s))
      BY <1>2, <1>3, <2>1, <2>3, LastIs
    <2>5. Last(ScriptsOf(s)) \in 1..Len(Pop(s))
      BY <2>4 DEF ScriptsOf
    <2> QED BY <1>1, <2>5
  <1>4. Depth(Pop(s)) = Depth(s)
    BY <1>2 DEF Depth
  <1> QED BY <1>2, <1>3, <1>4 DEF At

(* A result that is made is on its way with what is on record of it.       *)
LEMMA Outcome ==
  ASSUME NEW class \in Classes, NEW place \in Nat \X Nat, place = Place',
         res' = Came(class),
         due' = IF class \in {"ok", "exit"} THEN None ELSE NewDue(class, place)
  PROVE  OnItsWay' /\ res' \in Results /\ res'.class = class
  <1>1. res' \in Results /\ res'.class = class /\ ~res'.reported
    BY DEF Came, Ok, Results, Classes
  <1>2. CASE class \in {"ok", "exit"}
    BY <1>1, <1>2 DEF OnItsWay, Fails, Over
  <1>3. CASE class \notin {"ok", "exit"}
    <2> DEFINE d == NewDue(class, place)
    <2>1. /\ d \in Dues /\ d.class = class /\ d.place = place /\ d.told = <<>>
          /\ d.ignored = FALSE
      BY DEF NewDue, Dues
    <2>2. due' = d
      BY <1>3
    <2> HIDE DEF d
    <2> QED BY <1>1, <1>3, <2>1, <2>2 DEF OnItsWay, Fails
  <1> QED BY <1>2, <1>3

(* Every step keeps the record, and the process's end true to it.  A step  *)
(* makes a result (<1>6), goes on in a script (<1>7) or begins a line      *)
(* (<1>8).                                                                 *)
LEMMA RecordStep == IInv /\ Record /\ Ends /\ [Next]_vars => Record' /\ Ends'
  <1> SUFFICES ASSUME IInv, Record, Ends, [Next]_vars PROVE Record' /\ Ends'
    OBVIOUS
  <1> DEFINE Goal == Record' /\ Ends'
             Still == UNCHANGED front /\ status = None /\ status' = None
  <1>1. /\ stack \in Seq(Frames) /\ Len(stack) \in Nat /\ Place = At(stack)
        /\ Place \in Nat \X Nat /\ Depth(stack) \in Nat
        /\ stack = <<>> => Len(stack) = 0 /\ Place = <<0, 0>>
        /\ stack # <<>> => Len(stack) \in 1..Len(stack) /\ Top \in Frames
    <2>1. stack \in Seq(Frames)
      BY DEF IInv, Typed
    <2>2. stack = <<>> => Place = <<0, 0>>
      BY DEF Place, ScriptsOf
    <2> QED BY <2>1, <2>2, AtTyped DEF Place, At, Top
  <1>2. /\ status # None => mode = "next" /\ stack = <<>>
        /\ mode = "begin" => InScript
        /\ res \in Results
    BY DEF Record, Ends
  <1>3. ASSUME stack' = Pop(stack), stack # <<>>, UNCHANGED front
        PROVE  /\ Bottom'
               /\ stack' \in Seq(Frames)
               /\ front.kind # "shell" /\ stack' = <<>> => IsScript(Top)
    <2>1. /\ Len(stack') = Len(stack) - 1 /\ stack' \in Seq(Frames)
          /\ \A i \in 1..Len(stack') : stack'[i] = stack[i]
      BY <1>1, <1>3, OffTop
    <2>2. stack' # <<>> => stack'[1] = stack[1]
      BY <1>1, <2>1
    <2>3. stack' = <<>> => Len(stack) = 1
      BY <1>1, <2>1
    <2> QED BY <1>3, <2>1, <2>2, <2>3 DEF Ends, Bottom, Top
  <1>4. ASSUME NEW f, stack' = Append(stack, f), stack # <<>> \/ IsScript(f) \/ front.kind = "shell",
               UNCHANGED front
        PROVE  Bottom' /\ stack' # <<>>
    <2>1. stack' # <<>> /\ stack'[1] = IF stack = <<>> THEN f ELSE stack[1]
      BY <1>1, <1>4
    <2> QED BY <1>4, <2>1 DEF Ends, Bottom
  <1>5. ASSUME stack # <<>>, ~IsScript(Top), stack' = Pop(stack)
        PROVE  Place' = Place
    BY <1>1, <1>5, AtPop DEF Place, At, Top
  <1>6. ASSUME Still, Bottom', mode' = "done", OnItsWay', res' \in Results,
               front.kind # "shell" /\ stack' = <<>> => res'.class # "exit"
        PROVE  Goal
    <2>1. ~(status' # None)
      BY <1>6
    <2>2. Record'
      BY <1>6 DEF Record
    <2>3. CodeIsTrue'
      BY <2>1 DEF CodeIsTrue
    <2> QED BY <1>6, <2>2, <2>3 DEF Ends
  <1>7. ASSUME Still, Bottom', mode' \in {"next", "begin"}, stack' # <<>>, Over',
               res' \in Results, mode' = "begin" => InScript'
        PROVE  Goal
    <2>1. ~(status' # None)
      BY <1>7
    <2>2. Record'
      BY <1>7 DEF Record
    <2>3. CodeIsTrue'
      BY <2>1 DEF CodeIsTrue
    <2> QED BY <1>7, <2>2, <2>3 DEF Ends
  <1>8. ASSUME Still, Bottom', mode' = "exec", due' = None, res' \in Results
        PROVE  Goal
    <2>1. ~(status' # None)
      BY <1>8
    <2>2. Record'
      BY <1>8 DEF Record
    <2>3. CodeIsTrue'
      BY <2>1 DEF CodeIsTrue
    <2> QED BY <1>8, <2>2, <2>3 DEF Ends
  <1>9. ASSUME NEW class \in Classes, Finish(class), mode = "exec", stack # <<>>, Still
        PROVE  Goal
    <2>1. /\ mode' = "done" /\ res' = Came(class) /\ stack' = Pop(stack)
          /\ due' = IF class \in {"ok", "exit"} THEN None ELSE NewDue(class, Place)
      BY <1>9 DEF Finish, EndLine, Return
    <2>2. ~IsScript(Top)
      BY <1>9 DEF IInv, LineOnTop
    <2>3. PICK place : place = Place
      OBVIOUS
    <2>4. OnItsWay' /\ res' \in Results /\ res'.class = class
      <3>1. place = Place' /\ place \in Nat \X Nat
        BY <1>1, <1>5, <1>9, <2>1, <2>2, <2>3
      <3>2. due' = IF class \in {"ok", "exit"} THEN None ELSE NewDue(class, place)
        BY <2>1, <2>3
      <3> QED BY <2>1, <3>1, <3>2, Outcome
    <2> QED BY <1>3, <1>6, <1>9, <2>1, <2>2, <2>4
  <1>10. ASSUME NEW class \in Classes, Fail(class), UNCHANGED stack, Still,
                class # "exit" \/ stack # <<>>
         PROVE  Goal
    <2>1. /\ mode' = "done" /\ res' = Came(class)
          /\ due' = IF class \in {"ok", "exit"} THEN None ELSE NewDue(class, Place)
      BY <1>10 DEF Fail, Return
    <2>2. PICK place : place = Place
      OBVIOUS
    <2>3. OnItsWay' /\ res' \in Results /\ res'.class = class
      <3>1. place = Place' /\ place \in Nat \X Nat
        BY <1>1, <1>10, <2>2 DEF Place, Depth
      <3>2. due' = IF class \in {"ok", "exit"} THEN None ELSE NewDue(class, place)
        BY <2>1, <2>2
      <3> QED BY <2>1, <3>1, <3>2, Outcome
    <2>4. Bottom'
      BY <1>10 DEF Ends, Bottom
    <2> QED BY <1>6, <1>10, <2>1, <2>3, <2>4
  <1>11. ASSUME NEW l \in Lines, RunLine(l), Still, stack # <<>> \/ front.kind = "shell"
         PROVE  Goal
    <2>1. CASE Refused(l)
      <3>1. Fail("usage") /\ UNCHANGED stack
        BY <1>11, <2>1 DEF RunLine
      <3> QED BY <1>10, <1>11, <3>1 DEF Classes
    <2>2. CASE ~Refused(l)
      <3>1. stack' = Append(stack, LineFrame(l)) /\ mode' = "exec" /\ res' = Ok /\ due' = None
        BY <1>11, <2>2 DEF RunLine
      <3>2. res' \in Results
        BY <3>1 DEF Ok, Results, Classes
      <3> QED BY <1>4, <1>8, <1>11, <3>1, <3>2
    <2> QED BY <2>1, <2>2
  <1>12. Outcomes \subseteq Classes \ {"exit"} /\ Ok \in Results /\ Ok.class = "ok" /\ ~Ok.reported
    BY DEF Outcomes, Classes, Ok, Results
  <1>13. mode = "exec" \/ mode = "done" \/ mode = "begin" \/ stack # <<>> => status = None
    BY <1>2
  <1>14. CASE ConnectFor
    <2>1. /\ stack # <<>> /\ mode = "exec" /\ Still
          /\ \/ UNCHANGED <<stack, mode, res, due>>
             \/ \E how \in Outcomes : Finish(how)
      BY <1>13, <1>14 DEF ConnectFor, NeedsClient
    <2>2. CASE UNCHANGED <<stack, mode, res, due>>
      <3>1. Bottom' /\ due = None /\ res \in Results
        BY <2>1, <2>2 DEF Ends, Bottom, Record
      <3> QED BY <1>8, <2>1, <2>2, <3>1
    <2> QED BY <1>9, <1>12, <2>1, <2>2
  <1>15. CASE Connect \/ Cd \/ Query \/ Destroy \/ SetVar \/ UnsetVar \/ Exit
    <2>1. stack # <<>> /\ mode = "exec" /\ Still
      BY <1>13, <1>15 DEF Connect, Cd, Query, Destroy, SetVar, UnsetVar, Exit, Executing
    <2>2. \E how \in Classes : Finish(how)
      BY <1>12, <1>15 DEF Connect, Cd, Query, Destroy, SetVar, UnsetVar, Exit, Classes
    <2> QED BY <1>9, <2>1, <2>2
  <1>16. CASE Capture
    <2>1. stack # <<>> /\ Still /\ \E l \in Lines : RunLine(l)
      BY <1>13, <1>16 DEF Capture, Executing
    <2> QED BY <1>11, <2>1
  <1>17. CASE Captured \/ ScriptDone
    <2>1. /\ mode = "done" /\ stack # <<>> /\ ~IsScript(Top) /\ Still /\ UNCHANGED due
          /\ mode' = "done" /\ res' = res /\ stack' = Pop(stack)
      BY <1>13, <1>17 DEF Captured, ScriptDone, InScript, EndLine, Return, history
    <2>2. Place' = Place
      BY <1>5, <2>1
    <2>3. OnItsWay' /\ res' \in Results
      BY <1>2, <2>1, <2>2 DEF Record, OnItsWay, Fails, Over
    <2> QED BY <1>3, <1>6, <2>1, <2>3
  <1>18. CASE OpenFirst \/ NoFile \/ Nested
    <2>1. /\ mode = "exec" /\ Still
          /\ \/ UNCHANGED <<stack, mode, res, due>>
             \/ UNCHANGED stack /\ \E how \in Classes \ {"exit"} : Fail(how)
             \/ stack # <<>> /\ \E how \in Classes : Finish(how)
      <3>1. CASE OpenFirst
        BY <1>12, <1>13, <3>1 DEF OpenFirst, Starting, FromFront, Executing
      <3>2. CASE NoFile \/ Nested
        BY <1>13, <3>2 DEF NoFile, Nested, NotRun, ReadyToRun, Starting, FromFront, Executing,
                           Classes
      <3> QED BY <1>18, <3>1, <3>2
    <2>2. CASE UNCHANGED <<stack, mode, res, due>>
      <3>1. Bottom' /\ due = None /\ res \in Results
        BY <2>1, <2>2 DEF Ends, Bottom, Record
      <3> QED BY <1>8, <2>1, <2>2, <3>1
    <2> QED BY <1>9, <1>10, <2>1, <2>2
  <1>19. CASE RunScript
    <2>1. mode = "exec" /\ Still /\ mode' = "next" /\ res' = Ok /\ UNCHANGED due
      BY <1>13, <1>19 DEF RunScript, ReadyToRun, Starting, FromFront, Executing, history
    <2>2. \E f : IsScript(f) /\ stack' = Append(stack, f)
      BY <1>19 DEF RunScript, IsScript
    <2>3. Bottom' /\ stack' # <<>>
      BY <1>4, <2>1, <2>2
    <2>4. Over'
      BY <2>1 DEF Record, Over
    <2> QED BY <1>7, <1>12, <2>1, <2>3, <2>4
  <1>20. CASE Blank \/ Continues \/ Statement
    <2>1. /\ InScript /\ stack # <<>> /\ mode = "next" /\ mode' \in {"next", "begin"} /\ Still
          /\ UNCHANGED <<res, due>>
          /\ \/ stack' = [stack EXCEPT ![Len(stack)].lineNo = @ + 1]
             \/ \E pending, ignore \in BOOLEAN : stack' = Read(pending, ignore)
      BY <1>13, <1>20 DEF Blank, Continues, Statement, Reading, InScript, session, history
    <2>2. Top \in ScriptFrames
      BY <1>1, <2>1 DEF InScript, IsScript, Frames, LineFrames
    <2>3. \E frame : IsScript(frame) /\ stack' = [stack EXCEPT ![Len(stack)] = frame]
      <3>1. CASE stack' = [stack EXCEPT ![Len(stack)].lineNo = @ + 1]
        <4> DEFINE next == Top.lineNo + 1
                   frame == [Top EXCEPT !.lineNo = next]
        <4>1. IsScript(frame)
          <5> HIDE DEF next
          <5> QED BY <2>2 DEF ScriptFrames, IsScript
        <4>2. stack' = [stack EXCEPT ![Len(stack)] = frame]
          BY <3>1 DEF Top
        <4> QED BY <4>1, <4>2
      <3>2. ASSUME NEW pending \in BOOLEAN, NEW ignore \in BOOLEAN, stack' = Read(pending, ignore)
            PROVE  \E frame : IsScript(frame) /\ stack' = [stack EXCEPT ![Len(stack)] = frame]
        <4> DEFINE next == Top.lineNo + 1
                   start == StartOf(Top)
                   frame == [Top EXCEPT !.lineNo = next, !.start = start,
                                        !.pending = pending, !.ignore = ignore]
        <4>1. IsScript(frame)
          <5> HIDE DEF next, start
          <5> QED BY <2>2 DEF ScriptFrames, IsScript
        <4>2. stack' = [stack EXCEPT ![Len(stack)] = frame]
          BY <3>2 DEF Read
        <4> QED BY <4>1, <4>2
      <3> QED BY <2>1, <3>1, <3>2
    <2>4. InScript' /\ stack' # <<>> /\ Bottom'
      <3>1. PICK frame : IsScript(frame) /\ stack' = [stack EXCEPT ![Len(stack)] = frame]
        BY <2>3
      <3>2. /\ Len(stack') = Len(stack) /\ stack' # <<>> /\ stack'[Len(stack)] = frame
            /\ stack'[1] = IF Len(stack) = 1 THEN frame ELSE stack[1]
        BY <1>1, <2>1, <3>1
      <3>3. InScript'
        BY <3>1, <3>2 DEF InScript, Top
      <3> QED BY <2>1, <3>1, <3>2, <3>3 DEF Ends, Bottom
    <2>5. Over'
      BY <2>1 DEF Record, Over
    <2> QED BY <1>2, <1>7, <2>1, <2>4, <2>5
  <1>21. CASE RunScriptLine
    <2>1. stack # <<>> /\ Still /\ \E l \in Lines : RunLine(l)
      BY <1>2, <1>13, <1>21 DEF RunScriptLine, InScript
    <2> QED BY <1>11, <2>1
  <1>22. ASSUME NEW r \in Results, EndScript(r), InScript, OnItsWay', r.class # "exit", Still
         PROVE  Goal
    <2>1. mode' = "done" /\ res' = r /\ stack' = Pop(stack) /\ stack # <<>>
      BY <1>22 DEF EndScript, Return, InScript
    <2> QED BY <1>3, <1>6, <1>22, <2>1
  <1>23. CASE EndOfFile
    <2>1. /\ InScript /\ stack # <<>> /\ mode = "next" /\ Still /\ Top \in ScriptFrames
      BY <1>1, <1>13, <1>23 DEF EndOfFile, Reading, InScript, IsScript, Frames, LineFrames
    <2>2. ASSUME NEW class \in {"usage", "error"}, NEW place \in Nat \X Nat,
                 EndScript([class |-> class, reported |-> TRUE]),
                 due' = [NewDue(class, place) EXCEPT !.told = <<place>>]
          PROVE  Goal
      <3> DEFINE r == [class |-> class, reported |-> TRUE]
      <3>1. r \in Results /\ r.class = class /\ r.reported
        BY DEF Results, Classes
      <3>2. due' \in Dues /\ due'.class = class /\ due'.place = place /\ due'.told = <<place>>
            /\ due'.ignored = FALSE
        <4> DEFINE d == NewDue(class, place)
        <4>1. d \in Dues /\ d.class = class /\ d.place = place /\ d.ignored = FALSE
          BY DEF NewDue, Dues, Classes
        <4>2. <<place>> \in Seq(Nat \X Nat)
          <5> DEFINE Nats == Nat \X Nat
          <5>1. place \in Nats
            OBVIOUS
          <5> HIDE DEF Nats
          <5>2. <<place>> \in Seq(Nats)
            BY <5>1
          <5> QED BY <5>2 DEF Nats
        <4>3. due' = [d EXCEPT !.told = <<place>>]
          BY <2>2
        <4> HIDE DEF d
        <4> QED BY <4>1, <4>2, <4>3 DEF Dues
      <3>3. res' = r
        BY <2>2 DEF EndScript, Return
      <3> HIDE DEF r
      <3>4. OnItsWay'
        BY <3>1, <3>2, <3>3 DEF OnItsWay, Fails
      <3>5. EndScript(r)
        BY <2>2 DEF r
      <3> QED BY <1>22, <2>1, <3>1, <3>4, <3>5
    <2>3. CASE EndScript(Ok) /\ UNCHANGED due
      <3>1. OnItsWay'
        <4>1. Over' /\ res' = Ok
          BY <2>1, <2>3 DEF Record, Over, EndScript, Return
        <4> QED BY <1>12, <4>1 DEF OnItsWay, Fails
      <3> QED BY <1>12, <1>22, <2>1, <2>3, <3>1
    <2>4. CASE /\ EndScript([class |-> "usage", reported |-> TRUE])
               /\ due' = [NewDue("usage", Place) EXCEPT !.told = <<Place>>]
      BY <1>1, <2>2, <2>4
    <2>5. ASSUME NEW at, at = <<Depth(stack), Top.lineNo + 1>>,
                 EndScript([class |-> "error", reported |-> TRUE]),
                 due' = [NewDue("error", at) EXCEPT !.told = <<at>>]
          PROVE  Goal
      <3>1. at \in Nat \X Nat
        BY <1>1, <2>1, <2>5 DEF ScriptFrames
      <3> QED BY <2>2, <2>5, <3>1
    <2> QED BY <1>23, <2>3, <2>4, <2>5 DEF EndOfFile
  <1>24. ASSUME mode = "done"
         PROVE  /\ OnItsWay /\ res.class \in {"ok", "exit", "usage", "error", "canceled"}
                /\ res.class \in {"ok", "exit"} <=> ~Fails
                /\ res.class \in {"usage", "error"} /\ ~res.reported =>
                     /\ Told(Place) \in Dues
                     /\ Told(Place).told = <<due.place>>
                     /\ Told(Place).class = due.class
                     /\ Told(Place).place = due.place
                     /\ Told(Place).ignored = due.ignored
    <2>1. OnItsWay /\ res.class \in {"ok", "exit", "usage", "error", "canceled"}
      BY <1>2, <1>24 DEF Record, Results, Classes
    <2>2. ASSUME res.class \in {"usage", "error"}, ~res.reported
          PROVE  /\ Told(Place) \in Dues
                 /\ Told(Place).told = <<due.place>>
                 /\ Told(Place).class = due.class
                 /\ Told(Place).place = due.place
                 /\ Told(Place).ignored = due.ignored
      <3>1. due \in Dues /\ due.told = <<>> /\ due.place = Place
        BY <2>1, <2>2 DEF OnItsWay, Fails
      <3>2. Append(due.told, Place) = <<due.place>> /\ <<due.place>> \in Seq(Nat \X Nat)
        BY <1>1, <3>1
      <3>3. Told(Place) = [due EXCEPT !.told = <<due.place>>]
        BY <3>2 DEF Told
      <3> QED BY <3>1, <3>2, <3>3 DEF Dues
    <2> QED BY <2>1, <2>2 DEF Fails
  <1>25. CASE LineDone
    <2>1. /\ InScript /\ stack # <<>> /\ mode = "done" /\ Still /\ Top \in ScriptFrames
          /\ OnItsWay
      BY <1>1, <1>13, <1>24, <1>25 DEF LineDone, InScript, IsScript, Frames, LineFrames
    <2>2. Top.ignore \in BOOLEAN
      BY <2>1 DEF ScriptFrames
    <2>3. CASE res.class = "exit"
      <3>1. EndScript(Ok) /\ due' = due
        BY <1>25, <2>1, <2>3 DEF LineDone, Stops, Silent, OnItsWay, Fails
      <3>2. Over' /\ res' = Ok
        BY <2>1, <2>3, <3>1 DEF OnItsWay, Fails, Over, EndScript, Return
      <3>3. OnItsWay'
        BY <1>12, <3>2 DEF OnItsWay, Fails
      <3> QED BY <1>12, <1>22, <2>1, <3>1, <3>3
    <2>4. CASE res.class = "canceled"
      <3>1. EndScript(res) /\ due' = due
        BY <1>25, <2>1, <2>4 DEF LineDone, Stops, Silent, OnItsWay
      <3>2. res' = res
        BY <3>1 DEF EndScript, Return
      <3>3. OnItsWay'
        BY <2>1, <2>4, <3>1, <3>2 DEF OnItsWay, Fails
      <3> QED BY <1>2, <1>22, <2>1, <2>4, <3>1, <3>3
    <2>5. CASE res.class = "ok"
      <3>1. mode' = "next" /\ res' = Ok /\ UNCHANGED stack /\ due' = due
        BY <1>25, <2>1, <2>5 DEF LineDone, Stops, Passes, Silent, OnItsWay, Fails
      <3>2. Over' /\ Bottom'
        BY <2>1, <2>5, <3>1 DEF OnItsWay, Fails, Over, Ends, Bottom
      <3> QED BY <1>7, <1>12, <2>1, <3>1, <3>2
    <2>6. CASE res.class \in {"usage", "error"} /\ ~Top.ignore
      <3> DEFINE r == [res EXCEPT !.reported = TRUE]
      <3>1. EndScript(r)
        BY <1>25, <2>6 DEF LineDone, Stops, Passes
      <3>2. r \in Results /\ r.class = res.class /\ r.reported
        BY <1>2 DEF Results
      <3>3. res' = r
        BY <3>1 DEF EndScript, Return
      <3>4. due' = IF res.reported THEN due ELSE [Told(Place) EXCEPT !.ignored = Top.ignore]
        BY <1>25, <2>6 DEF LineDone, Silent, Passes, Stops
      <3> HIDE DEF r
      <3>5. /\ due' \in Dues /\ due'.class = res.class /\ due'.told = <<due'.place>>
            /\ ~due'.ignored
        <4>1. CASE res.reported
          BY <2>1, <2>6, <3>4, <4>1 DEF OnItsWay, Fails
        <4>2. CASE ~res.reported
          <5>1. due' = [Told(Place) EXCEPT !.ignored = FALSE]
            BY <2>2, <2>6, <3>4, <4>2
          <5>2. due.class = res.class
            BY <2>1, <2>6 DEF OnItsWay, Fails
          <5>3. PICK d \in Dues : d = Told(Place) /\ d.told = <<due.place>> /\ d.class = due.class
                                  /\ d.place = due.place
            BY <1>24, <2>1, <2>6, <4>2
          <5> QED BY <5>1, <5>2, <5>3 DEF Dues
        <4> QED BY <4>1, <4>2
      <3>6. OnItsWay'
        BY <2>6, <3>2, <3>3, <3>5 DEF OnItsWay, Fails
      <3> QED BY <1>22, <2>1, <2>6, <3>1, <3>2, <3>6
    <2>7. CASE res.class \in {"usage", "error"} /\ Top.ignore
      <3>1. mode' = "next" /\ res' = Ok /\ UNCHANGED stack
        BY <1>25, <2>7 DEF LineDone, Stops, Passes
      <3>2. due' = [IF res.reported THEN due ELSE Told(Place) EXCEPT !.ignored = Top.ignore]
        BY <1>25, <2>7 DEF LineDone, Silent, Passes, Stops
      <3>3. PICK d \in Dues : /\ d = IF res.reported THEN due ELSE Told(Place)
                              /\ d.told = <<d.place>> /\ d.class \in {"usage", "error"}
        BY <1>24, <2>1, <2>7 DEF OnItsWay, Fails
      <3>4. due' = [d EXCEPT !.ignored = TRUE]
        BY <2>2, <2>7, <3>2, <3>3
      <3>5. due' \in Dues /\ due'.ignored /\ due'.told = <<due'.place>> /\ due'.class # "canceled"
        BY <3>3, <3>4 DEF Dues
      <3>6. Over' /\ Bottom'
        BY <3>1, <3>5, <2>1 DEF Over, Said, Ends, Bottom
      <3> QED BY <1>7, <1>12, <2>1, <3>1, <3>6
    <2> QED BY <1>24, <2>1, <2>2, <2>3, <2>4, <2>5, <2>6, <2>7
  <1>26. CASE Prompt
    <2>1. front.kind = "shell" /\ Still /\ \E l \in Lines : RunLine(l)
      BY <1>26 DEF Prompt, Ends
    <2> QED BY <1>11, <2>1
  <1>27. CASE ShellDone \/ ProcessDone
    <2>1. /\ mode = "done" /\ stack = <<>> /\ UNCHANGED <<front, stack>> /\ due' = Report
          /\ mode' = "next" /\ res' = Ok /\ status = None /\ OnItsWay /\ Place = <<0, 0>>
      BY <1>1, <1>13, <1>24, <1>27 DEF ShellDone, ProcessDone
    <2>2. /\ due' = None \/ (due' \in Dues /\ Said(due'))
          /\ ~Fails => due' = None \/ due'.ignored
          /\ Fails => due' \in Dues /\ due'.class = res.class /\ ~due'.ignored
      <3>1. CASE ~Fails \/ res.class = "canceled" \/ res.reported
        <4>1. due' = due
          BY <1>24, <2>1, <3>1 DEF Report, Silent, Passes, Stops, Fails
        <4> QED BY <1>24, <2>1, <3>1, <4>1 DEF OnItsWay, Over, Said, Fails
      <3>2. CASE Fails /\ res.class # "canceled" /\ ~res.reported
        <4>1. due' = Told(Place) /\ res.class \in {"usage", "error"}
          BY <1>24, <2>1, <3>2 DEF Report, Silent, Passes, Stops, Fails
        <4>2. due.class = res.class /\ ~due.ignored
          BY <2>1, <3>2 DEF OnItsWay
        <4> QED BY <1>24, <2>1, <3>2, <4>1, <4>2 DEF Said
      <3> QED BY <3>1, <3>2
    <2>3. Record'
      BY <1>12, <2>1, <2>2 DEF Record, Said
    <2>4. CASE ShellDone
      <3>1. front.kind = "shell" /\ status' = IF res.class = "exit" THEN "ok" ELSE None
        BY <2>4 DEF ShellDone
      <3>2. CodeIsTrue'
        BY <2>2, <3>1 DEF CodeIsTrue, Fails
      <3> QED BY <2>1, <2>3, <3>1, <3>2 DEF Ends, Bottom
    <2>5. CASE ProcessDone
      <3>1. front.kind # "shell" /\ status' = res.class /\ res.class # "exit"
        BY <2>1, <2>5 DEF ProcessDone, Ends
      <3>2. status' # None
        BY <1>24, <2>1, <3>1, NoneAssumption DEF Classes
      <3>3. due' = None \/ due' # None
        OBVIOUS
      <3>4. CodeIsTrue'
        <4>1. CASE Fails
          <5>1. due' # None
            BY <2>2, <4>1, NoneAssumption
          <5> QED BY <2>2, <3>1, <4>1, <5>1 DEF CodeIsTrue
        <4>2. CASE ~Fails
          <5>1. res.class = "ok"
            BY <3>1, <4>2 DEF Fails
          <5> QED BY <2>2, <3>1, <4>2, <5>1 DEF CodeIsTrue
        <4> QED BY <4>1, <4>2
      <3> QED BY <2>1, <2>3, <3>2, <3>4 DEF Ends, Bottom
    <2> QED BY <1>27, <2>4, <2>5
  <1>28. CASE CtrlC \/ UNCHANGED vars
    <2>1. UNCHANGED <<front, stack, mode, res, status, due>>
      BY <1>28 DEF CtrlC, vars, history
    <2>2. Record'
      BY <2>1 DEF Record, Over, OnItsWay, Fails, Said, Place, Depth
    <2>3. Ends'
      BY <2>1 DEF Ends, Bottom, InScript, Top, CodeIsTrue
    <2> QED BY <2>2, <2>3
  <1> QED
    BY <1>14, <1>15, <1>16, <1>17, <1>18, <1>19, <1>20, <1>21, <1>23, <1>25, <1>26, <1>27, <1>28
       DEF Next

(* The record is kept from the start.                                      *)
LEMMA RecordInvariant == Spec => [](Record /\ Ends)
  <1>1. Init => Record /\ Ends
    <2> SUFFICES ASSUME Init PROVE Record /\ Ends
      OBVIOUS
    <2>1. /\ stack = <<>> /\ res = Ok /\ status = None /\ due = None
          /\ mode = IF front.kind = "shell" THEN "next" ELSE "exec"
      BY DEF Init
    <2>2. Record
      BY <2>1 DEF Record, Results, Ok, Classes
    <2> QED BY <2>1, <2>2 DEF Ends, Bottom, CodeIsTrue
  <1>2. IInv /\ (Record /\ Ends) /\ [Next]_vars => (Record /\ Ends)'
    BY RecordStep
  <1> QED BY <1>1, <1>2, ScopeInvariant, PTL DEF Spec

(* A failure is told once and no more, at the place it happened in,        *)
(* however many scripts, captures and "-" it passes on its way             *)
(* (runScriptLine, ReportedError, reportError).                            *)
THEOREM FailureSaidOnce == Spec => []SaidOnce
  <1>1. Record => SaidOnce
    BY DEF Record, SaidOnce, Over, Said
  <1> QED BY <1>1, RecordInvariant, PTL

(* The process ends with the code of the failure that stopped it           *)
(* (Execute, runStdinScript, ExitCode).                                    *)
THEOREM ExitCodeIsTrue == Spec => []CodeIsTrue
  <1>1. Ends => CodeIsTrue
    BY DEF Ends
  <1> QED BY <1>1, RecordInvariant, PTL

=============================================================================
