-------------------------------- MODULE Line --------------------------------
(***************************************************************************)
(* What a line of the shell promises whoever reads its output and its      *)
(* outcome: it says the beginning of what its commands make of their       *)
(* source, and ends once, with an outcome that is true; nothing happens    *)
(* after that.  Channels, goroutines and how one stops another are not     *)
(* visible here.                                                           *)
(***************************************************************************)
EXTENDS Naturals, Sequences, SequencesExt

CONSTANTS
  N,         \* the number of stages
  Whole      \* what they make of the whole source

VARIABLES
  said,      \* what is on the screen
  broken,    \* the stages that failed of themselves
  asked,     \* Ctrl-C was pressed
  sated,     \* the last stage has had enough
  endless,   \* the source never runs dry
  outcome    \* [stage, why]

vars == <<said, broken, asked, sated, endless, outcome>>

Running        == [stage |-> 0, why |-> "running"]
Ok             == [stage |-> 0, why |-> "ok"]
Failed(i, why) == [stage |-> i, why |-> why]

Init ==
  /\ said = <<>> /\ broken = {} /\ endless \in BOOLEAN
  /\ asked = FALSE /\ sated = FALSE /\ outcome = Running

(* The last stage still reads. *)
Reads == outcome = Running /\ N \notin broken /\ ~sated

(* More of it, in order. *)
Say ==
  /\ Reads
  /\ said' # said /\ IsPrefix(said, said') /\ IsPrefix(said', Whole)
  /\ UNCHANGED <<broken, asked, sated, endless, outcome>>

Break(i) ==
  /\ outcome = Running /\ i \notin broken /\ (i = N => ~sated)
  /\ broken' = broken \cup {i}
  /\ UNCHANGED <<said, asked, sated, endless, outcome>>

Ask ==
  /\ outcome = Running /\ ~asked /\ asked' = TRUE
  /\ UNCHANGED <<said, broken, sated, endless, outcome>>

HaveEnough ==
  /\ Reads /\ sated' = TRUE
  /\ UNCHANGED <<said, broken, asked, endless, outcome>>

(* Success is all of it, from a source with an end and stages none of which
   failed, or as much as the last stage wanted. *)
Succeed ==
  /\ outcome = Running /\ outcome' = Ok
  /\ sated \/ (said = Whole /\ broken = {} /\ ~endless)
  /\ UNCHANGED <<said, broken, asked, sated, endless>>

(* A failure is blamed on a stage that failed of itself; "cancelled" is told only
   to one who asked for it. *)
Fail(i) ==
  /\ outcome = Running
  /\ \/ i \in broken /\ outcome' = Failed(i, "own")
     \/ asked /\ outcome' = Failed(i, "cancelled")
  /\ UNCHANGED <<said, broken, asked, sated, endless>>

Next == Say \/ Ask \/ HaveEnough \/ Succeed \/ \E i \in 1..N : Break(i) \/ Fail(i)

Spec == Init /\ [][Next]_vars
=============================================================================
