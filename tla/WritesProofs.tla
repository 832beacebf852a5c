---------------------------- MODULE WritesProofs ----------------------------
(***************************************************************************)
(* Proofs about the writing of documents, by the commands (DocWrites) and  *)
(* by `cdb restore` (RestoreDump).                                         *)
(*                                                                         *)
(* The commands: what they replace, delete, and leave alone, for any       *)
(* operators, running any of them, on a document with any number of        *)
(* revisions in conflict, and any number of writes of other clients.       *)
(*                                                                         *)
(* Restore: what a success means, which revisions it makes up and what a   *)
(* request holds, for any dumps and targets, any bounds on documents and   *)
(* bytes, and any number of runs that stop anywhere and of writes of other *)
(* clients.                                                                *)
(***************************************************************************)
EXTENDS DocWrites, RestoreDump, FiniteSetTheorems, SequenceTheorems,
        WellFoundedInduction, TLAPS

AllCommands ==
  {"put", "putrev", "cp", "attach", "edit", "rm", "rmrev", "rmatt", "resolve",
   "cancel", "security"}
Places == {"start", "read", "ask", "write", "done"}
Words  == {"running", "error", "nothing", "declined", "done"}
Marks  == Nat \cup Operators \cup {Nobody}

-----------------------------------------------------------------------------
(* The server.                                                             *)

ServerTypes ==
  /\ last \in Nat /\ leaves \subseteq 1..last
  /\ parent \in Seq(Nat) /\ Len(parent) = last
  /\ branch \in Seq(Nat) /\ Len(branch) = last
  /\ content \in Seq(SUBSET Marks) /\ Len(content) = last
  /\ by \in Seq(Operators \cup {Nobody}) /\ Len(by) = last
  /\ \A d \in deleted : d.rev \in 1..last
  /\ \A n \in 1..last : parent[n] \in 0..last

(* Two leaves are of two lines: each write goes on with one, or begins another. *)
Branches ==
  /\ \A n \in 1..last : branch[n] =< last
  /\ \A m, n \in leaves : branch[m] = branch[n] => m = n

-----------------------------------------------------------------------------
(* A command.                                                              *)

LocalTypes ==
  /\ sec \subseteq Marks
  /\ pc \in [Operators -> Places] /\ cmd \in [Operators -> AllCommands]
  /\ told \in [Operators -> Words] /\ agreed \in [Operators -> BOOLEAN]
  /\ tries \in [Operators -> Nat]
  /\ rev \in [Operators -> Nat] /\ keep \in [Operators -> Nat]
  /\ buf \in [Operators -> SUBSET Marks]
  /\ drop \in [Operators -> SUBSET Nat]
  /\ asked \in [Operators -> SUBSET Marks]

(* Only resolve has revisions left to delete, and tells nothing before they are
   gone; the other commands that delete know which revision. *)
Course(o) ==
  /\ pc[o] # "done" => told[o] = "running"
  /\ pc[o] = "start" => tries[o] = 0
  /\ pc[o] = "read" => cmd[o] \notin {"putrev", "rmrev"}
  /\ rev[o] =< last /\ keep[o] =< last /\ drop[o] \subseteq 1..last
  /\ cmd[o] # "resolve" => drop[o] = {}
  /\ cmd[o] = "resolve" /\ pc[o] \in {"ask", "write"} => drop[o] # {}
  /\ cmd[o] = "security" => Written(o) = {} /\ Deletion(o) = {}
  /\ cmd[o] \in {"rm", "rmrev"} /\ pc[o] \in {"ask", "write"} => rev[o] # 0
  /\ cmd[o] = "cancel" /\ pc[o] = "write" => rev[o] # 0

(* Before it writes it has changed nothing, and afterwards one thing. *)
Once(o) ==
  LET none == Written(o) = {} /\ Deletion(o) = {}
      one  == \/ Deletion(o) = {} /\ \E n \in Written(o) : Written(o) = {n}
              \/ Written(o) = {} /\ \E d \in Deletion(o) : Deletion(o) = {d}
  IN  /\ pc[o] \in {"start", "read", "ask"} => none
      /\ pc[o] = "write" /\ cmd[o] # "resolve" => none
      /\ cmd[o] \notin {"resolve", "security"} =>
           IF told[o] = "done" THEN one ELSE none \/ one

(* What the question was about is what would be written over. *)
Asks == {"put", "rm", "rmrev", "rmatt", "resolve"}

AsAsked(o) ==
  cmd[o] \in Asks =>
    /\ pc[o] \in {"ask", "write"} /\ cmd[o] # "resolve" => rev[o] \in asked[o]
    /\ pc[o] \in {"ask", "write"} /\ cmd[o] = "resolve" => drop[o] \subseteq asked[o]
    /\ pc[o] = "write" => agreed[o] \/ (cmd[o] = "put" /\ rev[o] = 0)
    /\ \A d \in Deletion(o) : agreed[o] /\ d.rev \in asked[o]
    /\ \A n \in Written(o) : parent[n] # 0 => agreed[o] /\ parent[n] \in asked[o]

(* What would be written is what was read, and more, unless the operator agreed. *)
Carries(o) ==
  /\ cmd[o] \in {"attach", "edit"} /\ pc[o] = "write" =>
       agreed[o] \/ (rev[o] \in 1..last /\ buf[o] = content[rev[o]])
  /\ cmd[o] = "edit" /\ pc[o] = "read" => agreed[o] \/ tries[o] = 0
  /\ cmd[o] \notin {"cp", "putrev"} => \A n \in Written(o) :
       parent[n] # 0 => content[parent[n]] \subseteq content[n] \/ agreed[o]

(* The line that resolve keeps goes on, or somebody else has ended it. *)
IsThere(o) ==
  \/ \E n \in leaves : branch[n] = branch[keep[o]]
  \/ \E d \in deleted : d.by # o /\ branch[d.rev] = branch[keep[o]]

Keeps(o) ==
  cmd[o] = "resolve" =>
    /\ pc[o] \in {"ask", "write"} \/ told[o] = "done" => keep[o] # 0
    /\ keep[o] = 0 => drop[o] = {}
    /\ keep[o] # 0 => IsThere(o) /\ \A r \in drop[o] : branch[r] # branch[keep[o]]

(* What a command does to the security object, and what has become of it. *)
Entries(o) ==
  cmd[o] = "security" =>
    /\ pc[o] \in {"ask", "write"} \/ told[o] = "done" =>
         buf[o] \in {asked[o] \cup {o}, asked[o] \ {Nobody}}
    /\ pc[o] = "write" => agreed[o]

Stands(o) ==
  cmd[o] = "security" /\ told[o] = "done" =>
    \A e \in {o, Nobody} :
      (e \in asked[o]) # (e \in buf[o]) =>
        \/ (e \in sec) = (e \in buf[o])
        \/ \E p \in Operators \ {o} :
             /\ cmd[p] = "security" /\ agreed[p] /\ pc[p] = "done" /\ sec = buf[p]
             /\ (e \in asked[p]) = (e \in asked[o])

Server == ServerTypes /\ Branches

Local(o) ==
  Course(o) /\ Once(o) /\ AsAsked(o) /\ Carries(o) /\ Keeps(o) /\ Entries(o)

Inv ==
  Server /\ LocalTypes /\ \A o \in Operators : Local(o) /\ Stands(o)

-----------------------------------------------------------------------------
(* The greatest of some numbers.                                           *)

Less == {p \in Nat \X Nat : p[1] < p[2]}

LEMMA Least ==
  ASSUME NEW T, T \subseteq Nat, T # {}
  PROVE  \E x \in T : \A y \in T : x =< y
<1>1. IsWellFoundedOn(Less, Nat)
  BY NatLessThanWellFounded DEF OpToRel, Less
<1>2. PICK x \in T : \A y \in T : ~ (<<y, x>> \in Less)
  BY <1>1, WFMin
<1>3. \A y \in T : ~ (y < x)
  BY <1>2 DEF Less
<1> QED
  BY <1>2, <1>3

LEMMA Greatest ==
  ASSUME NEW n \in Nat, NEW T, T \subseteq 1..n, T # {}
  PROVE  Max(T) \in T
<1> DEFINE U == {k \in Nat : \A y \in T : y =< k}
<1>1. U \subseteq Nat /\ n \in U
  OBVIOUS
<1>2. PICK x \in U : \A y \in U : x =< y
  <2> HIDE DEF U
  <2> QED
    BY <1>1, Least
<1>4. x \in T
  <2>1. SUFFICES ASSUME x \notin T PROVE FALSE
    OBVIOUS
  <2>2. PICK y \in T : y \in 1..n
    OBVIOUS
  <2>3. x # 0
    BY <2>2
  <2>4. \A z \in T : z =< x - 1
    BY <2>1, <2>3
  <2>5. x - 1 \in U
    BY <2>3, <2>4
  <2> QED
    BY <1>2, <2>5
<1>5. \E z \in T : \A y \in T : z >= y
  BY <1>4
<1> QED
  BY <1>5 DEF Max

LEMMA WinnerIsALeaf ==
  ASSUME Server
  PROVE  IF leaves = {} THEN Winner = 0 ELSE Winner \in leaves /\ Winner \in 1..last
<1>1. leaves # {} => Max(leaves) \in leaves
  BY Greatest DEF Server, ServerTypes
<1> QED
  BY <1>1 DEF Winner, Server, ServerTypes

-----------------------------------------------------------------------------
(* What the server does with a write.                                      *)

(* It goes after the revisions there are, which stay what they were. *)
Grows(r, c, who) ==
  /\ last' = last + 1 /\ leaves' = (leaves \ {r}) \cup {last + 1} /\ deleted' = deleted
  /\ \A n \in 1..last : /\ parent'[n] = parent[n] /\ branch'[n] = branch[n]
                         /\ content'[n] = content[n] /\ by'[n] = by[n]
  /\ parent'[last + 1] = r /\ by'[last + 1] = who
  /\ branch'[last + 1] = (IF r = 0 THEN last + 1 ELSE branch[r])
  /\ content'[last + 1] = c \cup {last + 1}

LEMMA Appended ==
  ASSUME NEW S, NEW s \in Seq(S), NEW x \in S
  PROVE  /\ Append(s, x) \in Seq(S) /\ Len(Append(s, x)) = Len(s) + 1
         /\ \A i \in 1..Len(s) : Append(s, x)[i] = s[i]
         /\ Append(s, x)[Len(s) + 1] = x
OBVIOUS

LEMMA StoredGrows ==
  ASSUME ServerTypes, NEW r \in 0..last, NEW c \in SUBSET Marks,
         NEW who \in Operators \cup {Nobody}, Stored(r, c, who)
  PROVE  Grows(r, c, who) /\ ServerTypes'
<1>1. last \in Nat /\ last + 1 \in Nat /\ leaves \subseteq 1..last
  BY DEF ServerTypes
<1>2. /\ last' = last + 1 /\ leaves' = (leaves \ {r}) \cup {last + 1} /\ deleted' = deleted
      /\ parent' = Append(parent, r) /\ content' = Append(content, c \cup {last + 1})
      /\ branch' = Append(branch, IF r = 0 THEN last + 1 ELSE branch[r])
      /\ by' = Append(by, who)
  BY DEF Stored
<1>3. (IF r = 0 THEN last + 1 ELSE branch[r]) \in Nat
  BY <1>1, ElementOfSeq DEF ServerTypes
<1>4. c \cup {last + 1} \in SUBSET Marks
  BY <1>1 DEF Marks
<1>5. /\ parent' \in Seq(Nat) /\ Len(parent') = last' /\ parent'[last + 1] = r
      /\ \A n \in 1..last : parent'[n] = parent[n]
  BY <1>1, <1>2, AppendProperties DEF ServerTypes
<1>6. /\ branch' \in Seq(Nat) /\ Len(branch') = last'
      /\ branch'[last + 1] = (IF r = 0 THEN last + 1 ELSE branch[r])
      /\ \A n \in 1..last : branch'[n] = branch[n]
  BY <1>1, <1>2, <1>3, AppendProperties DEF ServerTypes
<1>7. /\ content' \in Seq(SUBSET Marks) /\ Len(content') = last'
      /\ content'[last + 1] = c \cup {last + 1}
      /\ \A n \in 1..last : content'[n] = content[n]
  BY <1>1, <1>2, <1>4, AppendProperties DEF ServerTypes
<1>8. /\ by' \in Seq(Operators \cup {Nobody}) /\ Len(by') = last' /\ by'[last + 1] = who
      /\ \A n \in 1..last : by'[n] = by[n]
  BY <1>1, <1>2, Appended DEF ServerTypes
<1>9. Grows(r, c, who)
  BY <1>2, <1>5, <1>6, <1>7, <1>8 DEF Grows
<1>10. /\ last' \in Nat /\ leaves' \subseteq 1..last'
       /\ \A d \in deleted' : d.rev \in 1..last'
  BY <1>1, <1>2 DEF ServerTypes
<1>11. \A n \in 1..last' : parent'[n] \in 0..last'
  BY <1>1, <1>2, <1>5 DEF ServerTypes
<1> QED
  BY <1>5, <1>6, <1>7, <1>8, <1>9, <1>10, <1>11 DEF ServerTypes

LEMMA GrowsBranches ==
  ASSUME Server, NEW r \in 0..last, NEW c, NEW who, Accepts(r), Grows(r, c, who)
  PROVE  Branches'
<1>1. /\ last \in Nat /\ leaves \subseteq 1..last
      /\ \A n \in 1..last : branch[n] \in Nat /\ branch[n] =< last
      /\ \A m, n \in leaves : branch[m] = branch[n] => m = n
  BY ElementOfSeq DEF Server, ServerTypes, Branches
<1>2. /\ last' = last + 1 /\ leaves' = (leaves \ {r}) \cup {last + 1}
      /\ \A n \in 1..last : branch'[n] = branch[n]
      /\ branch'[last + 1] = (IF r = 0 THEN last + 1 ELSE branch[r])
  BY DEF Grows
<1>3. r # 0 => r \in leaves
  BY DEF Accepts
<1>4. \A n \in 1..last' : branch'[n] =< last'
  BY <1>1, <1>2
<1>5. \A m \in leaves \ {r} : branch'[m] = branch[m] /\ branch'[m] # branch'[last + 1]
  BY <1>1, <1>2, <1>3
<1>6. \A m, n \in leaves' : branch'[m] = branch'[n] => m = n
  BY <1>1, <1>2, <1>5
<1> QED
  BY <1>4, <1>6 DEF Branches

LEMMA RemovedServer ==
  ASSUME Server, NEW r \in leaves, NEW who, Removed(r, who) PROVE Server'
<1>1. r \in 1..last
  BY DEF Server, ServerTypes
<1>2. \A d \in deleted' : d.rev \in 1..last
  BY <1>1 DEF Removed, Server, ServerTypes
<1> QED
  BY <1>2 DEF Removed, Server, ServerTypes, Branches

-----------------------------------------------------------------------------
(* What one command does is nothing to the state of another.               *)

Mine(p) ==
  <<cmd[p], pc[p], rev[p], buf[p], keep[p], drop[p], tries[p], asked[p], agreed[p], told[p]>>

LEMMA SameLocal ==
  ASSUME NEW p \in Operators, Local(p), UNCHANGED doc, UNCHANGED Mine(p)
  PROVE  Local(p)'
<1> USE DEF doc, Mine
<1>1. Written(p)' = Written(p) /\ Deletion(p)' = Deletion(p)
  BY DEF Written, Deletion
<1>2. Course(p)' /\ Once(p)'
  BY <1>1 DEF Local, Course, Once
<1>3. AsAsked(p)'
  BY <1>1 DEF Local, AsAsked
<1>4. Carries(p)' /\ Entries(p)'
  BY <1>1 DEF Local, Carries, Entries
<1>5. Keeps(p)'
  BY DEF Local, Keeps, IsThere
<1> QED
  BY <1>2, <1>3, <1>4, <1>5 DEF Local

LEMMA StoredOther ==
  ASSUME Server, LocalTypes, NEW p \in Operators, Local(p), UNCHANGED Mine(p),
         NEW r \in 0..last, NEW c, NEW who, who # p, Accepts(r), Grows(r, c, who)
  PROVE  Local(p)'
<1> USE DEF Mine
<1>1. /\ last \in Nat /\ last' = last + 1 /\ leaves \subseteq 1..last
      /\ \A n \in 1..last : n \in 1..last' /\ parent[n] \in 0..last
      /\ \A d \in deleted : d.rev \in 1..last
      /\ rev[p] \in Nat /\ keep[p] \in Nat
  BY DEF Server, ServerTypes, Grows, LocalTypes
<1>2. Written(p)' = Written(p)
  BY <1>1 DEF Grows, Written
<1>3. Deletion(p)' = Deletion(p)
  BY DEF Grows, Deletion
<1>4. Course(p)' /\ Once(p)' /\ Entries(p)'
  BY <1>1, <1>2, <1>3 DEF Local, Course, Once, Entries
<1>5. AsAsked(p)'
  <2>1. \A n \in Written(p) : parent'[n] = parent[n]
    BY DEF Grows, Written
  <2> QED
    BY <1>2, <1>3, <2>1 DEF Local, AsAsked
<1>6. Carries(p)'
  <2>1. \A n \in Written(p) : parent'[n] = parent[n] /\ content'[n] = content[n]
    BY DEF Grows, Written
  <2>2. \A n \in Written(p) : parent[n] # 0 => content'[parent[n]] = content[parent[n]]
    BY <1>1 DEF Grows, Written
  <2>3. rev[p] \in 1..last => rev[p] \in 1..last' /\ content'[rev[p]] = content[rev[p]]
    BY <1>1 DEF Grows
  <2> QED
    BY <1>2, <2>1, <2>2, <2>3 DEF Local, Carries
<1>7. Keeps(p)'
  <2>1. keep[p] # 0 => keep[p] \in 1..last /\ branch'[keep[p]] = branch[keep[p]]
    BY <1>1 DEF Local, Course, Grows
  <2>2. \A n \in drop[p] : branch'[n] = branch[n]
    BY DEF Local, Course, Grows
  <2>3. ASSUME keep[p] # 0, IsThere(p) PROVE IsThere(p)'
    <3>1. CASE \E n \in leaves : branch[n] = branch[keep[p]]
      <4>1. PICK n \in leaves : branch[n] = branch[keep[p]]
        BY <3>1
      <4>2. CASE n = r
        BY <1>1, <2>1, <2>3, <4>1, <4>2 DEF Grows, IsThere
      <4>3. CASE n # r
        BY <1>1, <2>1, <2>3, <4>1, <4>3 DEF Grows, IsThere
      <4> QED
        BY <4>2, <4>3
    <3>2. CASE \E d \in deleted : d.by # p /\ branch[d.rev] = branch[keep[p]]
      BY <1>1, <2>1, <2>3, <3>2 DEF Grows, IsThere
    <3> QED
      BY <2>3, <3>1, <3>2 DEF IsThere
  <2> QED
    BY <2>1, <2>2, <2>3 DEF Local, Keeps
<1> QED
  BY <1>4, <1>5, <1>6, <1>7 DEF Local

LEMMA RemovedOther ==
  ASSUME Server, NEW p \in Operators, Local(p), UNCHANGED Mine(p),
         NEW r \in leaves, NEW who, who # p, Removed(r, who)
  PROVE  Local(p)'
<1> USE DEF Mine
<1>1. /\ UNCHANGED <<last, parent, branch, content, by>>
      /\ leaves' = leaves \ {r} /\ deleted' = deleted \cup {[by |-> who, rev |-> r]}
  BY DEF Removed
<1>2. Written(p)' = Written(p) /\ Deletion(p)' = Deletion(p)
  BY <1>1 DEF Written, Deletion
<1>3. Course(p)' /\ Once(p)' /\ Entries(p)'
  BY <1>1, <1>2 DEF Local, Course, Once, Entries
<1>4. AsAsked(p)' /\ Carries(p)'
  BY <1>1, <1>2 DEF Local, AsAsked, Carries
<1>5. Keeps(p)'
  <2>1. ASSUME NEW n \in leaves, branch[n] = branch[keep[p]] PROVE IsThere(p)'
    <3>1. CASE n = r
      <4>1. /\ [by |-> who, rev |-> r] \in deleted' /\ [by |-> who, rev |-> r].by # p
            /\ branch'[[by |-> who, rev |-> r].rev] = branch'[keep'[p]]
        BY <1>1, <2>1, <3>1
      <4> QED
        BY <4>1 DEF IsThere
    <3>2. CASE n # r
      BY <1>1, <2>1, <3>2 DEF IsThere
    <3> QED
      BY <3>1, <3>2
  <2>2. ASSUME NEW d \in deleted, d.by # p, branch[d.rev] = branch[keep[p]]
        PROVE  IsThere(p)'
    BY <1>1, <2>2 DEF IsThere
  <2>3. IsThere(p) => IsThere(p)'
    BY <2>1, <2>2 DEF IsThere
  <2> QED
    BY <1>1, <2>3 DEF Local, Keeps
<1> QED
  BY <1>3, <1>4, <1>5 DEF Local

(* Nothing but security itself touches what it did. *)
LEMMA StandsKept ==
  ASSUME Inv, NEW o \in Operators, UNCHANGED <<sec, cmd>>, pc[o] # "done",
         told'[o] = "done" => cmd[o] # "security",
         \A p \in Operators \ {o} : UNCHANGED Mine(p)
  PROVE  \A p \in Operators : Stands(p)'
<1>1. SUFFICES ASSUME NEW p \in Operators, cmd[p] = "security", told'[p] = "done"
               PROVE  Stands(p)'
  BY DEF Stands
<1>2. p # o
  BY <1>1
<1>3. UNCHANGED <<sec, Mine(p)>> /\ Stands(p)
  BY <1>2 DEF Inv
<1>4. \A q \in Operators : pc[q] = "done" => UNCHANGED Mine(q)
  OBVIOUS
<1> QED
  BY <1>1, <1>3, <1>4 DEF Mine, Stands

-----------------------------------------------------------------------------

LEMMA LocalStep ==
  ASSUME Inv, NEW o \in Operators, UNCHANGED <<doc, sec, cmd>>, pc[o] # "done",
         told'[o] = "done" => cmd[o] # "security",
         \A p \in Operators \ {o} : UNCHANGED Mine(p),
         LocalTypes', Local(o)'
  PROVE  Inv'
<1>1. \A p \in Operators : Stands(p)'
  BY StandsKept
<1>2. \A p \in Operators : Local(p)'
  BY SameLocal DEF Inv
<1>3. Server'
  BY DEF Inv, doc, Server, ServerTypes, Branches
<1> QED
  BY <1>1, <1>2, <1>3 DEF Inv
LEMMA SameWrites ==
  ASSUME NEW o, UNCHANGED doc
  PROVE  Written(o)' = Written(o) /\ Deletion(o)' = Deletion(o)
BY DEF doc, Written, Deletion

-----------------------------------------------------------------------------

LEMMA Initially == Init => Inv
<1> SUFFICES ASSUME Init PROVE Inv
  OBVIOUS
<1>1. last \in Nat /\ leaves = 1..last /\ deleted = {}
  BY WritesAssumption DEF Init
<1>2. /\ parent = [n \in 1..last |-> 0] /\ branch = [n \in 1..last |-> n]
      /\ content = [n \in 1..last |-> {n}] /\ by = [n \in 1..last |-> Nobody]
  BY <1>1 DEF Init
<1>3. /\ parent \in Seq(Nat) /\ Len(parent) = last /\ branch \in Seq(Nat) /\ Len(branch) = last
  BY <1>1, <1>2, IsASeq, LenProperties
<1>4. content \in Seq(SUBSET Marks) /\ Len(content) = last
  <2>1. \A n \in 1..last : {n} \in SUBSET Marks
    BY <1>1 DEF Marks
  <2> QED
    BY <1>1, <1>2, <2>1, IsASeq, LenProperties
<1>5. by \in Seq(Operators \cup {Nobody}) /\ Len(by) = last
  BY <1>1, <1>2, IsASeq, LenProperties
<1>6. Server
  BY <1>1, <1>2, <1>3, <1>4, <1>5 DEF Server, ServerTypes, Branches
<1>7. LocalTypes
  <2>1. agreed \in [Operators -> BOOLEAN]
    BY DEF Init
  <2>2. cmd \in [Operators -> AllCommands]
    BY WritesAssumption DEF Init, AllCommands
  <2> QED
    BY <2>1, <2>2 DEF Init, LocalTypes, Places, Words, Marks
<1>8. ASSUME NEW o \in Operators PROVE Local(o) /\ Stands(o)
  <2>1. Written(o) = {} /\ Deletion(o) = {}
    BY <1>1, <1>2, WritesAssumption DEF Written, Deletion
  <2>2. /\ pc[o] = "start" /\ told[o] = "running" /\ tries[o] = 0 /\ rev[o] = 0
        /\ keep[o] = 0 /\ drop[o] = {}
    BY DEF Init
  <2> QED
    BY <1>1, <2>1, <2>2 DEF Local, Stands, Course, Once, AsAsked, Carries, Keeps, Entries
<1> QED
  BY <1>6, <1>7, <1>8 DEF Inv

-----------------------------------------------------------------------------
(* The steps of a command that leave the document alone.                   *)

(* A command that ends without a success has done no more than it had. *)
Ends(o) ==
  /\ pc[o] # "done"
  /\ \E word \in {"error", "nothing", "declined"} : End(o, word)
  /\ UNCHANGED <<doc, sec, cmd, rev, buf, keep, drop, agreed>>
  /\ UNCHANGED asked \/ (cmd[o] = "security" /\ \E a \in SUBSET Marks : asked' = [asked EXCEPT ![o] = a])
  /\ UNCHANGED tries \/ tries' = [tries EXCEPT ![o] = @ + 1]

LEMMA EndsKeeps == ASSUME Inv, NEW o \in Operators, Ends(o) PROVE Inv'
<1>1. PICK word \in {"error", "nothing", "declined"} : End(o, word)
  BY DEF Ends
<1>2. /\ pc' = [pc EXCEPT ![o] = "done"] /\ told' = [told EXCEPT ![o] = word]
      /\ UNCHANGED <<doc, sec, cmd, rev, buf, keep, drop, agreed>>
  BY <1>1 DEF Ends, End, Goto
<1>3. LocalTypes'
  <2>1. asked' \in [Operators -> SUBSET Marks] /\ tries' \in [Operators -> Nat]
    BY DEF Ends, Inv, LocalTypes
  <2> QED
    BY <1>2, <2>1 DEF Inv, LocalTypes, Places, Words
<1>4. pc'[o] = "done" /\ told'[o] = word /\ word \notin {"done", "running"}
  BY <1>2 DEF Inv, LocalTypes
<1>5. \A p \in Operators \ {o} : UNCHANGED Mine(p)
  BY <1>2 DEF Ends, Mine, Inv, LocalTypes
<1>6. Written(o)' = Written(o) /\ Deletion(o)' = Deletion(o) /\ UNCHANGED <<last, leaves, parent, branch, content, deleted>>
  BY <1>2, SameWrites DEF doc
<1>7. Local(o) /\ told[o] # "done" /\ pc[o] # "done"
  BY DEF Inv, Ends, Local, Course
<1>8. Local(o)'
  <2>1. Course(o)' /\ Once(o)'
    BY <1>2, <1>4, <1>6, <1>7 DEF Local, Course, Once
  <2>2. AsAsked(o)'
    BY <1>2, <1>4, <1>6, <1>7 DEF Ends, Local, AsAsked, Asks
  <2>3. Carries(o)' /\ Entries(o)'
    BY <1>2, <1>4, <1>6, <1>7 DEF Local, Carries, Entries
  <2>4. Keeps(o)'
    BY <1>2, <1>4, <1>6, <1>7 DEF Local, Keeps, IsThere
  <2> QED
    BY <2>1, <2>2, <2>3, <2>4 DEF Local
<1> QED
  BY <1>2, <1>3, <1>4, <1>5, <1>7, <1>8, LocalStep

LEMMA StartKeeps == ASSUME Inv, NEW o \in Operators, Start(o) PROVE Inv'
<1>1. /\ pc[o] = "start" /\ UNCHANGED <<doc, sec, cmd, buf, keep, drop, tries, agreed, told>>
  BY DEF Start
<1>2. /\ Local(o) /\ told[o] = "running" /\ tries[o] = 0 /\ Written(o) = {} /\ Deletion(o) = {}
  BY <1>1 DEF Inv, Local, Course, Once
<1>3. Written(o)' = {} /\ Deletion(o)' = {} /\ UNCHANGED <<last, leaves, branch, content, deleted>>
  BY <1>1, <1>2, SameWrites DEF doc
<1>4. CASE cmd[o] \in {"putrev", "rmrev"}
  <2>1. PICK r \in 1..last :
          /\ rev' = [rev EXCEPT ![o] = r] /\ asked' = [asked EXCEPT ![o] = {r}]
          /\ pc' = [pc EXCEPT ![o] = IF cmd[o] = "rmrev" THEN "ask" ELSE "write"]
    BY <1>4 DEF Start, Goto
  <2>2. r \in Nat /\ {r} \in SUBSET Marks /\ r =< last
    BY DEF Inv, Server, ServerTypes, Marks
  <2>3. LocalTypes'
    BY <1>1, <2>1, <2>2 DEF Inv, LocalTypes, Places
  <2>4. /\ rev'[o] = r /\ asked'[o] = {r}
        /\ pc'[o] = IF cmd[o] = "rmrev" THEN "ask" ELSE "write"
    BY <2>1 DEF Inv, LocalTypes
  <2>5. \A p \in Operators \ {o} : UNCHANGED Mine(p)
    BY <1>1, <2>1 DEF Mine, Inv, LocalTypes
  <2>6. Local(o)'
    BY <1>1, <1>2, <1>3, <1>4, <2>2, <2>4
       DEF Local, Course, Once, AsAsked, Asks, Carries, Keeps, Entries
  <2> QED
    BY <1>1, <1>2, <2>3, <2>5, <2>6, LocalStep
<1>5. CASE cmd[o] \notin {"putrev", "rmrev"}
  <2>1. /\ UNCHANGED <<rev, asked>>
        /\ pc' = [pc EXCEPT ![o] = IF cmd[o] = "cancel" THEN "ask" ELSE "read"]
    BY <1>5 DEF Start, Goto
  <2>2. LocalTypes'
    BY <1>1, <2>1 DEF Inv, LocalTypes, Places
  <2>3. pc'[o] = IF cmd[o] = "cancel" THEN "ask" ELSE "read"
    BY <2>1 DEF Inv, LocalTypes
  <2>4. \A p \in Operators \ {o} : UNCHANGED Mine(p)
    BY <1>1, <2>1 DEF Mine, Inv, LocalTypes
  <2>5. Local(o)'
    <3>1. /\ Course(o)' /\ Once(o)'
          /\ AsAsked(o)' /\ Carries(o)' /\ Entries(o)'
      <4>1. Course(o)'
        BY <1>1, <1>2, <1>3, <1>5, <2>1, <2>3 DEF Local, Course
      <4>2. Once(o)'
        BY <1>1, <1>2, <1>3, <2>3 DEF Once
      <4>3. AsAsked(o)' /\ Carries(o)' /\ Entries(o)'
        BY <1>1, <1>2, <1>3, <2>1, <2>3 DEF AsAsked, Asks, Carries, Entries
      <4> QED
        BY <4>1, <4>2, <4>3
    <3>2. Keeps(o)'
      BY <1>1, <1>2, <1>3, <2>1, <2>3 DEF Local, Keeps, IsThere
    <3> QED
      BY <3>1, <3>2 DEF Local
  <2> QED
    BY <1>1, <1>2, <2>1, <2>2, <2>4, <2>5, LocalStep
<1> QED
  BY <1>4, <1>5

LEMMA ReadKeeps == ASSUME Inv, NEW o \in Operators, Read(o) PROVE Inv'
<1>1. /\ pc[o] = "read" /\ cmd[o] \notin {"resolve", "security"}
      /\ rev' = [rev EXCEPT ![o] = Winner] /\ asked' = [asked EXCEPT ![o] = {Winner}]
      /\ buf' = [buf EXCEPT ![o] = IF Winner = 0 THEN {} ELSE ReadContent(o)]
      /\ pc' = [pc EXCEPT ![o] = IF cmd[o] \in {"rm", "rmatt"} \/ (cmd[o] = "put" /\ Winner # 0) THEN "ask" ELSE "write"]
      /\ UNCHANGED <<doc, sec, cmd, keep, drop, tries, agreed, told>>
      /\ Winner = 0 => cmd[o] \in {"put", "cp"}
  BY DEF Read, Goto
<1>2. /\ Local(o) /\ told[o] = "running" /\ Written(o) = {} /\ Deletion(o) = {}
  BY <1>1 DEF Inv, Local, Course, Once
<1>3. Written(o)' = {} /\ Deletion(o)' = {} /\ UNCHANGED <<last, leaves, branch, content, deleted>>
  BY <1>1, <1>2, SameWrites DEF doc
<1>4. /\ Winner \in Nat /\ Winner =< last /\ (Winner # 0 => Winner \in 1..last)
      /\ {Winner} \in SUBSET Marks
  BY WinnerIsALeaf DEF Inv, Server, ServerTypes, Marks
<1>5. Winner # 0 => content[Winner] \in SUBSET Marks
  BY <1>4, ElementOfSeq DEF Inv, Server, ServerTypes
<1>6. buf[o] \in SUBSET Marks
  BY DEF Inv, LocalTypes
<1>7. (IF Winner = 0 THEN {} ELSE ReadContent(o)) \in SUBSET Marks
  BY <1>5, <1>6 DEF ReadContent
<1>8. LocalTypes'
  BY <1>1, <1>4, <1>7 DEF Inv, LocalTypes, Places
<1>9. /\ rev'[o] = Winner /\ asked'[o] = {Winner}
      /\ buf'[o] = (IF Winner = 0 THEN {} ELSE ReadContent(o))
      /\ pc'[o] = (IF cmd[o] \in {"rm", "rmatt"} \/ (cmd[o] = "put" /\ Winner # 0) THEN "ask" ELSE "write")
  BY <1>1 DEF Inv, LocalTypes
<1>10. \A p \in Operators \ {o} : UNCHANGED Mine(p)
  BY <1>1 DEF Mine, Inv, LocalTypes
<1>11. Local(o)'
  <2>1. /\ Course(o)' /\ Once(o)'
        /\ Entries(o)' /\ Keeps(o)'
    <3>1. Course(o)'
      BY <1>1, <1>2, <1>3, <1>4, <1>9 DEF Local, Course
    <3>2. Once(o)'
      BY <1>1, <1>2, <1>3 DEF Once
    <3>3. Entries(o)' /\ Keeps(o)'
      BY <1>1 DEF Entries, Keeps
    <3> QED
      BY <3>1, <3>2, <3>3
  <2>2. AsAsked(o)'
    <3>1. cmd[o] # "rmrev"
      BY <1>1, <1>2 DEF Local, Course
    <3> QED
      BY <1>1, <1>2, <1>3, <1>9, <3>1 DEF AsAsked, Asks
  <2>3. cmd[o] \in {"attach", "edit"} =>
          agreed[o] \/ (Winner \in 1..last /\ buf'[o] = content[Winner])
    <3>1. cmd[o] = "edit" => agreed[o] \/ tries[o] = 0
      BY <1>1, <1>2 DEF Local, Carries
    <3> QED
      BY <1>1, <1>4, <1>9, <3>1 DEF ReadContent
  <2>4. Carries(o)'
    BY <1>1, <1>3, <1>9, <2>3 DEF Carries
  <2> QED
    BY <2>1, <2>2, <2>4 DEF Local
<1> QED
  BY <1>1, <1>2, <1>8, <1>10, <1>11, LocalStep

LEMMA ReadConflictsKeeps ==
  ASSUME Inv, NEW o \in Operators, ReadConflicts(o) PROVE Inv'
<1>1. CASE Cardinality(leaves) = 1
  <2>1. Ends(o)
    BY <1>1 DEF ReadConflicts, Ends
  <2> QED
    BY <2>1, EndsKeeps
<1>2. CASE Cardinality(leaves) # 1
  <2>1. PICK k \in leaves :
          /\ keep' = [keep EXCEPT ![o] = k] /\ drop' = [drop EXCEPT ![o] = leaves \ {k}]
          /\ asked' = [asked EXCEPT ![o] = leaves \ {k}]
    BY <1>2 DEF ReadConflicts, AllBut
  <2>2. /\ pc[o] = "read" /\ cmd[o] = "resolve" /\ pc' = [pc EXCEPT ![o] = "ask"]
        /\ UNCHANGED <<doc, sec, cmd, rev, buf, tries, agreed, told>>
    BY <1>2 DEF ReadConflicts, Goto
  <2>3. leaves \ {k} # {}
    <3>1. leaves # {k}
      BY <1>2, FS_Singleton
    <3> QED
      BY <3>1
  <2>4. /\ last \in Nat /\ k \in 1..last /\ leaves \ {k} \subseteq 1..last
        /\ leaves \ {k} \in SUBSET Nat /\ leaves \ {k} \in SUBSET Marks
        /\ \A r \in leaves \ {k} : branch[r] # branch[k]
    BY DEF Inv, Server, ServerTypes, Branches, Marks
  <2>5. /\ Local(o) /\ told[o] = "running" /\ Written(o) = {} /\ Deletion(o) = {}
    BY <2>2 DEF Inv, Local, Course, Once
  <2>6. Written(o)' = {} /\ Deletion(o)' = {} /\ UNCHANGED <<last, leaves, branch, content, deleted>>
    BY <2>2, <2>5, SameWrites DEF doc
  <2>7. LocalTypes'
    BY <2>1, <2>2, <2>4 DEF Inv, LocalTypes, Places
  <2>8. /\ pc'[o] = "ask" /\ keep'[o] = k /\ drop'[o] = leaves \ {k} /\ asked'[o] = leaves \ {k}
    BY <2>1, <2>2 DEF Inv, LocalTypes
  <2>9. \A p \in Operators \ {o} : UNCHANGED Mine(p)
    BY <2>1, <2>2 DEF Mine, Inv, LocalTypes
  <2>10. Local(o)'
    <3>1. Course(o)'
      BY <2>2, <2>3, <2>4, <2>5, <2>6, <2>8 DEF Local, Course
    <3>2. Once(o)' /\ AsAsked(o)' /\ Carries(o)' /\ Entries(o)'
      BY <2>2, <2>5, <2>6, <2>8 DEF Once, AsAsked, Asks, Carries, Entries
    <3>3. Keeps(o)'
      BY <2>2, <2>4, <2>6, <2>8 DEF Keeps, IsThere
    <3> QED
      BY <3>1, <3>2, <3>3 DEF Local
  <2> QED
    BY <2>2, <2>5, <2>7, <2>9, <2>10, LocalStep
<1> QED
  BY <1>1, <1>2

LEMMA ReadSecurityKeeps ==
  ASSUME Inv, NEW o \in Operators, ReadSecurity(o) PROVE Inv'
<1>1. PICK entries \in {sec \cup {o}, sec \ {Nobody}} :
        IF entries = sec THEN End(o, "nothing") /\ UNCHANGED buf
        ELSE Goto(o, "ask") /\ buf' = [buf EXCEPT ![o] = entries] /\ UNCHANGED told
  BY DEF ReadSecurity
<1>2. /\ pc[o] = "read" /\ cmd[o] = "security" /\ asked' = [asked EXCEPT ![o] = sec]
      /\ UNCHANGED <<doc, sec, cmd, rev, keep, drop, tries, agreed>>
  BY DEF ReadSecurity
<1>3. sec \in SUBSET Marks /\ entries \in SUBSET Marks
  BY DEF Inv, LocalTypes, Marks
<1>4. CASE entries = sec
  <2>1. Ends(o)
    BY <1>1, <1>2, <1>3, <1>4 DEF Ends
  <2> QED
    BY <2>1, EndsKeeps
<1>5. CASE entries # sec
  <2>1. /\ pc' = [pc EXCEPT ![o] = "ask"] /\ buf' = [buf EXCEPT ![o] = entries] /\ UNCHANGED told
    BY <1>1, <1>5 DEF Goto
  <2>2. /\ Local(o) /\ told[o] = "running" /\ Written(o) = {} /\ Deletion(o) = {}
    BY <1>2 DEF Inv, Local, Course, Once
  <2>3. Written(o)' = {} /\ Deletion(o)' = {} /\ UNCHANGED last
    BY <1>2, <2>2, SameWrites DEF doc
  <2>4. LocalTypes'
    BY <1>2, <1>3, <2>1 DEF Inv, LocalTypes, Places
  <2>5. pc'[o] = "ask" /\ buf'[o] = entries /\ asked'[o] = sec
    BY <1>2, <2>1 DEF Inv, LocalTypes
  <2>6. \A p \in Operators \ {o} : UNCHANGED Mine(p)
    BY <1>2, <2>1 DEF Mine, Inv, LocalTypes
  <2>7. Local(o)'
    <3>1. Course(o)' /\ Once(o)'
      BY <1>2, <2>1, <2>2, <2>3, <2>5 DEF Local, Course, Once
    <3>2. AsAsked(o)' /\ Carries(o)' /\ Keeps(o)'
      BY <1>2, <2>3, <2>5 DEF AsAsked, Asks, Carries, Keeps
    <3>3. Entries(o)'
      BY <1>1, <2>5 DEF Entries
    <3> QED
      BY <3>1, <3>2, <3>3 DEF Local
  <2> QED
    BY <1>2, <2>1, <2>2, <2>4, <2>6, <2>7, LocalStep
<1> QED
  BY <1>4, <1>5

LEMMA YesKeeps == ASSUME Inv, NEW o \in Operators, Yes(o) PROVE Inv'
<1>1. /\ pc[o] = "ask" /\ agreed' = [agreed EXCEPT ![o] = TRUE]
      /\ pc' = [pc EXCEPT ![o] = IF cmd[o] \in {"cancel", "edit"} THEN "read" ELSE "write"]
      /\ UNCHANGED <<doc, sec, cmd, rev, buf, keep, drop, tries, asked, told>>
  BY DEF Yes, Goto, AfterYes
<1>2. /\ Local(o) /\ told[o] = "running" /\ Written(o) = {} /\ Deletion(o) = {}
  BY <1>1 DEF Inv, Local, Course, Once
<1>3. /\ Written(o)' = {} /\ Deletion(o)' = {}
      /\ UNCHANGED <<last, leaves, branch, content, deleted>>
  BY <1>1, <1>2, SameWrites DEF doc
<1>4. LocalTypes'
  <2>1. agreed' \in [Operators -> BOOLEAN]
    BY <1>1 DEF Inv, LocalTypes
  <2> QED
    BY <1>1, <2>1 DEF Inv, LocalTypes, Places
<1>5. /\ agreed'[o] = TRUE
      /\ pc'[o] = (IF cmd[o] \in {"cancel", "edit"} THEN "read" ELSE "write")
  BY <1>1 DEF Inv, LocalTypes
<1>6. \A p \in Operators \ {o} : UNCHANGED Mine(p)
  BY <1>1 DEF Mine, Inv, LocalTypes
<1>7. Local(o)'
  <2>1. Course(o)' /\ Once(o)'
    BY <1>1, <1>2, <1>3, <1>5 DEF Local, Course, Once
  <2>2. AsAsked(o)' /\ Carries(o)' /\ Entries(o)'
    BY <1>1, <1>2, <1>3, <1>5 DEF Local, AsAsked, Asks, Carries, Entries
  <2>3. Keeps(o)'
    BY <1>1, <1>2, <1>3, <1>5 DEF Local, Keeps, IsThere
  <2> QED
    BY <2>1, <2>2, <2>3 DEF Local
<1> QED
  BY <1>1, <1>2, <1>4, <1>6, <1>7, LocalStep

(* After a conflict edit asks, cancel reads, and the rest end. *)
LEMMA ConflictKeeps == ASSUME Inv, NEW o \in Operators, Conflict(o) PROVE Inv'
<1>1. /\ pc[o] = "write" /\ tries' = [tries EXCEPT ![o] = @ + 1]
      /\ pc' = [pc EXCEPT ![o] = Retry(o)]
      /\ UNCHANGED <<doc, sec, cmd, rev, buf, keep, drop, asked, agreed>>
      /\ told' = IF Retry(o) = "done" THEN [told EXCEPT ![o] = "error"] ELSE told
  BY DEF Conflict, Goto
<1>2. CASE Retry(o) = "done"
  <2>1. Ends(o)
    BY <1>1, <1>2 DEF Ends, End, Goto
  <2> QED
    BY <2>1, EndsKeeps
<1>3. CASE Retry(o) # "done"
  <2>1. (cmd[o] = "edit" /\ Retry(o) = "ask") \/ (cmd[o] = "cancel" /\ Retry(o) = "read")
    BY <1>3 DEF Retry
  <2>2. UNCHANGED told
    BY <1>1, <1>3
  <2>3. /\ Local(o) /\ told[o] = "running" /\ Written(o) = {} /\ Deletion(o) = {}
    BY <1>1, <2>1 DEF Inv, Local, Course, Once
  <2>4. Written(o)' = {} /\ Deletion(o)' = {} /\ UNCHANGED last
    BY <1>1, <2>3, SameWrites DEF doc
  <2>5. LocalTypes'
    <3>1. tries' \in [Operators -> Nat]
      BY <1>1 DEF Inv, LocalTypes
    <3> QED
      BY <1>1, <2>1, <2>2, <3>1 DEF Inv, LocalTypes, Places
  <2>6. pc'[o] = Retry(o)
    BY <1>1 DEF Inv, LocalTypes
  <2>7. \A p \in Operators \ {o} : UNCHANGED Mine(p)
    BY <1>1, <2>2 DEF Mine, Inv, LocalTypes
  <2>8. Local(o)'
    <3>1. Course(o)' /\ Once(o)'
      BY <1>1, <2>1, <2>2, <2>3, <2>4, <2>6 DEF Local, Course, Once
    <3>2. AsAsked(o)' /\ Carries(o)' /\ Keeps(o)' /\ Entries(o)'
      BY <1>1, <2>1, <2>4, <2>6 DEF AsAsked, Asks, Carries, Keeps, Entries
    <3> QED
      BY <3>1, <3>2 DEF Local
  <2> QED
    BY <1>1, <2>2, <2>3, <2>5, <2>7, <2>8, LocalStep
<1> QED
  BY <1>2, <1>3
-----------------------------------------------------------------------------
(* The writes.                                                             *)

LEMMA OtherWritesKeeps == ASSUME Inv, OtherWrites PROVE Inv'
<1>1. PICK r \in leaves : Stored(r, content[r], Nobody)
  BY DEF OtherWrites
<1>2. UNCHANGED <<sec, pc, cmd, rev, buf, keep, drop, tries, asked, agreed, told>>
  BY DEF OtherWrites, local
<1>3. r \in 1..last /\ r \in 0..last /\ Accepts(r) /\ content[r] \in SUBSET Marks
  <2>1. r \in 1..last /\ last \in Nat
    BY DEF Inv, Server, ServerTypes
  <2>2. content[r] \in SUBSET Marks
    BY <2>1, ElementOfSeq DEF Inv, Server, ServerTypes
  <2> QED
    BY <2>1, <2>2 DEF Accepts
<1>4. Grows(r, content[r], Nobody) /\ ServerTypes'
  BY <1>1, <1>3, StoredGrows DEF Inv, Server
<1>5. Branches'
  BY <1>3, <1>4, GrowsBranches DEF Inv
<1>6. \A p \in Operators : UNCHANGED Mine(p) /\ Nobody # p
  BY <1>2, WritesAssumption DEF Mine
<1>7. \A p \in Operators : Local(p)'
  BY <1>3, <1>4, <1>6, StoredOther DEF Inv
<1>8. \A p \in Operators : Stands(p)'
  BY <1>2 DEF Inv, Stands
<1>9. LocalTypes'
  BY <1>2 DEF Inv, LocalTypes
<1> QED
  BY <1>4, <1>5, <1>7, <1>8, <1>9 DEF Inv, Server

(* What a write is made of: the locals of o afterwards, whatever the server did. *)
LEMMA WriteLocals ==
  ASSUME Inv, NEW o \in Operators, NEW answered \in BOOLEAN, Write(o, answered)
  PROVE  /\ UNCHANGED <<sec, cmd, rev, buf, keep, asked, agreed>>
         /\ LocalTypes' /\ told[o] = "running"
         /\ \A p \in Operators \ {o} : UNCHANGED Mine(p)
         /\ drop'[o] = drop[o] \ {Target(o)}
         /\ IF answered /\ drop'[o] # {} THEN pc'[o] = "write" /\ told'[o] = "running"
            ELSE /\ pc'[o] = "done"
                 /\ told'[o] = (IF answered THEN "done" ELSE "error")
<1>1. /\ pc[o] = "write" /\ drop' = [drop EXCEPT ![o] = @ \ {Target(o)}]
      /\ tries' = [tries EXCEPT ![o] = @ + 1]
      /\ UNCHANGED <<sec, cmd, rev, buf, keep, asked, agreed>>
  BY DEF Write
<1>2. told[o] = "running"
  BY <1>1 DEF Inv, Local, Course
<1>3. drop'[o] = drop[o] \ {Target(o)} /\ drop' \in [Operators -> SUBSET Nat]
      /\ tries' \in [Operators -> Nat]
  BY <1>1 DEF Inv, LocalTypes
<1>4. CASE answered /\ drop'[o] # {}
  <2>1. pc' = [pc EXCEPT ![o] = "write"]
    BY <1>4 DEF Write, Goto
  <2>2. pc'[o] = "write"
    BY <2>1 DEF Inv, LocalTypes
  <2>3. told' = told
    BY <1>4, <2>2 DEF Write
  <2> QED
    BY <1>1, <1>2, <1>3, <1>4, <2>1, <2>2, <2>3 DEF Inv, LocalTypes, Places, Mine
<1>5. CASE ~(answered /\ drop'[o] # {})
  <2>1. pc' = [pc EXCEPT ![o] = "done"]
    BY <1>5 DEF Write, Goto, OnLost
  <2>2. pc'[o] = "done"
    BY <2>1 DEF Inv, LocalTypes
  <2>3. told' = [told EXCEPT ![o] = IF answered THEN "done" ELSE "error"]
    BY <2>2 DEF Write
  <2>4. told'[o] = (IF answered THEN "done" ELSE "error")
    BY <2>3 DEF Inv, LocalTypes
  <2>5. LocalTypes'
    BY <1>1, <1>3, <2>1, <2>3 DEF Inv, LocalTypes, Places, Words
  <2>6. \A p \in Operators \ {o} : UNCHANGED Mine(p)
    BY <1>1, <2>1, <2>3 DEF Inv, LocalTypes, Mine
  <2> QED
    BY <1>1, <1>2, <1>3, <1>5, <2>2, <2>4, <2>5, <2>6
<1> QED
  BY <1>4, <1>5

(* A revision is stored: by a command that is not one of those that delete. *)
LEMMA StoreKeeps ==
  ASSUME Inv, NEW o \in Operators, NEW answered \in BOOLEAN, Write(o, answered), ~Deletes(o)
  PROVE  Inv'
<1>1. /\ pc[o] = "write" /\ cmd[o] # "security" /\ Accepts(rev[o])
      /\ Stored(rev[o], buf[o], o) /\ cmd[o] # "resolve" /\ cmd[o] \in AllCommands
      /\ cmd[o] \in {"put", "putrev", "cp", "attach", "edit", "rmatt"}
  BY DEF Write, Deletes, Target, Inv, LocalTypes, AllCommands
<1>2. /\ UNCHANGED <<sec, cmd, rev, buf, keep, asked, agreed>>
      /\ LocalTypes' /\ told[o] = "running" /\ drop'[o] \subseteq drop[o]
      /\ \A p \in Operators \ {o} : UNCHANGED Mine(p)
      /\ IF answered /\ drop'[o] # {} THEN pc'[o] = "write" /\ told'[o] = "running"
         ELSE pc'[o] = "done" /\ told'[o] = (IF answered THEN "done" ELSE "error")
  BY WriteLocals
<1>3. Local(o) /\ Written(o) = {} /\ Deletion(o) = {} /\ drop[o] = {}
  BY <1>1 DEF Inv, Local, Course, Once
<1>4. drop'[o] = {} /\ pc'[o] = "done" /\ told'[o] \in {"done", "error"}
  BY <1>2, <1>3
<1>5. /\ rev[o] \in 0..last /\ buf[o] \in SUBSET Marks /\ last \in Nat
  BY <1>3 DEF Local, Course, Inv, LocalTypes, Server, ServerTypes
<1>6. Grows(rev[o], buf[o], o) /\ ServerTypes'
  BY <1>1, <1>5, StoredGrows DEF Inv, Server
<1>7. Branches'
  BY <1>1, <1>5, <1>6, GrowsBranches DEF Inv
<1>8. /\ last' = last + 1 /\ deleted' = deleted /\ parent'[last + 1] = rev[o]
      /\ content'[last + 1] = buf[o] \cup {last + 1}
      /\ \A n \in 1..last : content'[n] = content[n]
  BY <1>6 DEF Grows
<1>9. Written(o)' = {last + 1} /\ Deletion(o)' = {}
  <2>1. \A n \in 1..last' : by'[n] = o <=> n = last + 1
    BY <1>3, <1>5, <1>6 DEF Grows, Written
  <2> QED
    BY <1>3, <1>5, <1>8, <2>1 DEF Written, Deletion
<1>10. Local(o)'
  <2>1. Course(o)'
    BY <1>1, <1>2, <1>3, <1>4, <1>5, <1>8 DEF Local, Course, Inv, LocalTypes
  <2>2. Once(o)'
    BY <1>4, <1>9 DEF Once
  <2>3. AsAsked(o)'
    BY <1>1, <1>2, <1>3, <1>4, <1>8, <1>9 DEF Local, AsAsked, Asks
  <2>4. Carries(o)'
    <3>1. ASSUME rev[o] # 0, cmd[o] \notin {"cp", "putrev"}, ~agreed[o]
          PROVE  content'[rev[o]] \subseteq content'[last + 1]
      <4>1. cmd[o] \in {"attach", "edit"}
        BY <1>1, <1>3, <3>1 DEF Local, AsAsked, Asks
      <4>2. rev[o] \in 1..last /\ buf[o] = content[rev[o]]
        BY <1>1, <1>3, <3>1, <4>1 DEF Local, Carries
      <4> QED
        BY <1>8, <4>2
    <3> QED
      BY <1>2, <1>4, <1>8, <1>9, <3>1 DEF Carries
  <2>5. Keeps(o)' /\ Entries(o)'
    BY <1>1, <1>2 DEF Keeps, Entries
  <2> QED
    BY <2>1, <2>2, <2>3, <2>4, <2>5 DEF Local
<1>11. ASSUME NEW p \in Operators \ {o} PROVE Local(p)'
  BY <1>1, <1>2, <1>5, <1>6, StoredOther DEF Inv
<1>12. \A p \in Operators : Stands(p)'
  BY <1>1, <1>2, StandsKept
<1> QED
  BY <1>2, <1>6, <1>7, <1>10, <1>11, <1>12 DEF Inv, Server

(* A leaf is deleted. *)
LEMMA DeleteKeeps ==
  ASSUME Inv, NEW o \in Operators, NEW answered \in BOOLEAN, Write(o, answered), Deletes(o)
  PROVE  Inv'
<1> DEFINE r == Target(o)
<1>1. /\ pc[o] = "write" /\ cmd[o] # "security" /\ Accepts(r) /\ Removed(r, o)
      /\ cmd[o] \in {"rm", "rmrev", "cancel", "resolve"}
  BY DEF Write, Deletes
<1>2. /\ UNCHANGED <<sec, cmd, rev, buf, keep, asked, agreed>>
      /\ LocalTypes' /\ told[o] = "running" /\ drop'[o] = drop[o] \ {r}
      /\ \A p \in Operators \ {o} : UNCHANGED Mine(p)
      /\ IF answered /\ drop'[o] # {} THEN pc'[o] = "write" /\ told'[o] = "running"
         ELSE pc'[o] = "done" /\ told'[o] = (IF answered THEN "done" ELSE "error")
  BY WriteLocals
<1>3. Local(o) /\ last \in Nat
  BY DEF Inv, Server, ServerTypes
<1>4. cmd[o] = "resolve" => r \in drop[o] /\ drop[o] # {}
  <2>1. cmd[o] = "resolve" => drop[o] # {} /\ drop[o] \subseteq 1..last
    BY <1>1, <1>3 DEF Local, Course
  <2> QED
    BY <1>3, <2>1, Greatest DEF Target
<1>5. cmd[o] # "resolve" => r = rev[o] /\ drop[o] = {} /\ Written(o) = {} /\ Deletion(o) = {}
  BY <1>1, <1>3 DEF Target, Local, Course, Once
<1>6. r \in leaves /\ r \in 1..last
  <2>1. r # 0
    BY <1>1, <1>3, <1>4, <1>5 DEF Local, Course
  <2> QED
    BY <1>1, <2>1 DEF Accepts, Inv, Server, ServerTypes
<1> HIDE DEF r
<1>7. Server'
  BY <1>1, <1>6, RemovedServer DEF Inv
<1>8. /\ leaves' = leaves \ {r} /\ deleted' = deleted \cup {[by |-> o, rev |-> r]}
      /\ UNCHANGED <<last, parent, branch, content, by>>
  BY <1>1 DEF Removed
<1>9. /\ Written(o)' = Written(o)
      /\ Deletion(o)' = Deletion(o) \cup {[by |-> o, rev |-> r]}
  BY <1>8 DEF Written, Deletion
<1>10. Local(o)'
  <2>1. Course(o)'
    BY <1>1, <1>2, <1>3, <1>5, <1>8 DEF Local, Course, Inv, LocalTypes
  <2>2. Once(o)'
    <3>1. cmd[o] = "resolve" => pc'[o] \in {"write", "done"}
      BY <1>2
    <3>2. cmd[o] # "resolve" =>
            /\ pc'[o] = "done" /\ Written(o)' = {}
            /\ Deletion(o)' = {[by |-> o, rev |-> r]}
      BY <1>2, <1>5, <1>9
    <3> QED
      BY <1>2, <3>1, <3>2 DEF Once
  <2>3. AsAsked(o)'
    <3>1. cmd[o] \in Asks => agreed[o] /\ r \in asked[o]
      BY <1>1, <1>3, <1>4, <1>5 DEF Local, AsAsked, Asks
    <3>2. cmd[o] \in Asks => \A d \in Deletion(o)' : agreed[o] /\ d.rev \in asked[o]
      BY <1>3, <1>9, <3>1 DEF Local, AsAsked
    <3> QED
      BY <1>1, <1>2, <1>3, <1>8, <1>9, <3>2 DEF Local, AsAsked
  <2>4. Carries(o)' /\ Entries(o)'
    BY <1>1, <1>2, <1>3, <1>8, <1>9 DEF Local, Carries, Entries
  <2>5. Keeps(o)'
    <3>1. ASSUME cmd[o] = "resolve", keep[o] # 0 PROVE IsThere(o)'
      <4>1. IsThere(o) /\ branch[r] # branch[keep[o]]
        BY <1>3, <1>4, <3>1 DEF Local, Keeps
      <4>2. \A n \in leaves : branch[n] = branch[keep[o]] => n \in leaves'
        BY <1>8, <4>1
      <4> QED
        BY <1>2, <1>8, <4>1, <4>2 DEF IsThere
    <3>2. cmd[o] = "resolve" => (pc[o] \in {"ask", "write"} => keep[o] # 0)
      BY <1>3 DEF Local, Keeps
    <3> QED
      BY <1>1, <1>2, <1>3, <1>8, <3>1, <3>2 DEF Local, Keeps
  <2> QED
    BY <2>1, <2>2, <2>3, <2>4, <2>5 DEF Local
<1>11. ASSUME NEW p \in Operators \ {o} PROVE Local(p)'
  BY <1>1, <1>2, <1>6, RemovedOther DEF Inv
<1>12. \A p \in Operators : Stands(p)'
  BY <1>1, <1>2, StandsKept
<1> QED
  BY <1>2, <1>7, <1>10, <1>11, <1>12 DEF Inv

(* security writes what it read with its own change: an entry it has not changed
   is as it read it, whoever read it too. *)
LEMMA WriteSecurityKeeps ==
  ASSUME Inv, NEW o \in Operators, NEW answered \in BOOLEAN, WriteSecurity(o, answered)
  PROVE  Inv'
<1>1. /\ pc[o] = "write" /\ cmd[o] = "security" /\ sec' = buf[o]
      /\ pc' = [pc EXCEPT ![o] = "done"]
      /\ told' = [told EXCEPT ![o] = IF answered THEN "done" ELSE "error"]
      /\ UNCHANGED <<doc, cmd, rev, buf, keep, drop, tries, asked, agreed>>
  BY DEF WriteSecurity, End, Goto, local
<1>2. pc'[o] = "done" /\ told'[o] \in {"done", "error"}
  BY <1>1 DEF Inv, LocalTypes
<1>3. LocalTypes'
  BY <1>1 DEF Inv, LocalTypes, Places, Words
<1>4. \A p \in Operators \ {o} : UNCHANGED Mine(p)
  BY <1>1 DEF Mine, Inv, LocalTypes
<1>5. Server'
  BY <1>1 DEF Inv, doc, Server, ServerTypes, Branches
<1>6. Local(o) /\ Written(o)' = Written(o) /\ Deletion(o)' = Deletion(o) /\ UNCHANGED last
  BY <1>1, SameWrites DEF Inv, doc
<1>7. Local(o)'
  <2>1. Course(o)'
    BY <1>1, <1>2, <1>6 DEF Local, Course
  <2>2. Once(o)' /\ AsAsked(o)' /\ Carries(o)' /\ Keeps(o)'
    <3>1. Written(o)' = {}
      BY <1>1, <1>6 DEF Local, Course
    <3> QED
      BY <1>1, <1>2, <3>1 DEF Once, AsAsked, Asks, Carries, Keeps
  <2>3. Entries(o)'
    BY <1>1, <1>6 DEF Local, Entries
  <2> QED
    BY <2>1, <2>2, <2>3 DEF Local
<1>8. \A p \in Operators : Local(p)'
  BY <1>1, <1>4, <1>7, SameLocal DEF Inv
<1>9. ASSUME NEW p \in Operators PROVE Stands(p)'
  <2>1. CASE p = o
    BY <1>1, <2>1 DEF Stands
  <2>2. CASE p # o
    <3>1. UNCHANGED <<cmd[p], told[p], asked[p], buf[p]>> /\ Stands(p) /\ Local(p)
      BY <1>4, <2>2 DEF Mine, Inv
    <3>2. SUFFICES ASSUME cmd[p] = "security", told[p] = "done", NEW e \in {p, Nobody},
                          (e \in asked[p]) # (e \in buf[p]), (e \in buf[o]) # (e \in buf[p])
                   PROVE  (e \in asked[o]) = (e \in asked[p])
      <4>1. /\ cmd'[o] = "security" /\ agreed'[o] /\ pc'[o] = "done" /\ sec' = buf'[o]
            /\ asked'[o] = asked[o] /\ buf'[o] = buf[o]
        BY <1>1, <1>2, <1>6 DEF Local, Entries
      <4> QED
        BY <1>1, <2>2, <3>1, <3>2, <4>1 DEF Stands
    <3>3. buf[p] \in {asked[p] \cup {p}, asked[p] \ {Nobody}}
      BY <3>1, <3>2 DEF Local, Entries
    <3>4. buf[o] \in {asked[o] \cup {o}, asked[o] \ {Nobody}}
      BY <1>1, <1>6 DEF Local, Entries
    <3>5. p # Nobody /\ o # Nobody
      BY WritesAssumption
    <3> QED
      BY <2>2, <3>2, <3>3, <3>4, <3>5
  <2> QED
    BY <2>1, <2>2
<1> QED
  BY <1>3, <1>5, <1>8, <1>9 DEF Inv

-----------------------------------------------------------------------------

LEMMA StepKeeps == ASSUME Inv, NEW o \in Operators, Step(o) PROVE Inv'
<1>1. CASE Start(o) \/ Read(o) \/ ReadConflicts(o) \/ ReadSecurity(o) \/ Yes(o)
           \/ Conflict(o)
  BY <1>1, StartKeeps, ReadKeeps, ReadConflictsKeeps, ReadSecurityKeeps, YesKeeps,
     ConflictKeeps
<1>2. CASE \E answered \in BOOLEAN : Write(o, answered) \/ WriteSecurity(o, answered)
  BY <1>2, StoreKeeps, DeleteKeeps, WriteSecurityKeeps
<1>3. CASE NotFound(o) \/ Unchanged(o) \/ No(o) \/ Fail(o)
  <2>1. Ends(o)
    BY <1>3 DEF NotFound, Unchanged, No, Fail, Ends, local
  <2> QED
    BY <2>1, EndsKeeps
<1> QED
  BY <1>1, <1>2, <1>3 DEF Step

LEMMA NextKeeps == Inv /\ [Next]_vars => Inv'
<1> SUFFICES ASSUME Inv, [Next]_vars PROVE Inv'
  OBVIOUS
<1>1. CASE OtherWrites
  BY <1>1, OtherWritesKeeps
<1>2. CASE \E o \in Operators : Step(o)
  BY <1>2, StepKeeps
<1>3. CASE UNCHANGED vars
  <2>1. UNCHANGED <<doc, sec, told>> /\ \A p \in Operators : UNCHANGED Mine(p)
    BY <1>3 DEF vars, doc, Mine
  <2>2. \A p \in Operators : Local(p)'
    BY <2>1, SameLocal DEF Inv
  <2>3. \A p \in Operators : Stands(p)'
    BY <1>3 DEF vars, Inv, Stands
  <2>4. Server' /\ LocalTypes'
    BY <1>3 DEF vars, Inv, Server, ServerTypes, Branches, LocalTypes
  <2> QED
    BY <2>2, <2>3, <2>4 DEF Inv
<1> QED
  BY <1>1, <1>2, <1>3 DEF Next

LEMMA Invariance == Spec => []Inv
BY Initially, NextKeeps, PTL DEF Spec

-----------------------------------------------------------------------------

(* What put, rm and resolve replace or delete is a revision their question named,
   and the answer was yes, whoever writes while the question stands (Confirm,
   before the write that names the revision read). *)
THEOREM OnlyTheAskedIsReplaced == Spec => []OnlyWhatWasAsked
<1>1. Inv => OnlyWhatWasAsked
  BY DEF Inv, Local, AsAsked, Asks, OnlyWhatWasAsked
<1> QED
  BY <1>1, Invariance, PTL

(* A command takes nobody's write away unless its operator agreed to that, and a
   change security made to an entry stands, unless the object is as another
   security wrote it that had read it before: the object has no revision to tell,
   and that command need not have heard that its write was done (SetSecurity). *)
THEOREM NothingIsLostUnasked == Spec => []NothingLostUnasked
<1>1. Inv => NothingLostUnasked
  BY DEF Inv, Local, Carries, Stands, NothingLostUnasked
<1> QED
  BY <1>1, Invariance, PTL

LEMMA Counted ==
  ASSUME NEW A, NEW B, A = {}, \E x \in B : B = {x}
  PROVE  /\ Cardinality(A) + Cardinality(B) = 1 /\ Cardinality(B) + Cardinality(A) = 1
<1>1. Cardinality(A) = 0 /\ Cardinality(B) = 1
  BY FS_EmptySet, FS_Singleton
<1> QED
  BY <1>1

(* A command that is not resolve writes or deletes one revision at most, however
   often it tries and whatever becomes of the answers, and one that reports
   success has (the retries of edit and cancel, on 409 only). *)
THEOREM DocumentChangedOnce == Spec => []ChangedOnce
<1>1. Inv => ChangedOnce
  <2>1. SUFFICES ASSUME Inv, NEW o \in Operators, cmd[o] \notin {"resolve", "security"}
                 PROVE  /\ Cardinality(Written(o)) + Cardinality(Deletion(o)) =< 1
                        /\ told[o] = "done" =>
                             Cardinality(Written(o)) + Cardinality(Deletion(o)) = 1
    BY DEF ChangedOnce
  <2> DEFINE none == Written(o) = {} /\ Deletion(o) = {}
             one  == \/ Deletion(o) = {} /\ \E n \in Written(o) : Written(o) = {n}
                     \/ Written(o) = {} /\ \E d \in Deletion(o) : Deletion(o) = {d}
  <2>2. IF told[o] = "done" THEN one ELSE none \/ one
    BY <2>1 DEF Inv, Local, Once
  <2>3. none => Cardinality(Written(o)) + Cardinality(Deletion(o)) = 0
    BY FS_EmptySet
  <2>4. one => Cardinality(Written(o)) + Cardinality(Deletion(o)) = 1
    BY Counted
  <2> QED
    BY <2>2, <2>3, <2>4
<1> QED
  BY <1>1, Invariance, PTL

(* A document resolve says it kept is there, in the revision kept or one written
   over it, unless another command deleted that: resolve deletes the leaves of
   the other lines, whatever was written while it did. *)
THEOREM KeptIsKept == Spec => []KeptIsThere
<1>1. Inv => KeptIsThere
  BY DEF Inv, Local, Keeps, IsThere, KeptIsThere
<1> QED
  BY <1>1, Invariance, PTL

-----------------------------------------------------------------------------
(* `cdb restore`.                                                          *)

PendingDoc ==
  [at : Nat, inline : Seq(Nat), large : Seq(Nat), inlineBytes : Nat, bytes : Nat,
   rev : Seq(Nat)]

RestoreTypes ==
  /\ dump \in Dumps /\ phase \in {"idle", "read", "bulk", "upload"}
  /\ flags \in [create : BOOLEAN, merge : BOOLEAN, partial : BOOLEAN, batch : Nat]
  /\ pos \in Nat /\ current \in Nat /\ inlineBytes \in Nat /\ edits \in Nat
  /\ pending \in Seq(PendingDoc) /\ writing \in Seq(PendingDoc)
  /\ \A x \in revs : x = <<x[1], x[2]>> /\ x[2] \in Seq(Nat)

(* Where the command stands. *)
Stage ==
  /\ phase = "idle" => pos = 0 /\ pending = <<>> /\ writing = <<>>
  /\ phase # "idle" => /\ pos \in 1..(Len(Recs) + 1) /\ outcome = "running"
                       /\ dump.complete \/ flags.partial
  /\ phase = "read" => writing = <<>>
  /\ pending = <<>> => current = 0
  /\ pending # <<>> => current = pending[Len(pending)].at

(* What has been counted is what has been read. *)
DocsRead == {i \in DocsIn(Recs) : i < pos}
AttsRead == {i \in AttsIn(Recs) : i < pos}

Tally ==
  /\ docs = Cardinality(DocsRead) /\ atts = Cardinality(AttsRead)
  /\ tombs = Cardinality({i \in DocsRead : Recs[i].dead})

(* K are those of the next n - 1 records that travel inside the document at i:
   whatever else is in the batch, an attachment is inlined that fits beside those
   inlined before it. *)
Cut(recs, i, n, K) ==
  /\ K \subseteq AttsAfter(recs, i) /\ \A k \in K : k < n
  /\ \A k \in AttsAfter(recs, i) : k < n =>
       (k \in K <=> /\ recs[i + k].len =< InlineLimit
                    /\ Weight(recs, i, {m \in K : m < k}) + Encoded(recs[i + k].len)
                         =< BatchBytes)

Divides(recs, to, p, K) ==
  /\ Cut(recs, p.at, to - p.at, K)
  /\ p.inlineBytes = Weight(recs, p.at, K)
  /\ \A j : j \in ToSet(p.inline) <=> \E k \in K : j = p.at + k
  /\ \A j : j \in ToSet(p.large) <=>
              \E k \in AttsAfter(recs, p.at) : j = p.at + k /\ j < to /\ k \notin K

(* A document in a batch, with its attachments up to record `to`. *)
Gathered(recs, to, p) ==
  /\ p.at \in DocsIn(recs) /\ p.at < to /\ p.rev = recs[p.at].rev
  /\ \A j \in ToSet(p.inline) \cup ToSet(p.large) : SameRevision(recs[p.at], recs[j])
  /\ \E K \in SUBSET AttsAfter(recs, p.at) : Divides(recs, to, p, K)

(* None of its attachments is still to be read. *)
Closed(recs, to, p) == \A k \in AttsAfter(recs, p.at) : p.at + k < to

Gathering ==
  /\ \A n \in 1..Len(pending) :
       /\ Gathered(Recs, pos, pending[n])
       /\ n < Len(pending) => Closed(Recs, pos, pending[n]) /\ pending[n].at < current
  /\ pending # <<>> => \A i \in (current + 1)..(pos - 1) : Recs[i].kind = "att"

(* A document that the server has, and whose large attachments it is given. *)
Uploads(recs, p) ==
  /\ p.at \in DocsIn(recs) /\ IsPrefix(recs[p.at].rev, p.rev)
  /\ \A j \in ToSet(p.large) : j \in AttsIn(recs) /\ SameRevision(recs[p.at], recs[j])
  /\ p.large # <<>> => Overweight(recs, p.at)

Sending ==
  \A n \in 1..Len(writing) :
    /\ phase = "bulk" => Gathered(Recs, pos, writing[n]) /\ Closed(Recs, pos, writing[n])
    /\ phase = "upload" => Uploads(Recs, writing[n])

(* A document of the dump is not at the server without what it carried. *)
Whole(recs, has, with) ==
  \A i \in DocsIn(recs) : <<recs[i].id, recs[i].rev>> \in has =>
    \A K \in SUBSET AttsAfter(recs, i) : Cut(recs, i, Len(recs) + 1, K) =>
      \A k \in K : <<recs[i].id, recs[i].rev, recs[i + k].name>> \in with

(* What was read is at the server or still under way. *)
Attached(with, r) ==
  \E x \in with : x[1] = r.id /\ x[3] = r.name /\ IsPrefix(r.rev, x[2])
Holds(ps, i) == \E n \in 1..Len(ps) : ps[n].at = i
Carried(ps, j) == \E n \in 1..Len(ps) : j \in ToSet(ps[n].inline) \cup ToSet(ps[n].large)
Spilled(ps, j) == \E n \in 1..Len(ps) : j \in ToSet(ps[n].large)

UnderWay ==
  /\ \A i \in DocsRead :
       \/ <<Recs[i].id, Recs[i].rev>> \in held
       \/ Holds(pending, i)
       \/ phase = "bulk" /\ Holds(writing, i)
  /\ \A j \in AttsRead :
       \/ Attached(stored, Recs[j])
       \/ Carried(pending, j)
       \/ phase = "bulk" /\ Carried(writing, j)
       \/ phase = "upload" /\ Spilled(writing, j)

(* The revisions of the documents of the dump come from it, or stand on it. *)
From(recs, x) ==
  \E i \in DocsIn(recs) :
    /\ recs[i].id = x[1]
    /\ \/ IsPrefix(x[2], recs[i].rev)
       \/ IsPrefix(recs[i].rev, x[2]) /\ Overweight(recs, i)
Grown == edits = 0 => \A x \in revs : x[1] \in Ids => From(Recs, x)

Bounded ==
  /\ RequestBounded
  /\ Len(pending) =< flags.batch /\ inlineBytes =< BatchBytes

RestoreInv ==
  /\ RestoreTypes /\ Stage /\ Tally /\ Gathering /\ Sending
  /\ Whole(Recs, held, stored) /\ UnderWay /\ Grown /\ Bounded /\ AllRestored

-----------------------------------------------------------------------------
(* Sums.                                                                   *)

Units(f, S) == UNION {{k} \X (1..f[k]) : k \in S}

LEMMA UnitsAre ==
  ASSUME NEW f, NEW S
  PROVE  \A u : u \in Units(f, S) <=> \E k \in S : \E m \in 1..f[k] : u = <<k, m>>
BY DEF Units

LEMMA TotalIs == ASSUME NEW f, NEW S PROVE Total(f, S) = Cardinality(Units(f, S))
BY DEF Total, Units

LEMMA UpTo == ASSUME NEW n \in Nat PROVE IsFiniteSet(1..n) /\ Cardinality(1..n) = n
<1>1. 1 \in Int /\ n \in Int /\ (1 > n => n = 0) /\ n - 1 + 1 = n
  OBVIOUS
<1> QED BY <1>1, FS_Interval

LEMMA UnitsFinite ==
  ASSUME NEW S, IsFiniteSet(S), NEW f, \A k \in S : f[k] \in Nat
  PROVE  IsFiniteSet(Units(f, S))
<1> DEFINE T == {{k} \X (1..f[k]) : k \in S}
           h == [k \in S |-> {k} \X (1..f[k])]
<1>1. h \in Surjection(S, T)
  BY DEF Surjection
<1>2. IsFiniteSet(T)
  <2> HIDE DEF h, T
  <2> QED BY <1>1, FS_Surjection
<1>3. ASSUME NEW t \in T PROVE IsFiniteSet(t)
  <2>1. PICK k \in S : t = {k} \X (1..f[k])
    OBVIOUS
  <2>2. PICK n \in Nat : n = f[k]
    OBVIOUS
  <2>3. IsFiniteSet({k}) /\ IsFiniteSet(1..n)
    BY FS_Singleton, UpTo
  <2> QED BY <2>1, <2>2, <2>3, FS_Product
<1>4. IsFiniteSet(UNION T)
  <2> HIDE DEF T
  <2> QED BY <1>2, <1>3, FS_UNION
<1> QED BY <1>4 DEF Units

LEMMA TotalSame ==
  ASSUME NEW S, NEW f, NEW g, \A k \in S : f[k] = g[k]
  PROVE  Total(f, S) = Total(g, S)
<1>1. \A u : u \in Units(f, S) <=> u \in Units(g, S)
  BY UnitsAre
<1>2. Units(f, S) = Units(g, S)
  BY <1>1
<1> QED BY <1>2, TotalIs

LEMMA TotalNone == ASSUME NEW f PROVE Total(f, {}) = 0
<1>1. Units(f, {}) = {}
  BY UnitsAre
<1> QED BY <1>1, TotalIs, FS_EmptySet

LEMMA TotalAdds ==
  ASSUME NEW S, IsFiniteSet(S), NEW f, \A k \in S : f[k] \in Nat,
         NEW x, x \notin S, f[x] \in Nat
  PROVE  /\ Total(f, S) \in Nat
         /\ Total(f, S \cup {x}) = Total(f, S) + f[x]
<1> DEFINE U == Units(f, S)  V == {x} \X (1..f[x])
<1>1. Units(f, S \cup {x}) = U \cup V
  <2>1. \A u : u \in V <=> \E m \in 1..f[x] : u = <<x, m>>
    OBVIOUS
  <2> HIDE DEF V
  <2> QED BY <2>1, UnitsAre
<1>2. U \cap V = {}
  BY UnitsAre
<1>3. IsFiniteSet(U) /\ IsFiniteSet(V) /\ Cardinality(V) = f[x]
  <2>1. PICK n \in Nat : n = f[x]
    OBVIOUS
  <2>2. IsFiniteSet({x}) /\ Cardinality({x}) = 1
    BY FS_Singleton
  <2>3. IsFiniteSet(1..n) /\ Cardinality(1..n) = n
    BY UpTo
  <2>4. /\ IsFiniteSet({x} \X (1..n))
        /\ Cardinality({x} \X (1..n)) = Cardinality({x}) * Cardinality(1..n)
    BY <2>2, <2>3, FS_Product
  <2>5. Cardinality({x} \X (1..n)) = n
    BY <2>2, <2>3, <2>4
  <2> QED BY <2>1, <2>4, <2>5, UnitsFinite
<1> HIDE DEF U, V
<1>4. Cardinality(U \cup V) = Cardinality(U) + f[x] - 0
  BY <1>2, <1>3, FS_Union, FS_EmptySet
<1>5. Cardinality(U) \in Nat
  BY <1>3, FS_CardinalityType
<1>6. Total(f, S) = Cardinality(U) /\ Total(f, S \cup {x}) = Cardinality(U \cup V)
  BY <1>1, TotalIs DEF U
<1>7. Cardinality(U) + f[x] - 0 = Cardinality(U) + f[x]
  BY <1>5
<1> QED BY <1>4, <1>5, <1>6, <1>7

LEMMA TotalGrows ==
  ASSUME NEW S, IsFiniteSet(S), NEW f, \A k \in S : f[k] \in Nat, NEW R \in SUBSET S
  PROVE  Total(f, R) \in Nat /\ Total(f, S) \in Nat /\ Total(f, R) =< Total(f, S)
<1>1. Units(f, R) \subseteq Units(f, S)
  BY UnitsAre
<1>2. IsFiniteSet(Units(f, S))
  BY UnitsFinite
<1>3. /\ IsFiniteSet(Units(f, R))
      /\ Cardinality(Units(f, R)) =< Cardinality(Units(f, S))
  BY <1>1, <1>2, FS_Subset
<1>4. Cardinality(Units(f, R)) \in Nat /\ Cardinality(Units(f, S)) \in Nat
  BY <1>2, <1>3, FS_CardinalityType
<1> QED BY <1>3, <1>4, TotalIs

-----------------------------------------------------------------------------
(* The records of a dump.                                                  *)

Alike(recs, i, j) ==
  /\ AttsAfter(recs, i) = AttsAfter(recs, j)
  /\ \A k \in AttsAfter(recs, i) : /\ recs[i + k].name = recs[j + k].name
                                   /\ recs[i + k].len = recs[j + k].len

Dumped(recs) ==
  /\ Len(recs) \in Nat
  /\ \A i \in 1..Len(recs) :
       recs[i].len \in Nat /\ (recs[i].kind = "doc" \/ recs[i].kind = "att")
  /\ \A i \in DocsIn(recs) :
       recs[i].rev \in Seq(Nat \ {0}) /\ recs[i].rev # <<>> /\ recs[i].dead \in BOOLEAN
  /\ \A j \in AttsIn(recs) : recs[j].name \in Nat
  /\ \A i \in DocsIn(recs), j \in AttsIn(recs) : recs[j].name \notin ToSet(recs[i].rev)
  /\ \A i, j \in DocsIn(recs) : SameRevision(recs[i], recs[j]) => Alike(recs, i, j)

LEMMA DumpsAreDumped == \A d \in Dumps : Dumped(d.recs)
<1> SUFFICES ASSUME NEW d \in Dumps PROVE Dumped(d.recs)
  OBVIOUS
<1>1. PICK recs : recs = d.recs
  OBVIOUS
<1>2. recs \in Seq(ToSet(recs))
  BY <1>1, DumpAssumption
<1>3. /\ Len(recs) \in Nat
      /\ \A i \in 1..Len(recs) : recs[i] \in ToSet(recs)
  BY <1>2
<1>4. \A r \in ToSet(recs) :
        /\ r.len \in Nat /\ r.kind \in {"doc", "att"}
        /\ r.kind = "doc" => r.rev \in Seq(Nat \ {0}) \ {<<>>} /\ r.dead \in BOOLEAN
        /\ r.kind = "att" => r.name \in Nat
  BY <1>1, DumpAssumption
<1>5. \A r, a \in ToSet(recs) :
        r.kind = "doc" /\ a.kind = "att" => a.name \notin ToSet(r.rev)
  BY <1>1, DumpAssumption
<1>6. \A i, j \in DocsIn(recs) : SameRevision(recs[i], recs[j]) => Alike(recs, i, j)
  BY <1>1, DumpAssumption DEF Alike
<1>7. Dumped(recs)
  BY <1>3, <1>4, <1>5, <1>6 DEF Dumped, DocsIn, AttsIn
<1> QED BY <1>1, <1>7

(* What follows a document. *)
LEMMA Following ==
  ASSUME NEW recs, Dumped(recs), NEW i \in 1..Len(recs)
  PROVE  /\ AttsAfter(recs, i) \subseteq 1..(Len(recs) - i)
         /\ IsFiniteSet(AttsAfter(recs, i))
         /\ \A k \in AttsAfter(recs, i) : /\ i + k \in AttsIn(recs)
                                          /\ i + k \in 1..Len(recs)
                                          /\ k \in Nat \ {0}
                                          /\ recs[i + k].len \in Nat
                                          /\ Encoded(recs[i + k].len) \in Nat
<1>1. Len(recs) \in Nat /\ i \in Nat /\ i =< Len(recs)
  BY DEF Dumped
<1>2. AttsAfter(recs, i) \subseteq 1..(Len(recs) - i)
  BY DEF AttsAfter
<1>3. PICK n \in Nat : n = Len(recs) - i
  BY <1>1
<1>4. IsFiniteSet(AttsAfter(recs, i))
  BY <1>2, <1>3, UpTo, FS_Subset
<1>5. ASSUME NEW k \in AttsAfter(recs, i)
      PROVE  /\ i + k \in AttsIn(recs) /\ i + k \in 1..Len(recs) /\ k \in Nat \ {0}
             /\ recs[i + k].len \in Nat /\ Encoded(recs[i + k].len) \in Nat
  <2>1. k \in 1..(Len(recs) - i) /\ recs[i + k].kind = "att"
    BY <1>1 DEF AttsAfter
  <2>2. i + k \in 1..Len(recs) /\ k \in Nat \ {0}
    BY <1>1, <2>1
  <2>3. recs[i + k].len \in Nat
    BY <2>2 DEF Dumped
  <2>4. Encoded(recs[i + k].len) \in Nat
    BY <2>3 DEF Encoded
  <2> QED BY <2>1, <2>2, <2>3, <2>4 DEF AttsIn
<1> QED BY <1>2, <1>4, <1>5

Loads(recs, i) == [k \in AttsAfter(recs, i) |-> Encoded(recs[i + k].len)]

LEMMA WeightIs ==
  ASSUME NEW recs, NEW i, NEW K \in SUBSET AttsAfter(recs, i)
  PROVE  Weight(recs, i, K) = Total(Loads(recs, i), K)
<1> DEFINE f == [k \in K |-> Encoded(recs[i + k].len)]
<1>1. \A k \in K : f[k] = Loads(recs, i)[k]
  BY DEF Loads
<1>2. Total(f, K) = Total(Loads(recs, i), K)
  <2> HIDE DEF f
  <2> QED BY <1>1, TotalSame
<1> QED BY <1>2 DEF Weight

LEMMA Weights ==
  ASSUME NEW recs, Dumped(recs), NEW i \in 1..Len(recs),
         NEW K \in SUBSET AttsAfter(recs, i)
  PROVE  /\ Weight(recs, i, {}) = 0
         /\ Weight(recs, i, K) \in Nat
         /\ Weight(recs, i, AttsAfter(recs, i)) \in Nat
         /\ Weight(recs, i, K) =< Weight(recs, i, AttsAfter(recs, i))
         /\ \A k \in AttsAfter(recs, i) \ K :
              /\ K \cup {k} \in SUBSET AttsAfter(recs, i)
              /\ Weight(recs, i, K \cup {k}) = Weight(recs, i, K) + Encoded(recs[i + k].len)
<1> DEFINE A == AttsAfter(recs, i)
           f == Loads(recs, i)
<1>1. IsFiniteSet(A) /\ \A k \in A : f[k] \in Nat /\ f[k] = Encoded(recs[i + k].len)
  BY Following DEF Loads
<1>2. Total(f, {}) = 0
  BY TotalNone
<1>3. IsFiniteSet(K)
  BY <1>1, FS_Subset
<1>4. \A k \in A \ K : Total(f, K \cup {k}) = Total(f, K) + f[k]
  <2> SUFFICES ASSUME NEW k \in A \ K PROVE Total(f, K \cup {k}) = Total(f, K) + f[k]
    OBVIOUS
  <2>1. k \notin K /\ f[k] \in Nat /\ \A x \in K : f[x] \in Nat
    BY <1>1
  <2> HIDE DEF f, A
  <2> QED BY <1>3, <2>1, TotalAdds
<1>5. Total(f, K) \in Nat /\ Total(f, A) \in Nat /\ Total(f, K) =< Total(f, A)
  <2>1. K \in SUBSET A
    OBVIOUS
  <2> HIDE DEF f, A
  <2> QED BY <1>1, <2>1, TotalGrows
<1>6. /\ Weight(recs, i, {}) = Total(f, {}) /\ Weight(recs, i, K) = Total(f, K)
      /\ Weight(recs, i, A) = Total(f, A)
      /\ \A k \in A \ K : /\ K \cup {k} \in SUBSET A
                          /\ Weight(recs, i, K \cup {k}) = Total(f, K \cup {k})
  <2>1. {} \in SUBSET A /\ K \in SUBSET A /\ A \in SUBSET A /\ \A k \in A \ K : K \cup {k} \in SUBSET A
    OBVIOUS
  <2> QED BY <2>1, WeightIs
<1> HIDE DEF f
<1> QED BY <1>1, <1>2, <1>4, <1>5, <1>6

(* Two cuts of one revision are the same, wherever in the dump it stands. *)
LEMMA CutsAgree ==
  ASSUME NEW recs, Dumped(recs), NEW i \in DocsIn(recs), NEW j \in DocsIn(recs),
         SameRevision(recs[i], recs[j]), NEW m, NEW n, NEW K, NEW L,
         Cut(recs, i, m, K), Cut(recs, j, n, L),
         \A k \in AttsAfter(recs, i) : k < m /\ k < n
  PROVE  K = L
<1>1. Alike(recs, i, j) /\ i \in 1..Len(recs) /\ j \in 1..Len(recs)
  BY DEF Dumped, DocsIn
<1>2. PICK A : A = AttsAfter(recs, i) /\ A = AttsAfter(recs, j)
  BY <1>1 DEF Alike
<1>3. A \subseteq Nat /\ K \subseteq A /\ L \subseteq A
  BY <1>1, <1>2, Following DEF Cut
<1>4. SUFFICES ASSUME {k \in A : ~(k \in K <=> k \in L)} # {} PROVE FALSE
  BY <1>3
<1>5. PICK k \in A : /\ ~(k \in K <=> k \in L)
                     /\ \A x \in A : ~(x \in K <=> x \in L) => k =< x
  <2> DEFINE D == {x \in A : ~(x \in K <=> x \in L)}
  <2>1. D \subseteq Nat /\ D # {}
    BY <1>3, <1>4
  <2>2. PICK x \in D : \A y \in D : x =< y
    <3> HIDE DEF D
    <3> QED BY <2>1, Least
  <2> QED BY <2>2
<1>6. {x \in K : x < k} = {x \in L : x < k}
  <2>1. \A x \in A : x < k => (x \in K <=> x \in L)
    BY <1>3, <1>5
  <2> QED BY <1>3, <2>1
<1>7. PICK B : B = {x \in K : x < k} /\ B = {x \in L : x < k}
  BY <1>6
<1>8. Weight(recs, i, B) = Weight(recs, j, B)
  <2>1. \A x \in A : Encoded(recs[i + x].len) = Encoded(recs[j + x].len)
    BY <1>1, <1>2 DEF Alike
  <2>2. B \subseteq A
    BY <1>3, <1>7
  <2>3. \A x \in B : Loads(recs, i)[x] = Loads(recs, j)[x]
    BY <1>2, <2>1, <2>2 DEF Loads
  <2>4. Total(Loads(recs, i), B) = Total(Loads(recs, j), B)
    BY <2>3, TotalSame
  <2> QED BY <1>2, <2>2, <2>4, WeightIs
<1>9. recs[i + k].len = recs[j + k].len /\ k < m /\ k < n
  BY <1>1, <1>2 DEF Alike
<1>10. k \in K <=> /\ recs[i + k].len =< InlineLimit
                   /\ Weight(recs, i, B) + Encoded(recs[i + k].len) =< BatchBytes
  BY <1>2, <1>7, <1>9 DEF Cut
<1>11. k \in L <=> /\ recs[j + k].len =< InlineLimit
                   /\ Weight(recs, j, B) + Encoded(recs[j + k].len) =< BatchBytes
  BY <1>2, <1>7, <1>9 DEF Cut
<1> QED BY <1>5, <1>8, <1>9, <1>10, <1>11

(* An attachment left out of a cut is one too many. *)
LEMMA LeftOut ==
  ASSUME NEW recs, Dumped(recs), NEW i \in DocsIn(recs), NEW n, NEW K,
         Cut(recs, i, n, K), NEW k \in AttsAfter(recs, i), k < n, k \notin K
  PROVE  Overweight(recs, i)
<1>1. i \in 1..Len(recs)
  BY DEF DocsIn
<1>2. CASE ~(recs[i + k].len =< InlineLimit)
  <2>1. recs[i + k].len > InlineLimit
    BY <1>1, <1>2, Following, RestoreAssumption
  <2> QED BY <2>1 DEF Overweight
<1>3. CASE recs[i + k].len =< InlineLimit
  <2>1. PICK B \in SUBSET AttsAfter(recs, i) : B = {m \in K : m < k}
    BY DEF Cut
  <2>2. ~(Weight(recs, i, B) + Encoded(recs[i + k].len) =< BatchBytes)
    BY <1>3, <2>1 DEF Cut
  <2>3. k \in Nat /\ k \in AttsAfter(recs, i) \ B /\ Encoded(recs[i + k].len) \in Nat
    BY <1>1, <2>1, Following
  <2>4. /\ B \cup {k} \in SUBSET AttsAfter(recs, i)
        /\ Weight(recs, i, B) \in Nat
        /\ Weight(recs, i, B \cup {k}) = Weight(recs, i, B) + Encoded(recs[i + k].len)
    <3>1. /\ Weight(recs, i, B) \in Nat
          /\ \A x \in AttsAfter(recs, i) \ B :
               /\ B \cup {x} \in SUBSET AttsAfter(recs, i)
               /\ Weight(recs, i, B \cup {x}) = Weight(recs, i, B) + Encoded(recs[i + x].len)
      BY <1>1, Weights
    <3> QED BY <2>3, <3>1
  <2>5. PICK C \in SUBSET AttsAfter(recs, i) : C = B \cup {k}
    BY <2>4
  <2>6. /\ Weight(recs, i, C) \in Nat /\ Weight(recs, i, AttsAfter(recs, i)) \in Nat
        /\ Weight(recs, i, C) =< Weight(recs, i, AttsAfter(recs, i))
    BY <1>1, <2>5, Weights
  <2>7. Weight(recs, i, AttsAfter(recs, i)) > BatchBytes
    BY <2>2, <2>3, <2>4, <2>5, <2>6, RestoreAssumption
  <2> QED BY <2>7 DEF Overweight
<1> QED BY <1>2, <1>3

-----------------------------------------------------------------------------
(* The steps that end the command, or only begin it.                       *)

LEMMA RecsAreDumped == ASSUME RestoreTypes PROVE Dumped(Recs)
BY DumpsAreDumped DEF RestoreTypes, Recs

LEMMA ServerStays ==
  ASSUME RestoreInv, UNCHANGED <<target, dump, edits>>
  PROVE  /\ Whole(Recs, held, stored)' /\ Grown' /\ Recs' = Recs
         /\ \A x \in revs' : x = <<x[1], x[2]>> /\ x[2] \in Seq(Nat)
<1>1. /\ held' = held /\ stored' = stored /\ revs' = revs /\ edits' = edits
      /\ Recs' = Recs /\ Ids' = Ids
  BY DEF target, Recs, Ids
<1> QED BY <1>1 DEF RestoreInv, RestoreTypes, Grown

(* Before anything has been read, or after the end. *)
Resting ==
  /\ (phase = "idle" /\ pos = 0) \/ (phase = "read" /\ pos = 1)
  /\ pending = <<>> /\ writing = <<>> /\ current = 0 /\ inlineBytes = 0
  /\ docs = 0 /\ tombs = 0 /\ atts = 0 /\ flags.batch \in Nat
  /\ phase = "read" => outcome = "running" /\ (dump.complete \/ flags.partial)
  /\ Dumped(Recs)

LEMMA AtRest == Resting => Stage /\ Tally /\ Gathering /\ Sending /\ UnderWay /\ Bounded
<1> SUFFICES ASSUME Resting
             PROVE  Stage /\ Tally /\ Gathering /\ Sending /\ UnderWay /\ Bounded
  OBVIOUS
<1> USE DEF Resting
<1>1. Stage
  BY DEF Stage, Dumped
<1>2. DocsRead = {} /\ AttsRead = {}
  BY DEF DocsRead, AttsRead, DocsIn, AttsIn, Dumped
<1>3. Tally
  <2>1. {i \in DocsRead : Recs[i].dead} = {}
    BY <1>2
  <2> QED BY <1>2, <2>1, FS_EmptySet DEF Tally
<1>4. Gathering /\ Sending
  BY DEF Gathering, Sending
<1>5. UnderWay
  BY <1>2 DEF UnderWay
<1>6. Bounded
  <2>1. Inlined(<<>>) = 0
    <3>1. 1..Len(<<>>) = {}
      OBVIOUS
    <3> QED BY <3>1, TotalNone DEF Inlined
  <2> QED BY <2>1, RestoreAssumption DEF Bounded, RequestBounded
<1> QED BY <1>1, <1>3, <1>4, <1>5, <1>6

LEMMA RestoreInitially == RestoreInit => RestoreInv
<1> SUFFICES ASSUME RestoreInit PROVE RestoreInv
  OBVIOUS
<1>1. PICK t \in Targets : revs = t.revs /\ held = t.revs /\ stored = t.stored
  BY DEF RestoreInit
<1>2. RestoreTypes
  <2>1. \A x \in revs : x = <<x[1], x[2]>> /\ x[2] \in Seq(Nat)
    BY <1>1, TargetAssumption DEF RestoreInit
  <2> QED BY <2>1, RestoreAssumption DEF RestoreInit, RestoreTypes
<1>3. Dumped(Recs)
  BY <1>2, RecsAreDumped
<1>4. Stage /\ Tally /\ Gathering /\ Sending /\ UnderWay /\ Bounded
  BY <1>3, AtRest DEF RestoreInit, Resting
<1>5. \A i \in DocsIn(Recs) :
        /\ <<Recs[i].id, Recs[i].rev>> \in t.revs => \A k \in AttsAfter(Recs, i) :
             <<Recs[i].id, Recs[i].rev, Recs[i + k].name>> \in t.stored
        /\ \A x \in t.revs : x[1] = Recs[i].id => \E j \in DocsIn(Recs) :
             Recs[j].id = x[1] /\ IsPrefix(x[2], Recs[j].rev)
  BY <1>2, TargetAssumption DEF RestoreTypes, Recs
<1>6. Whole(Recs, held, stored)
  BY <1>1, <1>5 DEF Whole
<1>7. Grown
  BY <1>1, <1>5 DEF Grown, From, Ids
<1>8. AllRestored
  BY DEF RestoreInit, AllRestored
<1> QED BY <1>2, <1>4, <1>6, <1>7, <1>8 DEF RestoreInv

(* However the command ends, if it does not report success. *)
LEMMA ExitKeeps ==
  ASSUME RestoreInv, NEW o, Exit(o), AllRestored',
         Whole(Recs, held, stored)', Grown',
         \A x \in revs' : x = <<x[1], x[2]>> /\ x[2] \in Seq(Nat)
  PROVE  RestoreInv'
<1> USE DEF Exit
<1>1. RestoreTypes'
  BY EmptySeq DEF RestoreInv, RestoreTypes
<1>2. Recs' = Recs
  BY DEF Recs
<1>3. Dumped(Recs)'
  BY <1>2, RecsAreDumped DEF RestoreInv
<1>4. flags.batch \in Nat
  BY DEF RestoreInv, RestoreTypes
<1>5. Resting'
  BY <1>3, <1>4 DEF Resting
<1>6. (Stage /\ Tally /\ Gathering /\ Sending /\ UnderWay /\ Bounded)'
  BY <1>5, AtRest, PTL
<1> QED BY <1>1, <1>6 DEF RestoreInv

LEMMA FailureKeeps ==
  ASSUME RestoreInv, NEW o, o # "done", Exit(o), UNCHANGED target
  PROVE  RestoreInv'
<1>1. AllRestored'
  BY DEF Exit, AllRestored
<1>2. UNCHANGED <<target, dump, edits>>
  BY DEF Exit
<1> QED BY <1>1, <1>2, ServerStays, ExitKeeps

LEMMA RunKeeps == ASSUME RestoreInv, NEW f \in Flags, Run(f) PROVE RestoreInv'
<1>1. UNCHANGED <<target, dump, edits>>
  BY DEF Run
<1>2. /\ Whole(Recs, held, stored)' /\ Grown' /\ Recs' = Recs
      /\ \A x \in revs' : x = <<x[1], x[2]>> /\ x[2] \in Seq(Nat)
  BY <1>1, ServerStays
<1>3. f \in [create : BOOLEAN, merge : BOOLEAN, partial : BOOLEAN, batch : Nat]
  BY RestoreAssumption DEF Flags
<1>4. RestoreTypes'
  BY <1>2, <1>3 DEF RestoreInv, RestoreTypes, Run, batch
<1>5. Dumped(Recs)'
  BY <1>2, RecsAreDumped DEF RestoreInv
<1>6. /\ phase = "idle" /\ pos = 0 /\ pending = <<>> /\ writing = <<>> /\ current = 0
  BY DEF Run, RestoreInv, Stage
<1>7. docs = 0 /\ tombs = 0 /\ atts = 0
  <2>1. DocsRead = {} /\ AttsRead = {}
    BY <1>6 DEF DocsRead, AttsRead, DocsIn, AttsIn
  <2>2. {i \in DocsRead : Recs[i].dead} = {}
    BY <2>1
  <2> QED BY <2>1, <2>2, FS_EmptySet DEF RestoreInv, Tally
<1>8. inlineBytes = 0
  <2>1. 1..Len(<<>>) = {}
    OBVIOUS
  <2> QED BY <1>6, <2>1, TotalNone DEF RestoreInv, Bounded, RequestBounded, Inlined
<1>9. /\ pending' = <<>> /\ writing' = <<>> /\ current' = 0
      /\ inlineBytes' = 0 /\ docs' = 0 /\ tombs' = 0 /\ atts' = 0 /\ flags'.batch \in Nat
      /\ (phase' = "idle" /\ pos' = 0) \/ (phase' = "read" /\ pos' = 1)
      /\ phase' = "read" => outcome' = "running"
  BY <1>3, <1>6, <1>7, <1>8 DEF Run, batch, counts
<1>10. phase' = "read" => dump'.complete \/ flags'.partial
  <2>1. CASE dump.complete \/ f.partial
    BY <2>1 DEF Run
  <2>2. CASE ~(dump.complete \/ f.partial)
    BY <1>6, <2>2 DEF Run
  <2> QED BY <2>1, <2>2
<1>11. (Stage /\ Tally /\ Gathering /\ Sending /\ UnderWay /\ Bounded)'
  <2>1. Resting'
    BY <1>5, <1>9, <1>10, Zenon DEF Resting
  <2> QED BY <2>1, AtRest, PTL
<1>12. AllRestored'
  BY DEF Run, AllRestored
<1> QED BY <1>2, <1>4, <1>11, <1>12 DEF RestoreInv

LEMMA PrepareTargetKeeps == ASSUME RestoreInv, PrepareTarget PROVE RestoreInv'
<1>1. UNCHANGED <<revs, held, stored, dump, phase, flags, pos, batch, writing, counts,
                  outcome, edits>>
  BY DEF PrepareTarget
<1>2. UNCHANGED <<Recs, DocsRead, AttsRead, Ids>>
  BY <1>1 DEF Recs, DocsRead, AttsRead, Ids
<1>3. RestoreTypes' /\ Stage' /\ Tally' /\ Gathering' /\ Sending'
  BY <1>1, <1>2 DEF RestoreInv, RestoreTypes, Stage, Tally, Gathering, Sending, batch, counts
<1>4. Whole(Recs, held, stored)' /\ UnderWay' /\ Grown'
  BY <1>1, <1>2 DEF RestoreInv, UnderWay, Grown, batch
<1>5. Bounded' /\ AllRestored'
  BY <1>1, <1>2 DEF RestoreInv, Bounded, RequestBounded, AllRestored, batch
<1> QED BY <1>3, <1>4, <1>5 DEF RestoreInv

(* A success: everything has been read, and nothing is under way. *)
LEMMA FinishKeeps == ASSUME RestoreInv, Finish PROVE RestoreInv'
<1>1. /\ pending = <<>> /\ writing = <<>> /\ phase = "read" /\ pos > Len(Recs)
      /\ Dumped(Recs) /\ pos \in Nat /\ (dump.complete \/ flags.partial)
  <2>1. Dumped(Recs)
    BY RecsAreDumped DEF RestoreInv
  <2>2. phase = "read" => dump.complete \/ flags.partial
    BY Zenon DEF RestoreInv, Stage
  <2>3. /\ pending = <<>> /\ writing = <<>> /\ phase = "read" /\ pos > Len(Recs)
        /\ pos \in Nat
    BY DEF Finish, Reading, AtEnd, RestoreInv, Stage, RestoreTypes
  <2> QED BY <2>1, <2>2, <2>3
<1>2. DocsRead = DocsIn(Recs) /\ AttsRead = AttsIn(Recs)
  BY <1>1 DEF DocsRead, AttsRead, DocsIn, AttsIn, Dumped
<1>3. \A i \in DocsIn(Recs) : <<Recs[i].id, Recs[i].rev>> \in held
  BY <1>1, <1>2 DEF RestoreInv, UnderWay, Holds
<1>4. \A j \in AttsIn(Recs) : Attached(stored, Recs[j])
  BY <1>1, <1>2 DEF RestoreInv, UnderWay, Carried
<1>5. PICK o : Exit(o) /\ (o = IF dump.complete /\ ~flags.partial /\ ~TotalsAgree
                                 THEN "damaged" ELSE "done")
  BY DEF Finish
<1>6. UNCHANGED <<target, dump, edits>> /\ flags' = flags /\ outcome' = o
  BY <1>5 DEF Finish, Exit
<1>7. /\ Whole(Recs, held, stored)' /\ Grown' /\ Recs' = Recs
      /\ \A x \in revs' : x = <<x[1], x[2]>> /\ x[2] \in Seq(Nat)
  BY <1>6, ServerStays
<1>8. AllRestored'
  <2>1. SUFFICES ASSUME o = "done" PROVE AllRestored'
    BY <1>6 DEF AllRestored
  <2>2. ~flags.partial => dump.complete /\ TotalsAgree
    BY <1>1, <1>5, <2>1
  <2>3. TotalsAgree =>
          /\ dump.footer.docs = Cardinality(DocsIn(Recs))
          /\ dump.footer.atts = Cardinality(AttsIn(Recs))
          /\ dump.footer.deleted = Cardinality({i \in DocsIn(Recs) : Recs[i].dead})
    BY <1>2 DEF TotalsAgree, RestoreInv, Tally
  <2>4. held' = held /\ stored' = stored /\ dump' = dump
    BY <1>6 DEF target
  <2> QED BY <1>3, <1>4, <1>6, <1>7, <2>2, <2>3, <2>4 DEF AllRestored, Attached
<1> QED BY <1>5, <1>7, <1>8, ExitKeeps

-----------------------------------------------------------------------------
(* Batches.                                                                *)

Bytes(ps) == [k \in 1..Len(ps) |-> ps[k].inlineBytes]

LEMMA BytesAre ==
  ASSUME NEW ps \in Seq(PendingDoc)
  PROVE  /\ Len(ps) \in Nat /\ IsFiniteSet(1..Len(ps))
         /\ \A k \in 1..Len(ps) : /\ Bytes(ps)[k] = ps[k].inlineBytes
                                  /\ Bytes(ps)[k] \in Nat
         /\ Inlined(ps) = Total(Bytes(ps), 1..Len(ps))
<1>1. PICK n \in Nat : n = Len(ps)
  OBVIOUS
<1>2. IsFiniteSet(1..n)
  BY UpTo
<1>3. \A k \in 1..Len(ps) : ps[k] \in PendingDoc
  OBVIOUS
<1>4. \A k \in 1..Len(ps) : ps[k].inlineBytes \in Nat
  BY <1>3 DEF PendingDoc
<1> QED BY <1>1, <1>2, <1>4 DEF Bytes, Inlined

LEMMA InlinedNone == Inlined(<<>>) = 0
<1>1. 1..Len(<<>>) = {}
  OBVIOUS
<1> QED BY <1>1, TotalNone DEF Inlined

LEMMA InlinedOneMore ==
  ASSUME NEW ps \in Seq(PendingDoc), NEW qs \in Seq(PendingDoc), Len(ps) = Len(qs) + 1,
         \A k \in 1..Len(qs) : ps[k].inlineBytes = qs[k].inlineBytes
  PROVE  /\ Inlined(qs) \in Nat /\ ps[Len(ps)].inlineBytes \in Nat
         /\ Inlined(ps) = Inlined(qs) + ps[Len(ps)].inlineBytes
<1>1. PICK n \in Nat : n = Len(qs)
  OBVIOUS
<1>2. PICK m \in Nat : m = n + 1
  BY <1>1
<1>3. 1..m = (1..n) \cup {m} /\ m \notin 1..n /\ m \in 1..m
  BY <1>2
<1>4. Len(ps) = m
  BY <1>1, <1>2
<1> DEFINE f == Bytes(ps)  g == Bytes(qs)
<1>5. /\ \A k \in 1..m : f[k] \in Nat /\ f[k] = ps[k].inlineBytes
      /\ \A k \in 1..n : g[k] = qs[k].inlineBytes
      /\ Inlined(ps) = Total(f, 1..m) /\ Inlined(qs) = Total(g, 1..n)
      /\ IsFiniteSet(1..n)
  BY <1>1, <1>4, BytesAre
<1> HIDE DEF f, g
<1>6. Total(f, 1..n) = Total(g, 1..n)
  <2>1. \A k \in 1..n : f[k] = g[k]
    BY <1>1, <1>3, <1>5
  <2> QED BY <2>1, TotalSame
<1>7. /\ Total(f, 1..n) \in Nat
      /\ Total(f, (1..n) \cup {m}) = Total(f, 1..n) + f[m]
  <2>1. \A k \in 1..n : f[k] \in Nat
    BY <1>3, <1>5
  <2>2. f[m] \in Nat
    BY <1>3, <1>5
  <2>3. PICK S : S = 1..n
    OBVIOUS
  <2>4. Total(f, S) \in Nat /\ Total(f, S \cup {m}) = Total(f, S) + f[m]
    <3>1. IsFiniteSet(S) /\ m \notin S /\ \A k \in S : f[k] \in Nat
      BY <1>3, <1>5, <2>1, <2>3
    <3>2. PICK h : h = f
      OBVIOUS
    <3>3. Total(h, S) \in Nat /\ Total(h, S \cup {m}) = Total(h, S) + h[m]
      BY <2>2, <3>1, <3>2, TotalAdds
    <3> QED BY <3>2, <3>3
  <2> QED BY <2>3, <2>4
<1>8. f[m] = ps[m].inlineBytes /\ f[m] \in Nat
  BY <1>3, <1>5
<1> QED BY <1>3, <1>4, <1>5, <1>6, <1>7, <1>8

LEMMA InlinedSame ==
  ASSUME NEW ps \in Seq(PendingDoc), NEW qs \in Seq(PendingDoc), Len(ps) = Len(qs),
         \A k \in 1..Len(qs) : ps[k].inlineBytes = qs[k].inlineBytes
  PROVE  Inlined(ps) = Inlined(qs)
<1>1. \A k \in 1..Len(qs) : Bytes(ps)[k] = Bytes(qs)[k]
  BY BytesAre
<1> QED BY <1>1, BytesAre, TotalSame

LEMMA InlinedTail ==
  ASSUME NEW ps \in Seq(PendingDoc), ps # <<>>
  PROVE  Inlined(Tail(ps)) \in Nat /\ Inlined(Tail(ps)) =< Inlined(ps)
<1>1. PICK qs \in Seq(PendingDoc) :
        /\ qs = Tail(ps) /\ Len(ps) = Len(qs) + 1
        /\ \A k \in 1..Len(qs) : qs[k] = ps[k + 1]
  <2>1. /\ Tail(ps) \in Seq(PendingDoc) /\ Len(ps) = Len(Tail(ps)) + 1
        /\ \A k \in 1..Len(Tail(ps)) : Tail(ps)[k] = ps[k + 1]
    OBVIOUS
  <2> QED BY <2>1
<1> DEFINE f == Bytes(ps)  g == Bytes(qs)
           U == Units(f, 1..Len(ps))  V == Units(g, 1..Len(qs))
           h == [u \in V |-> <<u[1] + 1, u[2]>>]
<1>2. Len(qs) \in Nat /\ \A k \in 1..Len(qs) : g[k] = f[k + 1] /\ g[k] \in Nat
  <2>1. Len(qs) \in Nat
    OBVIOUS
  <2>2. \A k \in 1..Len(qs) : k + 1 \in 1..Len(ps)
    BY <1>1, <2>1
  <2>3. \A k \in 1..Len(qs) : g[k] = qs[k].inlineBytes /\ g[k] \in Nat
    BY BytesAre
  <2>4. \A k \in 1..Len(ps) : f[k] = ps[k].inlineBytes
    BY BytesAre
  <2> QED BY <1>1, <2>1, <2>2, <2>3, <2>4
<1>3. h \in Injection(V, U)
  <2>1. \A u \in V : \E k \in 1..Len(qs) : \E m \in 1..g[k] : u = <<k, m>>
    BY UnitsAre
  <2>2. ASSUME NEW u \in V PROVE h[u] \in U
    <3>1. PICK k \in 1..Len(qs), m \in Nat : m \in 1..g[k] /\ u = <<k, m>>
      BY <2>1
    <3>2. h[u] = <<k + 1, m>> /\ k + 1 \in 1..Len(ps) /\ m \in 1..f[k + 1]
      BY <1>1, <1>2, <3>1
    <3> QED BY <3>2, UnitsAre
  <2>3. ASSUME NEW u \in V, NEW v \in V, h[u] = h[v] PROVE u = v
    <3>1. PICK k \in 1..Len(qs), m \in Nat : m \in 1..g[k] /\ u = <<k, m>>
      BY <2>1
    <3>2. PICK i \in 1..Len(qs), j \in Nat : j \in 1..g[i] /\ v = <<i, j>>
      BY <2>1
    <3>3. h[u] = <<k + 1, m>> /\ h[v] = <<i + 1, j>>
      BY <3>1, <3>2
    <3> QED BY <2>3, <3>1, <3>2, <3>3, <1>2
  <2>4. h \in [V -> U]
    BY <2>2
  <2> HIDE DEF h, U, V
  <2> QED BY <2>3, <2>4 DEF Injection, IsInjective
<1>4. IsFiniteSet(U)
  <2>1. IsFiniteSet(1..Len(ps)) /\ \A k \in 1..Len(ps) : f[k] \in Nat
    BY BytesAre
  <2> HIDE DEF f
  <2> QED BY <2>1, UnitsFinite
<1>5. IsFiniteSet(V) /\ Cardinality(V) =< Cardinality(U)
  <2> HIDE DEF h, U, V
  <2> QED BY <1>3, <1>4, FS_Injection
<1>6. Inlined(ps) = Cardinality(U) /\ Inlined(qs) = Cardinality(V)
  BY BytesAre, TotalIs
<1> HIDE DEF U, V
<1>7. Cardinality(V) \in Nat
  BY <1>5, FS_CardinalityType
<1> QED BY <1>1, <1>5, <1>6, <1>7

(* A document has all of its attachments once another, or the end, is read. *)
LEMMA Closes ==
  ASSUME NEW recs, Dumped(recs), NEW to \in Nat, NEW p, Gathered(recs, to, p),
         to \in DocsIn(recs) \/ to > Len(recs)
  PROVE  Closed(recs, to, p)
<1>1. p.at \in 1..Len(recs) /\ p.at < to /\ Len(recs) \in Nat
  BY DEF Gathered, DocsIn, Dumped
<1>2. PICK i \in 1..Len(recs) : i = p.at
  BY <1>1
<1>3. SUFFICES ASSUME NEW k \in AttsAfter(recs, i), ~(i + k < to) PROVE FALSE
  BY <1>2 DEF Closed
<1>4. i + k \in 1..Len(recs) /\ k \in Nat
  BY Following
<1>5. to \in DocsIn(recs) /\ to - i \in 1..k /\ i + (to - i) = to
  BY <1>1, <1>2, <1>3, <1>4
<1>6. \A m \in 1..k : recs[i + m].kind = "att"
  BY DEF AttsAfter
<1>7. recs[i + (to - i)].kind = "att"
  BY <1>5, <1>6
<1> QED BY <1>5, <1>7 DEF DocsIn

LEMMA StaysGathered ==
  ASSUME NEW recs, Dumped(recs), NEW to \in Nat, NEW on \in Nat, to =< on, NEW p,
         Gathered(recs, to, p), Closed(recs, to, p)
  PROVE  Gathered(recs, on, p) /\ Closed(recs, on, p)
<1>1. PICK i \in 1..Len(recs) : i = p.at /\ i \in Nat /\ i < to
  BY DEF Gathered, DocsIn, Dumped
<1>2. \A k \in AttsAfter(recs, i) : k \in Nat /\ i + k < to
  BY <1>1, Following DEF Closed
<1>3. \A k \in AttsAfter(recs, i) : k < to - i /\ k < on - i /\ i + k < on
  BY <1>1, <1>2
<1>4. PICK K \in SUBSET AttsAfter(recs, p.at) : Divides(recs, to, p, K)
  BY DEF Gathered
<1>5. Cut(recs, i, on - i, K)
  BY <1>1, <1>3, <1>4 DEF Divides, Cut
<1>6. \A j : j \in ToSet(p.large) <=>
                \E k \in AttsAfter(recs, p.at) : j = p.at + k /\ j < on /\ k \notin K
  BY <1>1, <1>2, <1>3, <1>4 DEF Divides
<1>7. Divides(recs, on, p, K)
  BY <1>1, <1>4, <1>5, <1>6 DEF Divides
<1> QED BY <1>1, <1>3, <1>7 DEF Gathered, Closed

-----------------------------------------------------------------------------
(* Gathering a batch.                                                      *)

LEMMA OneLonger ==
  ASSUME NEW S, NEW s \in Seq(S), NEW x \in S
  PROVE  /\ Append(s, x) \in Seq(S) /\ Len(Append(s, x)) = Len(s) + 1 /\ Len(s) \in Nat
         /\ \A i \in 1..Len(s) : Append(s, x)[i] = s[i]
         /\ Append(s, x)[Len(s) + 1] = x
OBVIOUS

LEMMA ToSetAppend ==
  ASSUME NEW S, NEW s \in Seq(S), NEW x \in S
  PROVE  ToSet(Append(s, x)) = ToSet(s) \cup {x}
<1>1. /\ Append(s, x) \in Seq(S) /\ Len(Append(s, x)) = Len(s) + 1 /\ Len(s) \in Nat
      /\ \A i \in 1..Len(s) : Append(s, x)[i] = s[i]
      /\ Append(s, x)[Len(s) + 1] = x
  BY OneLonger
<1>2. PICK t \in Seq(S) : t = Append(s, x)
  BY <1>1
<1>3. DOMAIN s = 1..Len(s) /\ DOMAIN t = 1..(Len(s) + 1)
  BY <1>1, <1>2
<1>4. \A y : y \in ToSet(t) <=> \E i \in 1..(Len(s) + 1) : y = t[i]
  BY <1>3 DEF ToSet
<1>5. \A y : y \in ToSet(s) <=> \E i \in 1..Len(s) : y = s[i]
  BY <1>3 DEF ToSet
<1>6. \A y : y \in ToSet(t) <=> y \in ToSet(s) \/ y = x
  <2> SUFFICES ASSUME NEW y PROVE y \in ToSet(t) <=> y \in ToSet(s) \/ y = x
    OBVIOUS
  <2>1. ASSUME y \in ToSet(t) PROVE y \in ToSet(s) \/ y = x
    <3>1. PICK i \in 1..(Len(s) + 1) : y = t[i]
      BY <1>4, <2>1
    <3>2. CASE i = Len(s) + 1
      BY <1>1, <1>2, <3>1, <3>2
    <3>3. CASE i \in 1..Len(s)
      BY <1>1, <1>2, <1>5, <3>1, <3>3
    <3> QED BY <1>1, <3>1, <3>2, <3>3
  <2>2. ASSUME y \in ToSet(s) PROVE y \in ToSet(t)
    <3>1. PICK i \in 1..Len(s) : y = s[i]
      BY <1>5, <2>2
    <3>2. i \in 1..(Len(s) + 1) /\ t[i] = y
      BY <1>1, <1>2, <3>1
    <3> QED BY <1>4, <3>2
  <2>3. ASSUME y = x PROVE y \in ToSet(t)
    <3>1. Len(s) + 1 \in 1..(Len(s) + 1) /\ t[Len(s) + 1] = y
      BY <1>1, <1>2, <2>3
    <3> QED BY <1>4, <3>1
  <2> QED BY <2>1, <2>2, <2>3
<1> QED BY <1>2, <1>6

LEMMA FrontAndLast ==
  ASSUME NEW S, NEW s \in Seq(S), s # <<>>
  PROVE  /\ Front(s) \in Seq(S) /\ Len(s) = Len(Front(s)) + 1 /\ Len(Front(s)) \in Nat
         /\ \A i \in 1..Len(Front(s)) : Front(s)[i] = s[i]
         /\ Last(s) = s[Len(s)] /\ Last(s) \in S
<1>1. PICK n \in Nat : n + 1 = Len(s)
  <2>1. Len(s) - 1 \in Nat /\ Len(s) - 1 + 1 = Len(s)
    OBVIOUS
  <2> QED BY <2>1
<1>2. \A i \in 1..n : s[i] \in S
  BY <1>1
<1>3. /\ SubSeq(s, 1, n) \in Seq(S) /\ Len(SubSeq(s, 1, n)) = n
      /\ \A i \in 1..n : SubSeq(s, 1, n)[i] = s[i]
  BY <1>2
<1>4. Front(s) = SubSeq(s, 1, n)
  <2>1. Len(s) - 1 = n
    BY <1>1
  <2> QED BY <2>1 DEF Front
<1>5. Last(s) = s[Len(s)] /\ s[Len(s)] \in S
  BY <1>1 DEF Last
<1> QED BY <1>1, <1>3, <1>4, <1>5

(* The batch of a command in order. *)
LEMMA BatchIs ==
  ASSUME RestoreInv
  PROVE  /\ Dumped(Recs) /\ pos \in Nat /\ Len(Recs) \in Nat
         /\ pending \in Seq(PendingDoc) /\ writing \in Seq(PendingDoc)
         /\ Len(pending) \in Nat /\ Len(writing) \in Nat
         /\ \A n \in 1..Len(pending) : pending[n] \in PendingDoc /\ Gathered(Recs, pos, pending[n])
         /\ inlineBytes = Inlined(pending) /\ inlineBytes \in Nat /\ inlineBytes =< BatchBytes
         /\ flags.batch \in Nat /\ Len(pending) =< flags.batch
<1>1. Dumped(Recs)
  BY RecsAreDumped DEF RestoreInv
<1> QED BY <1>1 DEF RestoreInv, RestoreTypes, Gathering, Bounded, RequestBounded, Dumped

LEMMA AllClosed ==
  ASSUME RestoreInv, pos \in DocsIn(Recs) \/ pos > Len(Recs)
  PROVE  \A n \in 1..Len(pending) : Closed(Recs, pos, pending[n])
BY BatchIs, Closes

LEMMA FlushKeeps == ASSUME RestoreInv, Flush PROVE RestoreInv'
<1> USE DEF Flush
<1>1. UNCHANGED <<target, dump, edits>>
  OBVIOUS
<1>2. /\ Whole(Recs, held, stored)' /\ Grown' /\ Recs' = Recs
      /\ \A x \in revs' : x = <<x[1], x[2]>> /\ x[2] \in Seq(Nat)
  BY <1>1, ServerStays
<1>3. phase = "read" /\ writing = <<>> /\ held' = held /\ stored' = stored
  BY <1>1 DEF Reading, RestoreInv, Stage, target
<1>4. UNCHANGED <<DocsRead, AttsRead>>
  BY <1>2 DEF DocsRead, AttsRead
<1>5. RestoreTypes' /\ Stage' /\ Tally'
  <2>1. RestoreTypes'
    BY <1>2, EmptySeq DEF RestoreInv, RestoreTypes
  <2>2. Stage'
    BY <1>2, <1>3 DEF RestoreInv, Stage
  <2>3. Tally'
    BY <1>2, <1>4, <1>1 DEF RestoreInv, Tally, counts
  <2> QED BY <2>1, <2>2, <2>3
<1>6. Gathering'
  BY DEF Gathering
<1>7. Sending'
  <2>1. pos \in DocsIn(Recs) \/ pos > Len(Recs)
    BY BatchIs DEF AtDoc, AtEnd, DocsIn, RestoreInv, Stage, Reading
  <2>2. \A n \in 1..Len(pending) : Gathered(Recs, pos, pending[n]) /\ Closed(Recs, pos, pending[n])
    BY <2>1, BatchIs, AllClosed
  <2> QED BY <1>2, <2>2 DEF Sending
<1>8. UnderWay'
  <2>1. writing' = pending /\ phase' = "bulk"
    OBVIOUS
  <2>2. phase # "bulk" /\ phase # "upload"
    BY <1>3
  <2>3. UnderWay
    BY DEF RestoreInv
  <2> HIDE DEF Flush
  <2>4. ASSUME NEW i \in DocsRead PROVE <<Recs[i].id, Recs[i].rev>> \in held \/ Holds(pending, i)
    BY <2>2, <2>3 DEF UnderWay
  <2>5. ASSUME NEW j \in AttsRead PROVE Attached(stored, Recs[j]) \/ Carried(pending, j)
    BY <2>2, <2>3 DEF UnderWay
  <2> QED BY <1>2, <1>3, <1>4, <2>1, <2>4, <2>5 DEF UnderWay
<1>9. Bounded'
  <2>1. /\ flags' = flags /\ writing' = pending /\ pending' = <<>> /\ inlineBytes' = 0
    OBVIOUS
  <2>2. /\ Len(pending) =< flags.batch /\ Inlined(pending) =< BatchBytes /\ flags.batch \in Nat
    BY BatchIs
  <2>3. Len(<<>>) = 0 /\ 0 =< BatchBytes
    BY RestoreAssumption
  <2> QED BY <2>1, <2>2, <2>3, InlinedNone DEF Bounded, RequestBounded
<1>10. AllRestored'
  BY <1>3 DEF RestoreInv, Stage, AllRestored
<1> QED BY <1>2, <1>5, <1>6, <1>7, <1>8, <1>9, <1>10 DEF RestoreInv

(* One record more. *)
LEMMA OneMoreRead ==
  ASSUME NEW S, NEW T, S \subseteq 1..T, T \in Nat, NEW n \in Nat
  PROVE  /\ IsFiniteSet({i \in S : i < n})
         /\ n \in S => /\ {i \in S : i < n + 1} = {i \in S : i < n} \cup {n}
                       /\ Cardinality({i \in S : i < n + 1})
                            = Cardinality({i \in S : i < n}) + 1
         /\ n \notin S => {i \in S : i < n + 1} = {i \in S : i < n}
<1> DEFINE B == {i \in S : i < n}
<1>1. IsFiniteSet(B)
  <2>1. B \subseteq 1..T
    OBVIOUS
  <2> QED BY <2>1, UpTo, FS_Subset
<1>0. \A i \in S : i < n + 1 <=> (i < n \/ i = n)
  OBVIOUS
<1>2. n \in S => {i \in S : i < n + 1} = B \cup {n}
  BY <1>0
<1>3. n \notin S => {i \in S : i < n + 1} = B
  BY <1>0
<1>4. n \notin B
  OBVIOUS
<1> HIDE DEF B
<1>5. Cardinality(B \cup {n}) = Cardinality(B) + 1
  BY <1>1, <1>4, FS_AddElement
<1> QED BY <1>1, <1>2, <1>3, <1>5 DEF B

(* A document that has just been read. *)
LEMMA NewGathered ==
  ASSUME RestoreInv, pos \in DocsIn(Recs)
  PROVE  NewPending(pos) \in PendingDoc /\ Gathered(Recs, pos + 1, NewPending(pos))
<1> DEFINE p == NewPending(pos)
<1>1. PICK i \in 1..Len(Recs) : i = pos /\ i \in Nat
  BY BatchIs DEF DocsIn
<1>2. Dumped(Recs) /\ Recs[i].len \in Nat /\ Recs[i].rev \in Seq(Nat)
  <2>1. Dumped(Recs)
    BY BatchIs
  <2>2. Recs[i].len \in Nat /\ Recs[i].rev \in Seq(Nat \ {0})
    BY <1>1, <2>1 DEF Dumped
  <2> QED BY <2>1, <2>2
<1>3. /\ p.at = i /\ p.inline = <<>> /\ p.large = <<>> /\ p.inlineBytes = 0
      /\ p.rev = Recs[i].rev /\ p \in PendingDoc
  <2>1. <<>> \in Seq(Nat)
    OBVIOUS
  <2> QED BY <1>1, <1>2, <2>1 DEF NewPending, PendingDoc
<1>4. \A k \in AttsAfter(Recs, i) : k \in Nat \ {0}
  BY <1>2, Following
<1>5. ToSet(<<>>) = {}
  BY DEF ToSet
<1> HIDE DEF p
<1>6. Weight(Recs, i, {}) = 0
  BY <1>2, Weights
<1>7. Cut(Recs, i, pos + 1 - i, {})
  <2>1. pos + 1 - i = 1
    BY <1>1
  <2> QED BY <1>4, <2>1 DEF Cut
<1>8. \A k \in AttsAfter(Recs, i) : ~(i + k < pos + 1)
  BY <1>1, <1>4
<1>9. Divides(Recs, pos + 1, p, {})
  <2>0. PICK K, to, d : K = {} /\ to = pos + 1 /\ d = p
    OBVIOUS
  <2>1. ToSet(p.inline) = {} /\ ToSet(p.large) = {}
    BY <1>3, <1>5
  <2>3. \A k \in AttsAfter(Recs, p.at) : ~(p.at + k < pos + 1)
    BY <1>3, <1>8
  <2>4. \A j : ~ \E k \in AttsAfter(Recs, p.at) : j = p.at + k /\ j < pos + 1 /\ k \notin {}
    BY <2>3
  <2>5. \A j : j \in ToSet(d.inline) <=> \E k \in K : j = d.at + k
    BY <2>0, <2>1
  <2>6. \A j : j \in ToSet(d.large) <=>
                  \E k \in AttsAfter(Recs, d.at) : j = d.at + k /\ j < to /\ k \notin K
    <3>1. ToSet(d.large) = {}
      BY <2>0, <2>1
    <3>2. \A j : ~ \E k \in AttsAfter(Recs, d.at) : j = d.at + k /\ j < to /\ k \notin K
      BY <2>0, <2>4
    <3> QED BY <3>1, <3>2
  <2>7. Cut(Recs, d.at, to - d.at, K) /\ d.inlineBytes = Weight(Recs, d.at, K)
    <3>1. d.at = i /\ p.at = i
      BY <1>3, <2>0
    <3>2. Cut(Recs, i, pos + 1 - i, {}) /\ d.inlineBytes = Weight(Recs, i, {})
      BY <1>3, <1>6, <1>7, <2>0
    <3>3. pos + 1 - i = to - d.at
      BY <1>1, <2>0, <3>1
    <3> QED BY <2>0, <3>1, <3>2, <3>3
  <2>8. Divides(Recs, to, d, K)
    BY <2>5, <2>6, <2>7, Zenon DEF Divides
  <2> QED BY <2>0, <2>8
<1>10. p.at \in DocsIn(Recs) /\ p.at < pos + 1
  BY <1>1, <1>3
<1> QED BY <1>3, <1>5, <1>9, <1>10 DEF Gathered, p

LEMMA ReadDocKeeps == ASSUME RestoreInv, ReadDoc PROVE RestoreInv'
<1>1. UNCHANGED <<target, dump, edits>> /\ flags' = flags /\ phase' = "read" /\ phase = "read"
      /\ writing' = writing /\ outcome' = outcome /\ inlineBytes' = inlineBytes
      /\ pending' = Append(pending, NewPending(pos)) /\ current' = pos /\ pos' = pos + 1
      /\ docs' = docs + 1 /\ atts' = atts
  BY DEF ReadDoc, Reading
<1>2. /\ Whole(Recs, held, stored)' /\ Grown' /\ Recs' = Recs
      /\ \A x \in revs' : x = <<x[1], x[2]>> /\ x[2] \in Seq(Nat)
  BY <1>1, ServerStays
<1>3. /\ writing = <<>> /\ pos \in DocsIn(Recs) /\ pos \in 1..Len(Recs) /\ outcome = "running"
      /\ held' = held /\ stored' = stored /\ pos \in Nat /\ pos + 1 \in Nat
      /\ pos + 1 \in 1..(Len(Recs) + 1)
  <2>1. pos \in 1..(Len(Recs) + 1) /\ writing = <<>> /\ outcome = "running"
    BY <1>1 DEF RestoreInv, Stage
  <2>2. ~(pos > Len(Recs)) /\ Recs[pos].kind = "doc"
    BY DEF ReadDoc, AtDoc, AtEnd
  <2>3. pos \in 1..Len(Recs)
    BY <2>1, <2>2, BatchIs
  <2> QED BY <1>1, <2>1, <2>2, <2>3 DEF DocsIn, target
<1>4. PICK p \in PendingDoc :
        p = NewPending(pos) /\ Gathered(Recs, pos + 1, p) /\ p.at = pos /\ p.inlineBytes = 0
  BY <1>3, NewGathered DEF NewPending
<1>5. PICK qs \in Seq(PendingDoc) :
        /\ qs = pending' /\ Len(qs) = Len(pending) + 1
        /\ \A n \in 1..Len(pending) : qs[n] = pending[n]
        /\ qs[Len(pending) + 1] = p /\ qs = Append(pending, p)
  <2>1. pending \in Seq(PendingDoc) /\ pending' = Append(pending, p)
    BY <1>1, <1>4, BatchIs
  <2>2. /\ Append(pending, p) \in Seq(PendingDoc)
        /\ Len(Append(pending, p)) = Len(pending) + 1
        /\ \A n \in 1..Len(pending) : Append(pending, p)[n] = pending[n]
        /\ Append(pending, p)[Len(pending) + 1] = p
    BY <2>1, OneLonger
  <2> QED BY <2>1, <2>2
<1>6. Len(pending) \in Nat /\ pending \in Seq(PendingDoc)
  BY BatchIs
<1>7. RestoreTypes'
  BY <1>1, <1>2, <1>3, <1>5 DEF RestoreInv, RestoreTypes
<1>8. Stage'
  <2>1. qs # <<>>
    BY <1>5, <1>6
  <2>2. (dump.complete \/ flags.partial)'
    BY <1>1, Zenon DEF RestoreInv, Stage
  <2>3. pos' \in 1..(Len(Recs') + 1) /\ outcome' = "running" /\ writing' = <<>>
    BY <1>1, <1>2, <1>3
  <2>4. current' = pending'[Len(pending')].at
    BY <1>1, <1>4, <1>5
  <2> QED BY <1>1, <1>5, <2>1, <2>2, <2>3, <2>4 DEF Stage
<1>9. DocsRead' = DocsRead \cup {pos} /\ AttsRead' = AttsRead /\ docs' = Cardinality(DocsRead')
      /\ atts' = Cardinality(AttsRead')
  <2>1. /\ DocsIn(Recs) \subseteq 1..Len(Recs) /\ AttsIn(Recs) \subseteq 1..Len(Recs)
        /\ pos \notin AttsIn(Recs) /\ Len(Recs) \in Nat
    BY <1>3, BatchIs DEF DocsIn, AttsIn
  <2>2. /\ DocsRead' = {i \in DocsIn(Recs) : i < pos + 1}
        /\ AttsRead' = {i \in AttsIn(Recs) : i < pos + 1}
    BY <1>1, <1>2 DEF DocsRead, AttsRead
  <2>3. /\ DocsRead' = DocsRead \cup {pos}
        /\ Cardinality({i \in DocsIn(Recs) : i < pos + 1}) = Cardinality(DocsRead) + 1
    <3>1. DocsRead = {i \in DocsIn(Recs) : i < pos}
      BY DEF DocsRead
    <3>2. /\ {i \in DocsIn(Recs) : i < pos + 1} = {i \in DocsIn(Recs) : i < pos} \cup {pos}
          /\ Cardinality({i \in DocsIn(Recs) : i < pos + 1})
               = Cardinality({i \in DocsIn(Recs) : i < pos}) + 1
      BY <1>3, <2>1, OneMoreRead
    <3> QED BY <2>2, <3>1, <3>2
  <2>4. AttsRead' = AttsRead
    BY <1>3, <2>1, <2>2, OneMoreRead DEF AttsRead
  <2> QED BY <1>1, <2>2, <2>3, <2>4 DEF RestoreInv, Tally
<1>10. tombs' = Cardinality({i \in DocsRead : Recs[i].dead})'
  <2> DEFINE D == {i \in DocsIn(Recs) : Recs[i].dead}
  <2>1. D \subseteq 1..Len(Recs) /\ Len(Recs) \in Nat
    BY BatchIs DEF DocsIn
  <2>2. {i \in DocsRead : Recs[i].dead} = {i \in D : i < pos}
    BY DEF DocsRead
  <2>3. {i \in DocsRead : Recs[i].dead}' = {i \in D : i < pos + 1}
    BY <1>1, <1>2 DEF DocsRead
  <2>4. tombs = Cardinality({i \in D : i < pos})
    BY <2>2 DEF RestoreInv, Tally
  <2>5. tombs' = IF pos \in D THEN tombs + 1 ELSE tombs
    BY <1>3 DEF ReadDoc
  <2> HIDE DEF D
  <2>6. /\ pos \in D => Cardinality({i \in D : i < pos + 1})
                          = Cardinality({i \in D : i < pos}) + 1
        /\ pos \notin D => {i \in D : i < pos + 1} = {i \in D : i < pos}
    BY <1>3, <2>1, OneMoreRead
  <2>7. tombs' = Cardinality({i \in D : i < pos + 1})
    BY <2>4, <2>5, <2>6
  <2>8. {i \in DocsRead : Recs[i].dead}' = {i \in DocsRead' : Recs'[i].dead}
    OBVIOUS
  <2> QED BY <2>3, <2>7
<1>11. Tally'
  BY <1>9, <1>10 DEF Tally
<1>12. Gathering'
  <2>1. ASSUME NEW n \in 1..Len(pending)
        PROVE  /\ Gathered(Recs, pos + 1, pending[n]) /\ Closed(Recs, pos + 1, pending[n])
               /\ pending[n].at < pos
    <3>1. Closed(Recs, pos, pending[n])
      BY <1>3, AllClosed
    <3>2. Gathered(Recs, pos, pending[n]) /\ Dumped(Recs) /\ pos \in Nat /\ pos =< pos + 1
      BY BatchIs
    <3>3. Gathered(Recs, pos + 1, pending[n]) /\ Closed(Recs, pos + 1, pending[n])
      BY <1>3, <3>1, <3>2, StaysGathered
    <3> QED BY <3>2, <3>3 DEF Gathered
  <2>2. ASSUME NEW n \in 1..Len(qs)
        PROVE  /\ Gathered(Recs, pos + 1, qs[n])
               /\ n < Len(qs) => Closed(Recs, pos + 1, qs[n]) /\ qs[n].at < pos
    <3>1. n \in 1..Len(pending) \/ n = Len(pending) + 1
      BY <1>5, <1>6
    <3> QED BY <1>4, <1>5, <1>6, <2>1, <3>1
  <2>3. (pos + 1)..(pos + 1 - 1) = {}
    BY <1>3
  <2>4. Recs' = Recs /\ pending' = qs /\ current' = pos /\ pos' = pos + 1
    BY <1>1, <1>2, <1>5
  <2> QED BY <2>2, <2>3, <2>4 DEF Gathering
<1>13. Sending'
  BY <1>1, <1>3 DEF Sending
<1>14. UnderWay'
  <2>1. UnderWay /\ phase # "bulk" /\ phase # "upload"
    BY <1>1 DEF RestoreInv
  <2>2. ASSUME NEW i \in DocsRead' PROVE <<Recs[i].id, Recs[i].rev>> \in held \/ Holds(qs, i)
    <3>1. CASE i = pos
      BY <1>4, <1>5, <1>6, <3>1 DEF Holds
    <3>2. CASE i \in DocsRead
      <4>1. <<Recs[i].id, Recs[i].rev>> \in held \/ Holds(pending, i)
        BY <2>1, <3>2 DEF UnderWay
      <4> QED BY <1>5, <1>6, <4>1 DEF Holds
    <3> QED BY <1>9, <3>1, <3>2
  <2>3. ASSUME NEW j \in AttsRead' PROVE Attached(stored, Recs[j]) \/ Carried(qs, j)
    <3>1. Attached(stored, Recs[j]) \/ Carried(pending, j)
      BY <1>9, <2>1 DEF UnderWay
    <3> QED BY <1>5, <1>6, <3>1 DEF Carried
  <2> QED BY <1>2, <1>3, <1>5, <2>2, <2>3 DEF UnderWay
<1>15. Bounded'
  <2>1. Inlined(qs) = Inlined(pending) + 0 /\ Inlined(pending) \in Nat
    BY <1>4, <1>5, <1>6, InlinedOneMore
  <2>2. Len(qs) =< flags.batch
    BY <1>5, <1>6, BatchIs DEF ReadDoc, BatchFull
  <2>3. inlineBytes = Inlined(pending) /\ inlineBytes =< BatchBytes
    BY BatchIs
  <2>4. Len(writing) =< flags.batch /\ Inlined(writing) =< BatchBytes
    BY DEF RestoreInv, Bounded, RequestBounded
  <2> QED BY <1>1, <1>5, <2>1, <2>2, <2>3, <2>4 DEF Bounded, RequestBounded
<1>16. AllRestored'
  BY <1>1, <1>3 DEF AllRestored
<1> QED BY <1>2, <1>7, <1>8, <1>11, <1>12, <1>13, <1>14, <1>15, <1>16 DEF RestoreInv

(* An attachment that follows the others of its document. *)
LEMMA CutGrows ==
  ASSUME NEW recs, Dumped(recs), NEW i \in 1..Len(recs), NEW n \in AttsAfter(recs, i),
         NEW K \in SUBSET AttsAfter(recs, i), Cut(recs, i, n, K),
         NEW fits \in BOOLEAN,
         fits <=> /\ recs[i + n].len =< InlineLimit
                  /\ Weight(recs, i, K) + Encoded(recs[i + n].len) =< BatchBytes
  PROVE  n \notin K /\ Cut(recs, i, n + 1, IF fits THEN K \cup {n} ELSE K)
<1>1. \A k \in AttsAfter(recs, i) : k \in Nat
  BY Following
<1>2. \A k \in K : k < n
  BY DEF Cut
<1>3. \A k \in AttsAfter(recs, i) : k < n + 1 <=> (k < n \/ k = n)
  BY <1>1
<1>4. n \in Nat /\ n \notin K /\ {m \in K : m < n} = K
  BY <1>1, <1>2
<1>5. PICK L : L = IF fits THEN K \cup {n} ELSE K
  OBVIOUS
<1>6. L \subseteq AttsAfter(recs, i) /\ \A k \in L : k < n + 1
  BY <1>1, <1>2, <1>3, <1>5
<1>7. \A k \in AttsAfter(recs, i) : k < n + 1 => {m \in L : m < k} = {m \in K : m < k}
  <2> SUFFICES ASSUME NEW k \in AttsAfter(recs, i), k < n + 1
               PROVE  {m \in L : m < k} = {m \in K : m < k}
    OBVIOUS
  <2>1. ~(n < k)
    BY <1>1, <1>3, <1>4
  <2> QED BY <1>5, <2>1
<1>8. ASSUME NEW k \in AttsAfter(recs, i), k < n + 1
      PROVE  k \in L <=> /\ recs[i + k].len =< InlineLimit
                         /\ Weight(recs, i, {m \in L : m < k}) + Encoded(recs[i + k].len)
                              =< BatchBytes
  <2>1. {m \in L : m < k} = {m \in K : m < k}
    BY <1>7, <1>8
  <2>2. CASE k = n
    <3>1. {m \in L : m < n} = K
      BY <1>4, <2>1, <2>2
    <3>2. n \in L <=> fits
      BY <1>4, <1>5
    <3> QED BY <2>2, <3>1, <3>2
  <2>3. CASE k < n
    <3>1. k # n
      BY <1>1, <1>4, <2>3
    <3>2. k \in L <=> k \in K
      BY <1>5, <3>1
    <3>3. k \in K <=> /\ recs[i + k].len =< InlineLimit
                      /\ Weight(recs, i, {m \in K : m < k}) + Encoded(recs[i + k].len)
                           =< BatchBytes
      BY <2>3 DEF Cut
    <3> QED BY <2>1, <3>2, <3>3
  <2> QED BY <1>3, <1>8, <2>2, <2>3
<1>9. Cut(recs, i, n + 1, L)
  BY <1>6, <1>8, Zenon DEF Cut
<1> QED BY <1>4, <1>5, <1>9

(* What p is once the attachment at `to` has gone to it. *)
Taken(recs, to, p, q, fits) ==
  /\ q.at = p.at /\ q.rev = p.rev
  /\ q.inlineBytes = p.inlineBytes + IF fits THEN Encoded(recs[to].len) ELSE 0
  /\ ToSet(q.inline) = ToSet(p.inline) \cup IF fits THEN {to} ELSE {}
  /\ ToSet(q.large) = ToSet(p.large) \cup IF fits THEN {} ELSE {to}

LEMMA TakenGathers ==
  ASSUME NEW recs, Dumped(recs), NEW to \in 1..Len(recs), NEW p, Gathered(recs, to, p),
         \A j \in (p.at + 1)..to : recs[j].kind = "att",
         SameRevision(recs[p.at], recs[to]),
         NEW fits \in BOOLEAN,
         fits <=> /\ recs[to].len =< InlineLimit
                  /\ p.inlineBytes + Encoded(recs[to].len) =< BatchBytes,
         NEW q, Taken(recs, to, p, q, fits)
  PROVE  Gathered(recs, to + 1, q)
<1>1. PICK i \in 1..Len(recs) :
        i = p.at /\ i < to /\ i \in DocsIn(recs) /\ p.rev = recs[i].rev
  BY DEF Gathered, DocsIn
<1>2. Len(recs) \in Nat /\ i \in Nat /\ to \in Nat
  BY DEF Dumped
<1>3. PICK n \in Nat \ {0} : n = to - i /\ i + n = to
  <2>1. to - i \in Nat \ {0} /\ i + (to - i) = to
    BY <1>1, <1>2
  <2> QED BY <2>1
<1>4. n \in AttsAfter(recs, i)
  <2>1. n \in 1..(Len(recs) - i)
    <3>1. i + n \in 1..Len(recs)
      BY <1>3
    <3> QED BY <1>2, <1>3, <3>1
  <2>2. ASSUME NEW m \in 1..n PROVE recs[i + m].kind = "att"
    <3>1. i + m \in (i + 1)..to
      BY <1>2, <1>3
    <3> QED BY <1>1, <3>1
  <2> QED BY <2>1, <2>2 DEF AttsAfter
<1>5. PICK K \in SUBSET AttsAfter(recs, i) :
        /\ Divides(recs, to, p, K) /\ Cut(recs, i, n, K)
        /\ p.inlineBytes = Weight(recs, i, K)
  BY <1>1, <1>3 DEF Gathered, Divides
<1>6. PICK L : L = IF fits THEN K \cup {n} ELSE K
  OBVIOUS
<1>7. n \notin K /\ Cut(recs, i, n + 1, L) /\ L \in SUBSET AttsAfter(recs, i)
  BY <1>3, <1>4, <1>5, <1>6, CutGrows
<1>8. q.inlineBytes = Weight(recs, i, L)
  <2>1. /\ Weight(recs, i, K) \in Nat
        /\ \A k \in AttsAfter(recs, i) \ K :
             Weight(recs, i, K \cup {k}) = Weight(recs, i, K) + Encoded(recs[i + k].len)
    BY Weights
  <2>2. Weight(recs, i, K \cup {n}) = Weight(recs, i, K) + Encoded(recs[to].len)
    BY <1>3, <1>4, <1>7, <2>1
  <2> QED BY <1>5, <1>6, <2>1, <2>2 DEF Taken
<1>9. \A k \in AttsAfter(recs, i) : k \in Nat
  BY Following
<1>10. ASSUME NEW j PROVE j \in ToSet(q.inline) <=> \E k \in L : j = i + k
  <2>1. j \in ToSet(p.inline) <=> \E k \in K : j = i + k
    BY <1>1, <1>5 DEF Divides
  <2>2. j \in ToSet(q.inline) <=> j \in ToSet(p.inline) \/ (fits /\ j = to)
    BY DEF Taken
  <2>3. (\E k \in L : j = i + k) <=> (\E k \in K : j = i + k) \/ (fits /\ j = i + n)
    BY <1>6
  <2> QED BY <1>3, <2>1, <2>2, <2>3
<1>11. ASSUME NEW j
       PROVE  j \in ToSet(q.large) <=>
                \E k \in AttsAfter(recs, i) : j = i + k /\ j < to + 1 /\ k \notin L
  <2>1. j \in ToSet(p.large) <=>
          \E k \in AttsAfter(recs, i) : j = i + k /\ j < to /\ k \notin K
    BY <1>1, <1>5 DEF Divides
  <2>2. j \in ToSet(q.large) <=> j \in ToSet(p.large) \/ (~fits /\ j = to)
    BY DEF Taken
  <2>3. ASSUME NEW k \in AttsAfter(recs, i)
        PROVE  /\ i + k < to + 1 <=> (i + k < to \/ k = n)
               /\ k = n => (k \notin L <=> ~fits)
               /\ k # n => (k \notin L <=> k \notin K)
               /\ k # n \/ ~(i + k < to)
    BY <1>2, <1>3, <1>6, <1>7, <1>9
  <2>4. ASSUME j \in ToSet(q.large)
        PROVE  \E k \in AttsAfter(recs, i) : j = i + k /\ j < to + 1 /\ k \notin L
    <3>1. CASE j \in ToSet(p.large)
      <4>1. PICK k \in AttsAfter(recs, i) : j = i + k /\ j < to /\ k \notin K
        BY <2>1, <3>1
      <4> QED BY <2>3, <4>1
    <3>2. CASE ~fits /\ j = to
      BY <1>3, <1>4, <2>3, <3>2
    <3> QED BY <2>2, <2>4, <3>1, <3>2
  <2>5. ASSUME NEW k \in AttsAfter(recs, i), j = i + k /\ j < to + 1 /\ k \notin L
        PROVE  j \in ToSet(q.large)
    <3>1. CASE k = n
      BY <1>3, <2>2, <2>3, <2>5, <3>1
    <3>2. CASE k # n
      BY <2>1, <2>2, <2>3, <2>5, <3>2
    <3> QED BY <3>1, <3>2
  <2> QED BY <2>4, <2>5
<1>12. Divides(recs, to + 1, q, L)
  <2>1. q.at = i /\ to + 1 - i = n + 1
    BY <1>1, <1>2, <1>3 DEF Taken
  <2>3. \A j : j \in ToSet(q.inline) <=> \E k \in L : j = q.at + k
    BY <1>10, <2>1, Zenon
  <2>4. \A j : j \in ToSet(q.large) <=>
                  \E k \in AttsAfter(recs, q.at) : j = q.at + k /\ j < to + 1 /\ k \notin L
    BY <1>11, <2>1, Zenon
  <2>5. q.inlineBytes = Weight(recs, q.at, L)
    BY <1>8, <2>1
  <2>6. PICK on : on = to + 1
    OBVIOUS
  <2>7. Cut(recs, q.at, on - q.at, L)
    <3>1. on - q.at = n + 1
      BY <1>1, <1>2, <1>3, <2>1, <2>6
    <3> QED BY <1>7, <2>1, <3>1
  <2>8. \A j : j \in ToSet(q.large) <=>
                  \E k \in AttsAfter(recs, q.at) : j = q.at + k /\ j < on /\ k \notin L
    BY <2>4, <2>6, Zenon
  <2>9. Divides(recs, on, q, L)
    BY <2>3, <2>5, <2>7, <2>8, Zenon DEF Divides
  <2> QED BY <2>6, <2>9
<1>13. ASSUME NEW j \in ToSet(q.inline) \cup ToSet(q.large)
       PROVE  SameRevision(recs[i], recs[j])
  <2>1. \A x \in ToSet(p.inline) \cup ToSet(p.large) : SameRevision(recs[i], recs[x])
    BY <1>1 DEF Gathered
  <2>2. j \in ToSet(p.inline) \cup ToSet(p.large) \/ j = to
    BY DEF Taken
  <2> QED BY <1>1, <2>1, <2>2
<1>14. q.at = i /\ q.at \in DocsIn(recs) /\ q.at < to + 1 /\ q.rev = recs[q.at].rev
  BY <1>1, <1>2 DEF Taken
<1> QED BY <1>7, <1>12, <1>13, <1>14, Zenon DEF Gathered

(* An attachment of the document being gathered, which is the last of the batch. *)
LEMMA Attaching ==
  ASSUME RestoreInv, Reading, AtAtt, ~Stray
  PROVE  /\ phase = "read" /\ writing = <<>> /\ outcome = "running"
         /\ pos \in 1..Len(Recs) /\ pos \in AttsIn(Recs) /\ pos + 1 \in 1..(Len(Recs) + 1)
         /\ pending # <<>> /\ Len(pending) \in Nat \ {0}
         /\ current = pending[Len(pending)].at /\ current \in Nat
         /\ SameRevision(Recs[current], Recs[pos])
         /\ \A j \in (current + 1)..pos : Recs[j].kind = "att"
         /\ \A n \in 1..Len(pending) : n < Len(pending) =>
              pending[n].at # current /\ Closed(Recs, pos, pending[n])
         /\ Recs[pos].len \in Nat /\ Encoded(Recs[pos].len) \in Nat
<1>1. phase = "read" /\ writing = <<>> /\ outcome = "running" /\ pos \in 1..(Len(Recs) + 1)
  BY DEF Reading, RestoreInv, Stage
<1>2. ~(pos > Len(Recs)) /\ Recs[pos].kind = "att"
  BY DEF AtAtt, AtEnd
<1>3. pos \in 1..Len(Recs) /\ pos \in AttsIn(Recs) /\ pos + 1 \in 1..(Len(Recs) + 1)
  BY <1>1, <1>2, BatchIs DEF AttsIn
<1>4. pending # <<>> /\ current = pending[Len(pending)].at /\ current \in Nat
  BY DEF Stray, RestoreInv, Stage, RestoreTypes
<1>5. Len(pending) \in Nat \ {0}
  BY <1>4, BatchIs
<1>6. SameRevision(Recs[current], Recs[pos])
  BY DEF Stray, SameRevision
<1>7. ASSUME NEW j \in (current + 1)..pos PROVE Recs[j].kind = "att"
  <2>1. j \in (current + 1)..(pos - 1) \/ j = pos
    BY <1>3, <1>4
  <2> QED BY <1>2, <1>4, <2>1 DEF RestoreInv, Gathering
<1>8. ASSUME NEW n \in 1..Len(pending), n < Len(pending)
      PROVE  pending[n].at # current /\ Closed(Recs, pos, pending[n])
  <2>1. pending[n].at < current /\ Closed(Recs, pos, pending[n])
    BY <1>8 DEF RestoreInv, Gathering
  <2>2. pending[n].at \in Nat
    BY BatchIs DEF PendingDoc
  <2> QED BY <1>4, <2>1, <2>2
<1>9. Recs[pos].len \in Nat /\ Encoded(Recs[pos].len) \in Nat
  <2>1. Recs[pos].len \in Nat
    BY <1>3, BatchIs DEF Dumped
  <2> QED BY <2>1 DEF Encoded
<1> QED BY <1>1, <1>3, <1>4, <1>5, <1>6, <1>7, <1>8, <1>9

(* The document that takes the attachment.  It fits where it would fit if its
   document were alone: a batch that is too full for it holds no other. *)
LEMMA AttachTakes ==
  ASSUME RestoreInv, Reading, AtAtt, ~Stray, ~(Crowded(pos) /\ Len(pending) >= 2),
         NEW p, p = pending[Len(pending)]
  PROVE  /\ Attach(p, pos) \in PendingDoc
         /\ Attach(p, pos).at = current
         /\ Attach(p, pos).inlineBytes
              = p.inlineBytes + IF Fits(pos) THEN Encoded(Recs[pos].len) ELSE 0
         /\ Gathered(Recs, pos + 1, Attach(p, pos))
         /\ ToSet(p.inline) \cup ToSet(p.large) \cup {pos}
              = ToSet(Attach(p, pos).inline) \cup ToSet(Attach(p, pos).large)
<1> DEFINE q == Attach(p, pos)  e == Encoded(Recs[pos].len)
<1>1. /\ p \in PendingDoc /\ p.at = current /\ pos \in Nat /\ Len(pending) \in Nat \ {0}
      /\ p.inlineBytes \in Nat /\ p.inline \in Seq(Nat) /\ p.large \in Seq(Nat)
      /\ e \in Nat /\ Recs[pos].len \in Nat
  <2>1. /\ Len(pending) \in Nat \ {0} /\ pos \in Nat /\ pending[Len(pending)].at = current
        /\ e \in Nat /\ Recs[pos].len \in Nat
    BY Attaching, BatchIs
  <2>2. Len(pending) \in 1..Len(pending)
    BY <2>1
  <2>3. p \in PendingDoc
    BY <2>2, BatchIs
  <2> QED BY <2>1, <2>3 DEF PendingDoc
<1>0. PICK L \in Nat \ {0} : L = Len(pending) /\ (L # 1 => L >= 2)
  BY <1>1
<1>2. p.inlineBytes =< inlineBytes /\ (Len(pending) = 1 => p.inlineBytes = inlineBytes)
  <2>1. /\ Front(pending) \in Seq(PendingDoc) /\ Len(pending) = Len(Front(pending)) + 1
        /\ \A i \in 1..Len(Front(pending)) : Front(pending)[i] = pending[i]
    BY Attaching, BatchIs, FrontAndLast
  <2>2. PICK qs \in Seq(PendingDoc) :
          /\ qs = Front(pending) /\ Len(pending) = Len(qs) + 1 /\ Len(qs) \in Nat
          /\ \A i \in 1..Len(qs) : pending[i].inlineBytes = qs[i].inlineBytes
    BY <2>1
  <2>3. Inlined(qs) \in Nat /\ Inlined(pending) = Inlined(qs) + p.inlineBytes
    BY <2>2, BatchIs, InlinedOneMore
  <2>4. ASSUME Len(pending) = 1 PROVE Inlined(qs) = 0
    <3>1. Len(qs) = 0
      <4>1. Len(qs) \in Nat /\ L = Len(qs) + 1 /\ L = 1
        BY <1>0, <2>2, <2>4
      <4> QED BY <4>1
    <3>2. qs = <<>>
      BY <3>1
    <3> QED BY <3>2, InlinedNone
  <2>5. inlineBytes = Inlined(pending)
    BY BatchIs
  <2> QED BY <1>1, <2>3, <2>4, <2>5
<1>3. PICK fits \in BOOLEAN : fits <=> Fits(pos)
  BY DEF Fits
<1>4. fits <=> Recs[pos].len =< InlineLimit /\ p.inlineBytes + e =< BatchBytes
  <2>1. inlineBytes \in Nat /\ BatchBytes \in Nat /\ InlineLimit \in Nat
    BY BatchIs, RestoreAssumption
  <2>2. CASE Recs[pos].len =< InlineLimit /\ inlineBytes + e =< BatchBytes
    <3>1. fits
      BY <1>3, <2>2 DEF Fits
    <3>2. p.inlineBytes + e =< BatchBytes
      BY <1>1, <1>2, <2>1, <2>2
    <3> QED BY <2>2, <3>1, <3>2
  <2>3. CASE Recs[pos].len =< InlineLimit /\ ~(inlineBytes + e =< BatchBytes)
    <3>1. ~fits
      BY <1>3, <2>3 DEF Fits
    <3>2. inlineBytes + e > BatchBytes
      BY <1>1, <2>1, <2>3
    <3>3. ~(Len(pending) >= 2)
      BY <2>3, <3>2 DEF Crowded
    <3>4. Len(pending) = 1
      BY <1>0, <3>3
    <3> QED BY <1>2, <2>3, <3>1, <3>4
  <2>4. CASE ~(Recs[pos].len =< InlineLimit)
    BY <1>3, <2>4 DEF Fits
  <2> QED BY <2>2, <2>3, <2>4
<1>5. q = IF fits
            THEN [p EXCEPT !.inline = Append(p.inline, pos),
                           !.inlineBytes = p.inlineBytes + e, !.bytes = p.bytes + e]
            ELSE [p EXCEPT !.large = Append(p.large, pos), !.bytes = p.bytes + Recs[pos].len]
  BY <1>1, <1>3 DEF Attach
<1>6. Append(p.inline, pos) \in Seq(Nat) /\ Append(p.large, pos) \in Seq(Nat)
  <2>1. p.inline \in Seq(Nat) /\ p.large \in Seq(Nat) /\ pos \in Nat
    BY <1>1
  <2>2. \A s \in Seq(Nat), x \in Nat : Append(s, x) \in Seq(Nat)
    OBVIOUS
  <2> QED BY <2>1, <2>2
<1>7. /\ ToSet(Append(p.inline, pos)) = ToSet(p.inline) \cup {pos}
      /\ ToSet(Append(p.large, pos)) = ToSet(p.large) \cup {pos}
  <2>1. p.inline \in Seq(Nat) /\ p.large \in Seq(Nat) /\ pos \in Nat
    BY <1>1
  <2>2. \A s \in Seq(Nat), x \in Nat : ToSet(Append(s, x)) = ToSet(s) \cup {x}
    BY ToSetAppend
  <2> QED BY <2>1, <2>2
<1>8. /\ q \in PendingDoc /\ q.at = current /\ q.rev = p.rev
      /\ q.inline = (IF fits THEN Append(p.inline, pos) ELSE p.inline)
      /\ q.large = (IF fits THEN p.large ELSE Append(p.large, pos))
      /\ q.inlineBytes = p.inlineBytes + IF fits THEN e ELSE 0
  <2>1. p = [at |-> p.at, inline |-> p.inline, large |-> p.large, bytes |-> p.bytes,
             inlineBytes |-> p.inlineBytes, rev |-> p.rev] /\ p.bytes \in Nat /\ p.rev \in Seq(Nat)
    BY <1>1 DEF PendingDoc
  <2>2. p.bytes + e \in Nat /\ p.bytes + Recs[pos].len \in Nat /\ p.inlineBytes + e \in Nat
    BY <1>1, <2>1
  <2> HIDE DEF q, e
  <2>3. CASE fits
    BY <1>1, <1>5, <1>6, <2>1, <2>2, <2>3 DEF PendingDoc
  <2>4. CASE ~fits
    <3>1. q = [p EXCEPT !.large = Append(p.large, pos), !.bytes = p.bytes + Recs[pos].len]
      BY <1>5, <2>4
    <3>2. PICK l \in Seq(Nat), b \in Nat : l = Append(p.large, pos) /\ b = p.bytes + Recs[pos].len
      BY <1>6, <2>2
    <3>3. q = [at |-> p.at, inline |-> p.inline, large |-> l, bytes |-> b,
               inlineBytes |-> p.inlineBytes, rev |-> p.rev]
      BY <2>1, <3>1, <3>2
    <3>4. q \in PendingDoc
      BY <1>1, <2>1, <3>2, <3>3 DEF PendingDoc
    <3>5. q.inlineBytes = p.inlineBytes + IF fits THEN e ELSE 0
      BY <1>1, <2>4, <3>3
    <3> QED BY <1>1, <2>4, <3>2, <3>3, <3>4, <3>5
  <2> QED BY <2>3, <2>4
<1>9. Taken(Recs, pos, p, q, fits)
  <2> HIDE DEF q
  <2>1. CASE fits
    BY <1>1, <1>7, <1>8, <2>1 DEF Taken
  <2>2. CASE ~fits
    BY <1>1, <1>7, <1>8, <2>2 DEF Taken
  <2> QED BY <2>1, <2>2
<1>10. Gathered(Recs, pos + 1, q)
  <2>1. /\ Dumped(Recs) /\ pos \in 1..Len(Recs) /\ Gathered(Recs, pos, p)
        /\ \A j \in (p.at + 1)..pos : Recs[j].kind = "att"
        /\ SameRevision(Recs[p.at], Recs[pos])
    BY <1>1, Attaching, BatchIs
  <2> HIDE DEF q
  <2> QED BY <1>4, <1>9, <2>1, TakenGathers
<1> HIDE DEF q
<1>11. q.inlineBytes = p.inlineBytes + IF Fits(pos) THEN e ELSE 0
  BY <1>3, <1>8
<1>12. ToSet(p.inline) \cup ToSet(p.large) \cup {pos} = ToSet(q.inline) \cup ToSet(q.large)
  BY <1>9 DEF Taken
<1> QED BY <1>8, <1>10, <1>11, <1>12 DEF q

LEMMA ReadAttKeeps == ASSUME RestoreInv, ReadAtt PROVE RestoreInv'
<1>1. UNCHANGED <<target, dump, edits>> /\ flags' = flags /\ phase' = phase
      /\ writing' = writing /\ outcome' = outcome /\ current' = current /\ pos' = pos + 1
      /\ docs' = docs /\ tombs' = tombs /\ atts' = atts + 1
  BY DEF ReadAtt
<1>2. /\ Whole(Recs, held, stored)' /\ Grown' /\ Recs' = Recs
      /\ \A x \in revs' : x = <<x[1], x[2]>> /\ x[2] \in Seq(Nat)
  BY <1>1, ServerStays
<1>3. Reading /\ AtAtt /\ ~Stray /\ ~(Crowded(pos) /\ Len(pending) >= 2)
      /\ held' = held /\ stored' = stored
  BY <1>1 DEF ReadAtt, target
<1>4. /\ phase = "read" /\ writing = <<>> /\ outcome = "running"
      /\ pos \in 1..Len(Recs) /\ pos \in AttsIn(Recs) /\ pos + 1 \in 1..(Len(Recs) + 1)
      /\ pending # <<>> /\ Len(pending) \in Nat \ {0}
      /\ current = pending[Len(pending)].at /\ current \in Nat
      /\ \A j \in (current + 1)..pos : Recs[j].kind = "att"
      /\ \A n \in 1..Len(pending) : n < Len(pending) =>
           pending[n].at # current /\ Closed(Recs, pos, pending[n])
      /\ Recs[pos].len \in Nat /\ Encoded(Recs[pos].len) \in Nat
  BY <1>3, Attaching
<1>5. PICK n \in Nat \ {0} : n = Len(pending)
  BY <1>4
<1>6. PICK p \in PendingDoc : p = pending[n] /\ n \in 1..n
  BY <1>4, <1>5, BatchIs
<1>7. PICK q \in PendingDoc :
        /\ q = Attach(p, pos) /\ q.at = current /\ Gathered(Recs, pos + 1, q)
        /\ q.inlineBytes = p.inlineBytes + IF Fits(pos) THEN Encoded(Recs[pos].len) ELSE 0
        /\ ToSet(p.inline) \cup ToSet(p.large) \cup {pos} = ToSet(q.inline) \cup ToSet(q.large)
  BY <1>3, <1>5, <1>6, AttachTakes
<1>8. \A k \in 1..n : k < n => Attach(pending[k], pos) = pending[k]
  BY <1>4, <1>5 DEF Attach
<1>9. PICK qs \in Seq(PendingDoc) :
        /\ qs = pending' /\ Len(qs) = n /\ qs[n] = q
        /\ \A k \in 1..n : k < n => qs[k] = pending[k]
  <2> DEFINE f == [k \in 1..n |-> Attach(pending[k], pos)]
  <2>1. ASSUME NEW k \in 1..n PROVE Attach(pending[k], pos) \in PendingDoc
    <3>1. CASE k = n
      BY <1>6, <1>7, <3>1
    <3>2. CASE k < n
      BY <1>5, <1>8, <3>2, BatchIs
    <3> QED BY <1>5, <3>1, <3>2
  <2>2. f \in Seq(PendingDoc) /\ Len(f) = n
    BY <2>1
  <2>3. f = pending'
    BY <1>5 DEF ReadAtt
  <2>4. f[n] = q /\ \A k \in 1..n : k < n => f[k] = pending[k]
    BY <1>6, <1>7, <1>8
  <2> HIDE DEF f
  <2> QED BY <2>2, <2>3, <2>4
<1>10. RestoreTypes'
  <2>1. inlineBytes' \in Nat
    <3>1. inlineBytes \in Nat
      BY BatchIs
    <3>2. inlineBytes' = inlineBytes \/ inlineBytes' = inlineBytes + Encoded(Recs[pos].len)
      BY DEF ReadAtt
    <3> QED BY <1>4, <3>1, <3>2
  <2>2. pos' \in Nat
    BY <1>1, <1>4
  <2> QED BY <1>1, <1>2, <1>9, <2>1, <2>2 DEF RestoreInv, RestoreTypes
<1>11. Stage'
  <2>1. qs # <<>> /\ qs[Len(qs)].at = current
    BY <1>5, <1>7, <1>9
  <2>2. (dump.complete \/ flags.partial)'
    BY <1>1, <1>4, Zenon DEF RestoreInv, Stage
  <2>3. pos' \in 1..(Len(Recs') + 1) /\ outcome' = "running" /\ writing' = <<>> /\ phase' = "read"
    BY <1>1, <1>2, <1>4
  <2> QED BY <1>1, <1>9, <2>1, <2>2, <2>3 DEF Stage
<1>12. DocsRead' = DocsRead /\ AttsRead' = AttsRead \cup {pos}
       /\ Cardinality(AttsRead') = Cardinality(AttsRead) + 1
  <2>1. /\ DocsIn(Recs) \subseteq 1..Len(Recs) /\ AttsIn(Recs) \subseteq 1..Len(Recs)
        /\ pos \notin DocsIn(Recs) /\ Len(Recs) \in Nat /\ pos \in Nat
    BY <1>4, BatchIs DEF DocsIn, AttsIn
  <2>2. /\ DocsRead' = {i \in DocsIn(Recs) : i < pos + 1}
        /\ AttsRead' = {i \in AttsIn(Recs) : i < pos + 1}
    BY <1>1, <1>2 DEF DocsRead, AttsRead
  <2>3. DocsRead = {i \in DocsIn(Recs) : i < pos} /\ AttsRead = {i \in AttsIn(Recs) : i < pos}
    BY DEF DocsRead, AttsRead
  <2>4. /\ {i \in AttsIn(Recs) : i < pos + 1} = {i \in AttsIn(Recs) : i < pos} \cup {pos}
        /\ Cardinality({i \in AttsIn(Recs) : i < pos + 1})
             = Cardinality({i \in AttsIn(Recs) : i < pos}) + 1
    <3>1. pos \in AttsIn(Recs)
      BY <1>4
    <3> QED BY <2>1, <3>1, OneMoreRead
  <2>5. {i \in DocsIn(Recs) : i < pos + 1} = {i \in DocsIn(Recs) : i < pos}
    BY <2>1, OneMoreRead
  <2> QED BY <2>2, <2>3, <2>4, <2>5
<1>13. Tally'
  BY <1>1, <1>2, <1>12 DEF RestoreInv, Tally
<1>14. Gathering'
  <2>1. ASSUME NEW k \in 1..n
        PROVE  /\ Gathered(Recs, pos + 1, qs[k])
               /\ k < n => Closed(Recs, pos + 1, qs[k]) /\ qs[k].at < current
    <3>1. CASE k = n
      BY <1>7, <1>9, <3>1
    <3>2. CASE k < n
      <4>1. Gathered(Recs, pos, pending[k]) /\ Dumped(Recs) /\ pos \in Nat /\ pos =< pos + 1
        BY <1>5, BatchIs
      <4>2. Closed(Recs, pos, pending[k]) /\ pending[k].at < current
        BY <1>5, <3>2 DEF RestoreInv, Gathering
      <4>3. Gathered(Recs, pos + 1, pending[k]) /\ Closed(Recs, pos + 1, pending[k])
        BY <1>4, <4>1, <4>2, StaysGathered
      <4> QED BY <1>9, <3>2, <4>2, <4>3
    <3> QED BY <1>5, <3>1, <3>2
  <2>2. \A j \in (current + 1)..(pos + 1 - 1) : Recs[j].kind = "att"
    <3>1. pos + 1 - 1 = pos
      BY <1>4
    <3> QED BY <1>4, <3>1
  <2>3. Recs' = Recs /\ pending' = qs /\ Len(qs) = n /\ current' = current /\ pos' = pos + 1
    BY <1>1, <1>2, <1>9
  <2>4. pos' - 1 = pos + 1 - 1
    BY <1>4, <2>3
  <2>5. (\A j \in (current + 1)..(pos - 1) : Recs[j].kind = "att")'
    BY <2>2, <2>3, <2>4
  <2> QED BY <2>1, <2>3, <2>5 DEF Gathering
<1>15. Sending'
  BY <1>1, <1>4 DEF Sending
<1>16. UnderWay'
  <2>1. UnderWay /\ phase # "bulk" /\ phase # "upload"
    BY <1>4 DEF RestoreInv
  <2>2. ASSUME NEW k \in 1..n
        PROVE  /\ pending[k].at = qs[k].at
               /\ ToSet(pending[k].inline) \cup ToSet(pending[k].large)
                    \subseteq ToSet(qs[k].inline) \cup ToSet(qs[k].large)
    <3>1. CASE k = n
      BY <1>4, <1>5, <1>6, <1>7, <1>9, <3>1
    <3>2. CASE k < n
      BY <1>9, <3>2
    <3> QED BY <1>5, <3>1, <3>2
  <2>3. ASSUME NEW i \in DocsRead' PROVE <<Recs[i].id, Recs[i].rev>> \in held \/ Holds(qs, i)
    <3>1. <<Recs[i].id, Recs[i].rev>> \in held \/ Holds(pending, i)
      BY <1>12, <2>1 DEF UnderWay
    <3> QED BY <1>5, <1>9, <2>2, <3>1 DEF Holds
  <2>4. ASSUME NEW j \in AttsRead' PROVE Attached(stored, Recs[j]) \/ Carried(qs, j)
    <3>1. CASE j = pos
      <4>1. n \in 1..Len(qs) /\ pos \in ToSet(qs[n].inline) \cup ToSet(qs[n].large)
        BY <1>6, <1>7, <1>9
      <4> QED BY <3>1, <4>1 DEF Carried
    <3>2. CASE j \in AttsRead
      <4>1. Attached(stored, Recs[j]) \/ Carried(pending, j)
        BY <2>1, <3>2 DEF UnderWay
      <4> QED BY <1>5, <1>9, <2>2, <4>1 DEF Carried
    <3> QED BY <1>12, <3>1, <3>2
  <2> QED BY <1>2, <1>3, <1>9, <2>3, <2>4 DEF UnderWay
<1>17. Bounded'
  <2>1. PICK fs \in Seq(PendingDoc) :
          /\ n = Len(fs) + 1 /\ Len(fs) \in Nat
          /\ \A i \in 1..Len(fs) : fs[i] = pending[i]
    <3>1. /\ Front(pending) \in Seq(PendingDoc) /\ Len(pending) = Len(Front(pending)) + 1
          /\ \A i \in 1..Len(Front(pending)) : Front(pending)[i] = pending[i]
          /\ Len(Front(pending)) \in Nat
      BY <1>4, BatchIs, FrontAndLast
    <3> QED BY <1>5, <3>1
  <2>2. Inlined(pending) = Inlined(fs) + p.inlineBytes /\ Inlined(fs) \in Nat
    BY <1>5, <1>6, <2>1, BatchIs, InlinedOneMore
  <2>3. Inlined(qs) = Inlined(fs) + q.inlineBytes
    <3>1. \A i \in 1..Len(fs) : qs[i].inlineBytes = fs[i].inlineBytes
      BY <1>9, <2>1
    <3>2. Len(qs) = Len(fs) + 1 /\ qs[Len(qs)] = q
      BY <1>9, <2>1
    <3> QED BY <3>1, <3>2, InlinedOneMore
  <2>4. /\ inlineBytes = Inlined(pending) /\ inlineBytes =< BatchBytes /\ inlineBytes \in Nat
        /\ Len(pending) =< flags.batch /\ p.inlineBytes \in Nat
    BY <1>6, BatchIs DEF PendingDoc
  <2>5. Len(writing) =< flags.batch /\ Inlined(writing) =< BatchBytes
    BY DEF RestoreInv, Bounded, RequestBounded
  <2>6. inlineBytes' = Inlined(qs) /\ inlineBytes' =< BatchBytes
    <3>1. CASE Fits(pos)
      <4>1. /\ inlineBytes' = inlineBytes + Encoded(Recs[pos].len)
            /\ inlineBytes + Encoded(Recs[pos].len) =< BatchBytes
        BY <3>1 DEF ReadAtt, Fits
      <4>2. q.inlineBytes = p.inlineBytes + Encoded(Recs[pos].len)
        BY <1>7, <3>1
      <4> QED BY <1>4, <2>2, <2>3, <2>4, <4>1, <4>2
    <3>2. CASE ~Fits(pos)
      <4>1. inlineBytes' = inlineBytes
        BY <3>2 DEF ReadAtt
      <4>2. q.inlineBytes = p.inlineBytes + 0
        BY <1>7, <3>2
      <4> QED BY <2>2, <2>3, <2>4, <4>1, <4>2
    <3> QED BY <3>1, <3>2
  <2>7. flags' = flags /\ writing' = writing /\ pending' = qs /\ Len(qs) =< flags.batch
    BY <1>1, <1>5, <1>9, <2>4
  <2> QED BY <2>5, <2>6, <2>7 DEF Bounded, RequestBounded
<1>18. AllRestored'
  BY <1>1, <1>4 DEF AllRestored
<1> QED BY <1>2, <1>10, <1>11, <1>13, <1>14, <1>15, <1>16, <1>17, <1>18 DEF RestoreInv

(* The documents ahead of the last are written, and it stays. *)
LEMMA FlushBeforeKeeps == ASSUME RestoreInv, FlushBefore PROVE RestoreInv'
<1>1. UNCHANGED <<target, dump, edits>> /\ flags' = flags /\ phase' = "bulk"
      /\ outcome' = outcome /\ current' = current /\ pos' = pos
      /\ docs' = docs /\ tombs' = tombs /\ atts' = atts
  BY DEF FlushBefore, counts
<1>2. /\ Whole(Recs, held, stored)' /\ Grown' /\ Recs' = Recs
      /\ \A x \in revs' : x = <<x[1], x[2]>> /\ x[2] \in Seq(Nat)
  BY <1>1, ServerStays
<1>3. Reading /\ AtAtt /\ ~Stray /\ held' = held /\ stored' = stored
  BY <1>1 DEF FlushBefore, target
<1>4. /\ phase = "read" /\ writing = <<>> /\ outcome = "running"
      /\ pos \in 1..Len(Recs)
      /\ pending # <<>> /\ Len(pending) \in Nat \ {0}
      /\ current = pending[Len(pending)].at /\ current \in Nat
      /\ \A n \in 1..Len(pending) : n < Len(pending) =>
           pending[n].at # current /\ Closed(Recs, pos, pending[n])
  BY <1>3, Attaching
<1>5. PICK fs \in Seq(PendingDoc), n \in Nat \ {0}, p \in PendingDoc :
        /\ writing' = fs /\ n = Len(pending) /\ n = Len(fs) + 1 /\ Len(fs) \in Nat
        /\ \A i \in 1..Len(fs) : fs[i] = pending[i]
        /\ p = pending[n] /\ pending' = <<p>> /\ inlineBytes' = p.inlineBytes
  <2>1. /\ Front(pending) \in Seq(PendingDoc) /\ Len(pending) = Len(Front(pending)) + 1
        /\ \A i \in 1..Len(Front(pending)) : Front(pending)[i] = pending[i]
        /\ Len(Front(pending)) \in Nat
        /\ Last(pending) = pending[Len(pending)] /\ Last(pending) \in PendingDoc
    BY <1>4, BatchIs, FrontAndLast
  <2>2. /\ writing' = Front(pending) /\ pending' = <<Last(pending)>>
        /\ inlineBytes' = Last(pending).inlineBytes
    BY DEF FlushBefore
  <2> QED BY <1>4, <2>1, <2>2
<1>6. PICK ps \in Seq(PendingDoc) : ps = pending' /\ ps = <<p>> /\ Len(ps) = 1 /\ ps[1] = p
  <2>1. <<p>> \in Seq(PendingDoc) /\ Len(<<p>>) = 1 /\ <<p>>[1] = p
    OBVIOUS
  <2> QED BY <1>5, <2>1
<1>7. n \in 1..Len(pending) /\ p.at = current /\ p.inlineBytes \in Nat
  BY <1>4, <1>5 DEF PendingDoc
<1>8. RestoreTypes'
  BY <1>1, <1>2, <1>5, <1>6, <1>7 DEF RestoreInv, RestoreTypes
<1>9. Stage'
  <2>1. ps # <<>> /\ ps[Len(ps)].at = current
    BY <1>6, <1>7
  <2>2. (dump.complete \/ flags.partial)'
    BY <1>1, <1>4, Zenon DEF RestoreInv, Stage
  <2>3. pos' \in 1..(Len(Recs') + 1) /\ outcome' = "running" /\ phase' = "bulk"
    BY <1>1, <1>2, <1>4 DEF RestoreInv, Stage
  <2> QED BY <1>1, <1>6, <2>1, <2>2, <2>3 DEF Stage
<1>10. UNCHANGED <<DocsRead, AttsRead>>
  BY <1>1, <1>2 DEF DocsRead, AttsRead
<1>11. Tally'
  BY <1>1, <1>2, <1>10 DEF RestoreInv, Tally
<1>12. Gathering'
  <2>1. Gathered(Recs, pos, p) /\ \A j \in (current + 1)..(pos - 1) : Recs[j].kind = "att"
    BY <1>4, <1>5, <1>7 DEF RestoreInv, Gathering
  <2>2. \A k \in 1..Len(ps) : ps[k] = p /\ ~(k < Len(ps))
    BY <1>6
  <2> QED BY <1>1, <1>2, <1>6, <2>1, <2>2 DEF Gathering
<1>13. Sending'
  <2>1. ASSUME NEW k \in 1..Len(fs) PROVE Gathered(Recs, pos, fs[k]) /\ Closed(Recs, pos, fs[k])
    <3>1. k \in 1..Len(pending) /\ k < Len(pending)
      BY <1>5
    <3> QED BY <1>4, <1>5, <3>1, BatchIs
  <2> QED BY <1>1, <1>2, <1>5, <2>1 DEF Sending
<1>14. UnderWay'
  <2>1. UnderWay /\ phase # "bulk" /\ phase # "upload"
    BY <1>4 DEF RestoreInv
  <2>2. \A k \in 1..Len(pending) : k \in 1..Len(fs) \/ k = n
    BY <1>5
  <2>3. ASSUME NEW i \in DocsRead
        PROVE  <<Recs[i].id, Recs[i].rev>> \in held \/ Holds(ps, i) \/ Holds(fs, i)
    <3>1. <<Recs[i].id, Recs[i].rev>> \in held \/ Holds(pending, i)
      BY <2>1 DEF UnderWay
    <3>2. CASE Holds(pending, i)
      <4>1. PICK k \in 1..Len(pending) : pending[k].at = i
        BY <3>2 DEF Holds
      <4>2. CASE k \in 1..Len(fs)
        BY <1>5, <4>1, <4>2 DEF Holds
      <4>3. CASE k = n
        <5>1. 1 \in 1..Len(ps) /\ ps[1].at = i
          BY <1>5, <1>6, <4>1, <4>3
        <5> QED BY <5>1 DEF Holds
      <4> QED BY <2>2, <4>2, <4>3
    <3> QED BY <3>1, <3>2
  <2>4. ASSUME NEW j \in AttsRead
        PROVE  Attached(stored, Recs[j]) \/ Carried(ps, j) \/ Carried(fs, j)
    <3>1. Attached(stored, Recs[j]) \/ Carried(pending, j)
      BY <2>1 DEF UnderWay
    <3>2. CASE Carried(pending, j)
      <4>1. PICK k \in 1..Len(pending) :
              j \in ToSet(pending[k].inline) \cup ToSet(pending[k].large)
        BY <3>2 DEF Carried
      <4>2. CASE k \in 1..Len(fs)
        BY <1>5, <4>1, <4>2 DEF Carried
      <4>3. CASE k = n
        <5>1. 1 \in 1..Len(ps) /\ j \in ToSet(ps[1].inline) \cup ToSet(ps[1].large)
          BY <1>5, <1>6, <4>1, <4>3
        <5> QED BY <5>1 DEF Carried
      <4> QED BY <2>2, <4>2, <4>3
    <3> QED BY <3>1, <3>2
  <2> QED BY <1>1, <1>2, <1>3, <1>5, <1>6, <1>10, <2>3, <2>4 DEF UnderWay
<1>15. Bounded'
  <2>1. Inlined(pending) = Inlined(fs) + p.inlineBytes /\ Inlined(fs) \in Nat
    BY <1>5, BatchIs, InlinedOneMore
  <2>2. Inlined(ps) = 0 + p.inlineBytes
    <3>1. <<>> \in Seq(PendingDoc) /\ Len(<<>>) = 0 /\ Len(ps) = Len(<<>>) + 1
      BY <1>6
    <3>2. \A i \in 1..Len(<<>>) : ps[i].inlineBytes = (<<>>)[i].inlineBytes
      OBVIOUS
    <3>3. Inlined(ps) = Inlined(<<>>) + ps[Len(ps)].inlineBytes
      BY <3>1, <3>2, InlinedOneMore
    <3> QED BY <1>6, <3>3, InlinedNone
  <2>3. /\ inlineBytes = Inlined(pending) /\ inlineBytes =< BatchBytes /\ inlineBytes \in Nat
        /\ Len(pending) =< flags.batch /\ flags.batch \in Nat
    BY BatchIs
  <2>4. Inlined(fs) =< BatchBytes /\ p.inlineBytes =< BatchBytes
    BY <1>7, <2>1, <2>3, RestoreAssumption
  <2>5. Len(fs) =< flags.batch /\ Len(ps) =< flags.batch
    BY <1>5, <1>6, <2>3
  <2>6. inlineBytes' = Inlined(ps)
    BY <1>5, <1>7, <2>2
  <2> QED BY <1>1, <1>5, <1>6, <2>4, <2>5, <2>6 DEF Bounded, RequestBounded
<1>16. AllRestored'
  BY <1>1, <1>4 DEF AllRestored
<1> QED BY <1>2, <1>8, <1>9, <1>11, <1>12, <1>13, <1>14, <1>15, <1>16 DEF RestoreInv

-----------------------------------------------------------------------------
(* Writing a batch.                                                        *)

LEMMA PrefixSelf == ASSUME NEW S, NEW s \in Seq(S) PROVE IsPrefix(s, s)
<1>1. Len(s) \in Nat
  OBVIOUS
<1> QED BY <1>1 DEF IsPrefix

LEMMA PrefixCut ==
  ASSUME NEW S, NEW s \in Seq(S), NEW n \in 1..Len(s)
  PROVE  SubSeq(s, 1, n) \in Seq(S) /\ IsPrefix(SubSeq(s, 1, n), s)
<1>1. Len(s) \in Nat /\ n \in Nat /\ n =< Len(s)
  OBVIOUS
<1>2. \A i \in 1..n : s[i] \in S
  BY <1>1
<1>3. PICK t \in Seq(S) : t = SubSeq(s, 1, n) /\ Len(t) = n
  <2>1. SubSeq(s, 1, n) \in Seq(S) /\ Len(SubSeq(s, 1, n)) = n
    BY <1>1, <1>2
  <2> QED BY <2>1
<1>4. SubSeq(t, 1, n) = t
  BY <1>1, <1>3
<1> QED BY <1>1, <1>3, <1>4 DEF IsPrefix

LEMMA PrefixGrows ==
  ASSUME NEW S, NEW s \in Seq(S), NEW t \in Seq(S), IsPrefix(s, t), NEW x \in S
  PROVE  Append(t, x) \in Seq(S) /\ IsPrefix(s, Append(t, x))
<1>1. PICK u \in Seq(S) : u = Append(t, x) /\ Len(u) = Len(t) + 1
                          /\ \A i \in 1..Len(t) : u[i] = t[i]
  <2>1. /\ Append(t, x) \in Seq(S) /\ Len(Append(t, x)) = Len(t) + 1
        /\ \A i \in 1..Len(t) : Append(t, x)[i] = t[i]
    BY OneLonger
  <2> QED BY <2>1
<1>2. PICK n \in Nat : n = Len(s) /\ n =< Len(t) /\ SubSeq(s, 1, n) = SubSeq(t, 1, n)
  BY DEF IsPrefix
<1>3. Len(t) \in Nat /\ n =< Len(u)
  BY <1>1, <1>2
<1>4. SubSeq(u, 1, n) = SubSeq(t, 1, n)
  BY <1>1, <1>2, <1>3
<1> QED BY <1>1, <1>2, <1>3, <1>4 DEF IsPrefix

(* A document that is about to be written has all of its attachments. *)
LEMMA WrittenWhole ==
  ASSUME NEW recs, Dumped(recs), NEW to \in Nat, NEW p,
         Gathered(recs, to, p), Closed(recs, to, p)
  PROVE  /\ p.at \in DocsIn(recs) /\ p.rev = recs[p.at].rev
         /\ \A j \in ToSet(p.inline) \cup ToSet(p.large) :
              SameRevision(recs[p.at], recs[j]) /\ j \in AttsIn(recs)
         /\ ToSet(p.large) # {} => Overweight(recs, p.at)
         /\ \E K \in SUBSET AttsAfter(recs, p.at) :
              /\ Cut(recs, p.at, Len(recs) + 1, K)
              /\ \A j : j \in ToSet(p.inline) <=> \E k \in K : j = p.at + k
<1>1. PICK i \in DocsIn(recs) :
        i = p.at /\ i < to /\ i \in 1..Len(recs) /\ p.rev = recs[i].rev
  BY DEF Gathered, DocsIn
<1>2. PICK K \in SUBSET AttsAfter(recs, i) : Divides(recs, to, p, K)
  BY <1>1 DEF Gathered
<1>3. \A k \in AttsAfter(recs, i) :
        i + k \in AttsIn(recs) /\ k < to - i /\ k < Len(recs) + 1
  <2> SUFFICES ASSUME NEW k \in AttsAfter(recs, i)
               PROVE  i + k \in AttsIn(recs) /\ k < to - i /\ k < Len(recs) + 1
    OBVIOUS
  <2>1. i + k \in AttsIn(recs) /\ i + k \in 1..Len(recs) /\ k \in Nat
    BY <1>1, Following
  <2>2. i + k < to
    BY <1>1 DEF Closed
  <2>3. i \in Nat /\ Len(recs) \in Nat
    BY <1>1 DEF Dumped
  <2> QED BY <2>1, <2>2, <2>3
<1>4. Cut(recs, i, to - i, K)
  BY <1>1, <1>2 DEF Divides
<1>5. Cut(recs, i, Len(recs) + 1, K)
  BY <1>3, <1>4 DEF Cut
<1>6. \A j : j \in ToSet(p.inline) <=> \E k \in K : j = i + k
  BY <1>1, <1>2 DEF Divides
<1>7. ASSUME NEW j \in ToSet(p.large) PROVE \E k \in AttsAfter(recs, i) : j = i + k /\ k \notin K
  BY <1>1, <1>2 DEF Divides
<1>8. \A j \in ToSet(p.inline) \cup ToSet(p.large) :
        SameRevision(recs[i], recs[j]) /\ j \in AttsIn(recs)
  BY <1>1, <1>3, <1>6, <1>7 DEF Gathered
<1>9. ASSUME ToSet(p.large) # {} PROVE Overweight(recs, i)
  <2>1. PICK k \in AttsAfter(recs, i) : k \notin K
    BY <1>7, <1>9
  <2>2. k < Len(recs) + 1
    BY <1>3
  <2> QED BY <1>5, <2>1, <2>2, LeftOut
<1> QED BY <1>1, <1>5, <1>6, <1>8, <1>9

LEMMA HasMembers == ASSUME NEW S, NEW s \in Seq(S), s # <<>> PROVE ToSet(s) # {}
<1>1. 1 \in DOMAIN s
  OBVIOUS
<1> QED BY <1>1 DEF ToSet

LEMMA MembersAre ==
  ASSUME NEW S, NEW s \in Seq(S)
  PROVE  \A x : x \in ToSet(s) <=> \E n \in 1..Len(s) : x = s[n]
BY DEF ToSet

(* The batch that is written. *)
LEMMA WritingIs ==
  ASSUME RestoreInv, phase = "bulk", NEW p \in ToSet(writing)
  PROVE  p \in PendingDoc /\ Gathered(Recs, pos, p) /\ Closed(Recs, pos, p)
<1>1. PICK n \in 1..Len(writing) : p = writing[n]
  BY BatchIs, MembersAre
<1> QED BY <1>1, BatchIs DEF RestoreInv, Sending

LEMMA AcceptKeeps ==
  ASSUME RestoreInv, phase = "bulk", NEW ps \in SUBSET ToSet(writing), Accept(ps),
         dump' = dump, edits' = edits
  PROVE  /\ Whole(Recs, held, stored)' /\ Grown' /\ Recs' = Recs
         /\ \A x \in revs' : x = <<x[1], x[2]>> /\ x[2] \in Seq(Nat)
         /\ held \subseteq held' /\ stored \subseteq stored'
         /\ \A p \in ps : /\ <<Recs[p.at].id, Recs[p.at].rev>> \in held'
                          /\ \A j \in ToSet(p.inline) : Attached(stored', Recs[j])
<1>1. Recs' = Recs /\ Ids' = Ids /\ Dumped(Recs)
  BY BatchIs DEF Recs, Ids
<1>2. \A p \in ps : Gathered(Recs, pos, p) /\ Closed(Recs, pos, p)
  BY WritingIs
<1>3. held \subseteq held' /\ stored \subseteq stored'
  BY DEF Accept
<1>4. ASSUME NEW p \in ps
      PROVE  /\ p.at \in DocsIn(Recs) /\ p.rev = Recs[p.at].rev /\ IdOf(p) = Recs[p.at].id
             /\ Recs[p.at].rev \in Seq(Nat)
  <2>1. p.at \in DocsIn(Recs) /\ p.rev = Recs[p.at].rev
    BY <1>2 DEF Gathered
  <2>2. Recs[p.at].rev \in Seq(Nat \ {0})
    BY <1>1, <2>1 DEF Dumped
  <2> QED BY <2>1, <2>2 DEF IdOf
<1>5. \A x \in revs' : x = <<x[1], x[2]>> /\ x[2] \in Seq(Nat)
  <2> SUFFICES ASSUME NEW x \in revs' PROVE x = <<x[1], x[2]>> /\ x[2] \in Seq(Nat)
    OBVIOUS
  <2>1. CASE x \in revs
    BY <2>1 DEF RestoreInv, RestoreTypes
  <2>2. CASE x \notin revs
    <3>1. PICK p \in ps : x \in History(IdOf(p), p.rev)
      BY <2>2 DEF Accept
    <3>2. PICK n \in 1..Len(p.rev) : x = <<IdOf(p), SubSeq(p.rev, 1, n)>>
      BY <3>1 DEF History
    <3>3. SubSeq(p.rev, 1, n) \in Seq(Nat)
      BY <1>4, PrefixCut
    <3> QED BY <3>2, <3>3
  <2> QED BY <2>1, <2>2
<1>6. Grown'
  <2>1. SUFFICES ASSUME edits = 0, NEW x \in revs', x[1] \in Ids PROVE From(Recs, x)
    BY <1>1 DEF Grown
  <2>2. CASE x \in revs
    BY <2>1, <2>2 DEF RestoreInv, Grown
  <2>3. CASE x \notin revs
    <3>1. PICK p \in ps : x \in History(IdOf(p), p.rev)
      BY <2>3 DEF Accept
    <3>2. PICK n \in 1..Len(p.rev) : x = <<IdOf(p), SubSeq(p.rev, 1, n)>>
      BY <3>1 DEF History
    <3>3. IsPrefix(SubSeq(p.rev, 1, n), p.rev)
      BY <1>4, PrefixCut
    <3> QED BY <1>4, <3>2, <3>3 DEF From
  <2> QED BY <2>2, <2>3
<1>7. ASSUME NEW p \in ps, NEW k \in AttsAfter(Recs, p.at), NEW j, j = p.at + k,
             j \in ToSet(p.inline)
      PROVE  <<Recs[p.at].id, Recs[p.at].rev, Recs[j].name>> \in stored'
  <2>1. CASE <<IdOf(p), p.rev>> \notin held
    <3> DEFINE name(i) == <<IdOf(p), p.rev, Recs[i].name>>
    <3>1. name(j) \in {name(i) : i \in ToSet(p.inline)}
      BY <1>7
    <3>2. p \in New(ps)
      BY <2>1 DEF New
    <3>3. name(j) \in UNION {{<<IdOf(q), q.rev, Recs[i].name>> : i \in ToSet(q.inline)} : q \in New(ps)}
      BY <3>1, <3>2
    <3> QED BY <1>4, <3>3 DEF Accept
  <2>2. CASE <<IdOf(p), p.rev>> \in held
    <3>1. p.at \in DocsIn(Recs) /\ <<Recs[p.at].id, Recs[p.at].rev>> \in held
      BY <1>4, <2>2
    <3>2. PICK K \in SUBSET AttsAfter(Recs, p.at) :
            /\ Cut(Recs, p.at, Len(Recs) + 1, K)
            /\ \A i : i \in ToSet(p.inline) <=> \E x \in K : i = p.at + x
      BY <1>1, <1>2, BatchIs, WrittenWhole
    <3>3. PICK x \in K : j = p.at + x
      BY <1>7, <3>2
    <3>4. <<Recs[p.at].id, Recs[p.at].rev, Recs[p.at + x].name>> \in stored
      BY <3>1, <3>2 DEF RestoreInv, Whole
    <3> QED BY <1>3, <3>3, <3>4
  <2> QED BY <2>1, <2>2
<1>8. ASSUME NEW p \in ps, NEW j \in ToSet(p.inline)
      PROVE  <<Recs[p.at].id, Recs[p.at].rev, Recs[j].name>> \in stored'
  <2>1. PICK K \in SUBSET AttsAfter(Recs, p.at) :
            \A i : i \in ToSet(p.inline) <=> \E x \in K : i = p.at + x
    BY <1>1, <1>2, BatchIs, WrittenWhole
  <2>2. PICK k \in K : j = p.at + k
    BY <2>1
  <2> QED BY <1>7, <2>2
<1>9. ASSUME NEW p \in ps
      PROVE  /\ <<Recs[p.at].id, Recs[p.at].rev>> \in held'
             /\ \A j \in ToSet(p.inline) : Attached(stored', Recs[j])
  <2>1. <<Recs[p.at].id, Recs[p.at].rev>> \in held'
    BY <1>4 DEF Accept
  <2>2. ASSUME NEW j \in ToSet(p.inline) PROVE Attached(stored', Recs[j])
    <3>1. SameRevision(Recs[p.at], Recs[j])
      BY <1>2 DEF Gathered
    <3>2. IsPrefix(Recs[p.at].rev, Recs[p.at].rev)
      BY <1>4, PrefixSelf
    <3>3. PICK x : x \in stored' /\ x = <<Recs[p.at].id, Recs[p.at].rev, Recs[j].name>>
      BY <1>8
    <3>4. x[1] = Recs[j].id /\ x[3] = Recs[j].name /\ IsPrefix(Recs[j].rev, x[2])
      BY <3>1, <3>2, <3>3 DEF SameRevision
    <3> QED BY <3>3, <3>4 DEF Attached
  <2> QED BY <2>1, <2>2
<1>10. Whole(Recs, held, stored)'
  <2>1. SUFFICES ASSUME NEW i \in DocsIn(Recs), <<Recs[i].id, Recs[i].rev>> \in held',
                        NEW K \in SUBSET AttsAfter(Recs, i), Cut(Recs, i, Len(Recs) + 1, K),
                        NEW k \in K
                 PROVE  <<Recs[i].id, Recs[i].rev, Recs[i + k].name>> \in stored'
    BY <1>1 DEF Whole
  <2>2. CASE <<Recs[i].id, Recs[i].rev>> \in held
    <3>1. <<Recs[i].id, Recs[i].rev, Recs[i + k].name>> \in stored
      BY <2>1, <2>2 DEF RestoreInv, Whole
    <3> QED BY <1>3, <3>1
  <2>3. CASE <<Recs[i].id, Recs[i].rev>> \notin held
    <3>1. PICK p \in ps : <<Recs[i].id, Recs[i].rev>> = <<IdOf(p), p.rev>>
      BY <2>1, <2>3 DEF Accept
    <3>2. p.at \in DocsIn(Recs) /\ SameRevision(Recs[i], Recs[p.at])
      BY <1>4, <3>1 DEF SameRevision
    <3>3. Alike(Recs, i, p.at) /\ i \in 1..Len(Recs)
      BY <1>1, <3>2 DEF Dumped, DocsIn
    <3>4. PICK L \in SUBSET AttsAfter(Recs, p.at) :
            /\ Cut(Recs, p.at, Len(Recs) + 1, L)
            /\ \A j : j \in ToSet(p.inline) <=> \E x \in L : j = p.at + x
      BY <1>1, <1>2, BatchIs, WrittenWhole
    <3>5. \A x \in AttsAfter(Recs, i) : x < Len(Recs) + 1
      <4>1. i \in 1..Len(Recs) /\ Len(Recs) \in Nat
        BY <3>3, BatchIs
      <4>2. AttsAfter(Recs, i) \subseteq 1..(Len(Recs) - i)
        BY <1>1, <4>1, Following
      <4> QED BY <4>1, <4>2
    <3>6. K = L
      BY <1>1, <2>1, <3>2, <3>4, <3>5, CutsAgree
    <3>7. p.at + k \in ToSet(p.inline) /\ k \in AttsAfter(Recs, p.at)
      BY <3>4, <3>6
    <3>8. <<Recs[p.at].id, Recs[p.at].rev, Recs[p.at + k].name>> \in stored'
      BY <1>8, <3>7
    <3>9. Recs[i + k].name = Recs[p.at + k].name
      BY <3>3 DEF Alike
    <3> QED BY <3>2, <3>8, <3>9 DEF SameRevision
  <2> QED BY <2>2, <2>3
<1> QED BY <1>1, <1>3, <1>5, <1>6, <1>9, <1>10

LEMMA AttachedGrows ==
  ASSUME NEW S, NEW T, S \subseteq T, NEW r, Attached(S, r)
  PROVE  Attached(T, r)
BY DEF Attached

(* A revision that the dump does not name leaves what is held of it whole. *)
LEMMA WholeStays ==
  ASSUME NEW recs, NEW has, NEW with, Whole(recs, has, with), NEW y,
         \A i \in DocsIn(recs) : y # <<recs[i].id, recs[i].rev>>,
         NEW more, with \subseteq more
  PROVE  Whole(recs, has \cup {y}, more)
<1> SUFFICES ASSUME NEW i \in DocsIn(recs), <<recs[i].id, recs[i].rev>> \in has \cup {y},
                    NEW K \in SUBSET AttsAfter(recs, i), Cut(recs, i, Len(recs) + 1, K),
                    NEW k \in K
             PROVE  <<recs[i].id, recs[i].rev, recs[i + k].name>> \in more
  BY DEF Whole
<1>1. <<recs[i].id, recs[i].rev>> \in has
  OBVIOUS
<1>2. <<recs[i].id, recs[i].rev, recs[i + k].name>> \in with
  BY <1>1 DEF Whole
<1> QED BY <1>2

(* A step of the writing of a batch, which reads nothing. *)
LEMMA WritingStep ==
  ASSUME RestoreInv, UNCHANGED <<dump, flags, pos, batch, counts, outcome, edits>>,
         phase # "idle", phase' \in {"read", "upload"}, phase' = "read" => writing' = <<>>,
         writing' \in Seq(PendingDoc), Len(writing') =< Len(writing),
         Inlined(writing') \in Nat, Inlined(writing') =< Inlined(writing),
         Inlined(writing) \in Nat,
         \A x \in revs' : x = <<x[1], x[2]>> /\ x[2] \in Seq(Nat)
  PROVE  /\ RestoreTypes' /\ Stage' /\ Tally' /\ Gathering' /\ Bounded' /\ AllRestored'
         /\ UNCHANGED <<Recs, DocsRead, AttsRead, Ids, pending>>
<1>1. UNCHANGED <<Recs, DocsRead, AttsRead, Ids, pending, inlineBytes, current, docs, tombs, atts>>
  BY DEF Recs, DocsRead, AttsRead, Ids, batch, counts
<1>2. RestoreTypes'
  BY <1>1 DEF RestoreInv, RestoreTypes
<1>3. Stage'
  <2>1. (dump.complete \/ flags.partial)'
    BY Zenon DEF RestoreInv, Stage
  <2>2. /\ pos \in 1..(Len(Recs) + 1) /\ outcome = "running" /\ phase' # "idle"
    BY DEF RestoreInv, Stage
  <2>3. /\ pending = <<>> => current = 0
        /\ pending # <<>> => current = pending[Len(pending)].at
    BY DEF RestoreInv, Stage
  <2> QED BY <1>1, <2>1, <2>2, <2>3 DEF Stage
<1>4. Tally' /\ Gathering'
  BY <1>1 DEF RestoreInv, Tally, Gathering
<1>5. Bounded'
  <2>1. /\ Len(writing) =< flags.batch /\ Inlined(writing) =< BatchBytes
        /\ inlineBytes = Inlined(pending)
        /\ Len(pending) =< flags.batch /\ inlineBytes =< BatchBytes
    BY DEF RestoreInv, Bounded, RequestBounded
  <2>2. Len(writing') =< flags.batch
    <3>1. Len(writing') \in Nat /\ Len(writing) \in Nat /\ flags.batch \in Nat
      BY BatchIs
    <3> QED BY <2>1, <3>1
  <2>3. Inlined(writing') =< BatchBytes
    BY <2>1, RestoreAssumption
  <2> QED BY <1>1, <2>1, <2>2, <2>3 DEF Bounded, RequestBounded
<1>6. AllRestored'
  BY DEF RestoreInv, Stage, AllRestored
<1> QED BY <1>1, <1>2, <1>3, <1>4, <1>5, <1>6

LEMMA InlinedIs == ASSUME NEW ps \in Seq(PendingDoc) PROVE Inlined(ps) \in Nat
<1>1. IsFiniteSet(1..Len(ps)) /\ \A k \in 1..Len(ps) : Bytes(ps)[k] \in Nat
  BY BytesAre
<1>2. PICK f, S : f = Bytes(ps) /\ S = 1..Len(ps)
  OBVIOUS
<1>3. Total(f, S) \in Nat
  BY <1>1, <1>2, TotalGrows
<1> QED BY <1>2, <1>3, BytesAre

LEMMA BulkDocsKeeps == ASSUME RestoreInv, BulkDocs PROVE RestoreInv'
<1>1. /\ phase = "bulk" /\ phase' = "upload" /\ writing' = writing /\ Accept(ToSet(writing))
      /\ UNCHANGED <<dump, flags, pos, batch, counts, outcome, edits>>
  BY DEF BulkDocs
<1>2. /\ Whole(Recs, held, stored)' /\ Grown'
      /\ \A x \in revs' : x = <<x[1], x[2]>> /\ x[2] \in Seq(Nat)
      /\ held \subseteq held' /\ stored \subseteq stored'
      /\ \A p \in ToSet(writing) :
           /\ <<Recs[p.at].id, Recs[p.at].rev>> \in held'
           /\ \A j \in ToSet(p.inline) : Attached(stored', Recs[j])
  BY <1>1, AcceptKeeps
<1>3. /\ writing \in Seq(PendingDoc) /\ Len(writing) \in Nat /\ Len(writing) =< Len(writing)
      /\ Inlined(writing) \in Nat /\ Inlined(writing) =< Inlined(writing)
  <2>1. writing \in Seq(PendingDoc) /\ Inlined(writing) \in Nat
    BY BatchIs, InlinedIs
  <2> QED BY <2>1
<1>4. /\ RestoreTypes' /\ Stage' /\ Tally' /\ Gathering' /\ Bounded' /\ AllRestored'
      /\ UNCHANGED <<Recs, DocsRead, AttsRead, Ids, pending>>
  BY <1>1, <1>2, <1>3, WritingStep
<1>5. Sending'
  <2>1. ASSUME NEW n \in 1..Len(writing) PROVE Uploads(Recs, writing[n])
    <3>1. PICK p \in ToSet(writing) : p = writing[n]
      BY BatchIs, MembersAre
    <3>2. p \in PendingDoc /\ Gathered(Recs, pos, p) /\ Closed(Recs, pos, p) /\ Dumped(Recs)
          /\ pos \in Nat
      BY <1>1, BatchIs, WritingIs
    <3>3. /\ p.at \in DocsIn(Recs) /\ p.rev = Recs[p.at].rev
          /\ \A j \in ToSet(p.inline) \cup ToSet(p.large) :
               SameRevision(Recs[p.at], Recs[j]) /\ j \in AttsIn(Recs)
          /\ ToSet(p.large) # {} => Overweight(Recs, p.at)
      BY <3>2, WrittenWhole
    <3>4. p.rev \in Seq(Nat) /\ p.large \in Seq(Nat)
      BY <3>2 DEF PendingDoc
    <3>5. IsPrefix(Recs[p.at].rev, p.rev)
      BY <3>3, <3>4, PrefixSelf
    <3>6. p.large # <<>> => Overweight(Recs, p.at)
      BY <3>3, <3>4, HasMembers
    <3> QED BY <3>1, <3>3, <3>5, <3>6 DEF Uploads
  <2> QED BY <1>1, <1>4, <2>1 DEF Sending
<1>6. UnderWay'
  <2>1. UnderWay /\ phase # "upload"
    BY <1>1 DEF RestoreInv
  <2>2. ASSUME NEW i \in DocsRead PROVE <<Recs[i].id, Recs[i].rev>> \in held' \/ Holds(pending, i)
    <3>1. <<Recs[i].id, Recs[i].rev>> \in held \/ Holds(pending, i) \/ Holds(writing, i)
      BY <2>1 DEF UnderWay
    <3>2. CASE Holds(writing, i)
      <4>1. PICK n \in 1..Len(writing) : writing[n].at = i
        BY <3>2 DEF Holds
      <4>2. writing[n] \in ToSet(writing)
        BY <1>3, MembersAre
      <4> QED BY <1>2, <4>1, <4>2
    <3> QED BY <1>2, <3>1, <3>2
  <2>3. ASSUME NEW j \in AttsRead
        PROVE  Attached(stored', Recs[j]) \/ Carried(pending, j) \/ Spilled(writing, j)
    <3>1. Attached(stored, Recs[j]) \/ Carried(pending, j) \/ Carried(writing, j)
      BY <2>1 DEF UnderWay
    <3>2. CASE Attached(stored, Recs[j])
      BY <1>2, <3>2, AttachedGrows
    <3>3. CASE Carried(writing, j)
      <4>1. PICK n \in 1..Len(writing) :
              j \in ToSet(writing[n].inline) \cup ToSet(writing[n].large)
        BY <3>3 DEF Carried
      <4>2. writing[n] \in ToSet(writing)
        BY <1>3, MembersAre
      <4> QED BY <1>2, <4>1, <4>2 DEF Spilled
    <3> QED BY <3>1, <3>2, <3>3
  <2> QED BY <1>1, <1>4, <2>2, <2>3 DEF UnderWay
<1> QED BY <1>2, <1>4, <1>5, <1>6 DEF RestoreInv

LEMMA BulkRejectedKeeps == ASSUME RestoreInv, BulkRejected PROVE RestoreInv'
<1>1. PICK taken \in SUBSET ToSet(writing) : Accept(taken)
  BY DEF BulkRejected
<1>2. phase = "bulk" /\ Exit("rejected") /\ dump' = dump /\ edits' = edits
  BY DEF BulkRejected, Exit
<1>3. /\ Whole(Recs, held, stored)' /\ Grown'
      /\ \A x \in revs' : x = <<x[1], x[2]>> /\ x[2] \in Seq(Nat)
  BY <1>1, <1>2, AcceptKeeps
<1>4. AllRestored'
  BY <1>2 DEF Exit, AllRestored
<1> QED BY <1>2, <1>3, <1>4, ExitKeeps

LEMMA HeadAndTail ==
  ASSUME NEW S, NEW s \in Seq(S), s # <<>>
  PROVE  /\ Head(s) = s[1] /\ Head(s) \in S /\ Tail(s) \in Seq(S)
         /\ Len(s) \in Nat \ {0} /\ Len(Tail(s)) \in Nat /\ Len(s) = Len(Tail(s)) + 1
         /\ \A n \in 1..Len(Tail(s)) : Tail(s)[n] = s[n + 1]
         /\ \A n \in 1..Len(s) : n = 1 \/ \E m \in 1..Len(Tail(s)) : n = m + 1
<1>1. /\ Head(s) = s[1] /\ Head(s) \in S /\ Tail(s) \in Seq(S)
      /\ Len(s) \in Nat \ {0} /\ Len(s) = Len(Tail(s)) + 1 /\ Len(Tail(s)) \in Nat
      /\ \A n \in 1..Len(Tail(s)) : Tail(s)[n] = s[n + 1]
  OBVIOUS
<1>2. ASSUME NEW n \in 1..Len(s), n # 1 PROVE \E m \in 1..Len(Tail(s)) : n = m + 1
  <2>1. n - 1 \in 1..Len(Tail(s)) /\ n = (n - 1) + 1
    BY <1>1, <1>2
  <2> QED BY <2>1
<1> QED BY <1>1, <1>2

LEMMA DocWrittenKeeps == ASSUME RestoreInv, DocWritten PROVE RestoreInv'
<1>1. /\ phase = "upload"
      /\ UNCHANGED <<target, dump, flags, pos, batch, counts, outcome, edits>>
  BY DEF DocWritten
<1>2. /\ Whole(Recs, held, stored)' /\ Grown' /\ Recs' = Recs
      /\ \A x \in revs' : x = <<x[1], x[2]>> /\ x[2] \in Seq(Nat)
  BY <1>1, ServerStays
<1>3. writing \in Seq(PendingDoc) /\ Inlined(writing) \in Nat /\ held' = held /\ stored' = stored
  BY <1>1, BatchIs, InlinedIs DEF target
<1>4. UnderWay /\ phase # "bulk"
  BY <1>1 DEF RestoreInv
<1>5. CASE writing = <<>>
  <2>1. phase' = "read" /\ writing' = writing /\ Len(writing) =< Len(writing)
        /\ Inlined(writing) =< Inlined(writing)
    BY <1>3, <1>5 DEF DocWritten
  <2>2. /\ RestoreTypes' /\ Stage' /\ Tally' /\ Gathering' /\ Bounded' /\ AllRestored'
        /\ UNCHANGED <<Recs, DocsRead, AttsRead, Ids, pending>>
    BY <1>1, <1>2, <1>3, <1>5, <2>1, WritingStep
  <2>3. Sending'
    BY <1>5, <2>1 DEF Sending
  <2>4. UnderWay'
    <3>1. \A j : ~Spilled(writing, j)
      BY <1>5 DEF Spilled
    <3>2. ASSUME NEW i \in DocsRead PROVE <<Recs[i].id, Recs[i].rev>> \in held \/ Holds(pending, i)
      BY <1>4 DEF UnderWay
    <3>3. ASSUME NEW j \in AttsRead PROVE Attached(stored, Recs[j]) \/ Carried(pending, j)
      BY <1>4, <3>1 DEF UnderWay
    <3> QED BY <1>3, <2>2, <3>2, <3>3 DEF UnderWay
  <2> QED BY <1>2, <2>2, <2>3, <2>4 DEF RestoreInv
<1>6. CASE writing # <<>>
  <2>1. phase' = "upload" /\ writing' = Tail(writing) /\ Head(writing).large = <<>>
    BY <1>1, <1>6 DEF DocWritten
  <2>2. /\ Head(writing) = writing[1] /\ Tail(writing) \in Seq(PendingDoc)
        /\ Len(writing) \in Nat \ {0} /\ Len(Tail(writing)) \in Nat
        /\ Len(writing) = Len(Tail(writing)) + 1
        /\ \A n \in 1..Len(Tail(writing)) : Tail(writing)[n] = writing[n + 1]
        /\ \A n \in 1..Len(writing) : n = 1 \/ \E m \in 1..Len(Tail(writing)) : n = m + 1
    BY <1>3, <1>6, HeadAndTail
  <2>3. PICK ws \in Seq(PendingDoc) :
          /\ ws = writing' /\ Len(ws) \in Nat /\ Len(writing) = Len(ws) + 1
          /\ \A n \in 1..Len(ws) : ws[n] = writing[n + 1] /\ n + 1 \in 1..Len(writing)
          /\ \A n \in 1..Len(writing) : n = 1 \/ \E m \in 1..Len(ws) : n = m + 1
    <3>1. PICK ws \in Seq(PendingDoc) : ws = Tail(writing)
      BY <2>2
    <3>2. /\ ws = writing' /\ Len(ws) \in Nat /\ Len(writing) = Len(ws) + 1
          /\ \A n \in 1..Len(ws) : ws[n] = writing[n + 1]
          /\ \A n \in 1..Len(writing) : n = 1 \/ \E m \in 1..Len(ws) : n = m + 1
      BY <2>1, <2>2, <3>1
    <3>3. \A n \in 1..Len(ws) : n + 1 \in 1..Len(writing)
      BY <3>2
    <3> QED BY <3>2, <3>3
  <2>4. Inlined(ws) \in Nat /\ Inlined(ws) =< Inlined(writing) /\ Len(ws) =< Len(writing)
    BY <1>3, <1>6, <2>1, <2>3, InlinedTail
  <2>5. /\ RestoreTypes' /\ Stage' /\ Tally' /\ Gathering' /\ Bounded' /\ AllRestored'
        /\ UNCHANGED <<Recs, DocsRead, AttsRead, Ids, pending>>
    <3>1. phase # "idle" /\ phase' \in {"read", "upload"} /\ (phase' = "read" => writing' = <<>>)
      BY <1>1, <2>1
    <3> QED BY <1>1, <1>2, <1>3, <2>3, <2>4, <3>1, WritingStep
  <2>6. Sending'
    <3>1. \A n \in 1..Len(writing) : Uploads(Recs, writing[n])
      BY <1>1 DEF RestoreInv, Sending
    <3>2. \A n \in 1..Len(ws) : Uploads(Recs, ws[n])
      BY <2>3, <3>1
    <3> QED BY <1>2, <2>1, <2>3, <3>2 DEF Sending
  <2>7. UnderWay'
    <3>1. ASSUME NEW i \in DocsRead PROVE <<Recs[i].id, Recs[i].rev>> \in held \/ Holds(pending, i)
      BY <1>4 DEF UnderWay
    <3>2. ASSUME NEW j \in AttsRead
          PROVE  Attached(stored, Recs[j]) \/ Carried(pending, j) \/ Spilled(ws, j)
      <4>1. Attached(stored, Recs[j]) \/ Carried(pending, j) \/ Spilled(writing, j)
        BY <1>4 DEF UnderWay
      <4>2. CASE Spilled(writing, j)
        <5>1. PICK n \in 1..Len(writing) : j \in ToSet(writing[n].large)
          BY <4>2 DEF Spilled
        <5>2. n # 1
          <6>1. ToSet(<<>>) = {}
            BY DEF ToSet
          <6> QED BY <2>1, <2>2, <5>1, <6>1
        <5>3. PICK m \in 1..Len(ws) : n = m + 1
          BY <2>3, <5>2
        <5> QED BY <2>3, <5>1, <5>3 DEF Spilled
      <4> QED BY <4>1, <4>2
    <3> QED BY <1>3, <2>1, <2>3, <2>5, <3>1, <3>2 DEF UnderWay
  <2> QED BY <1>2, <2>5, <2>6, <2>7 DEF RestoreInv
<1> QED BY <1>5, <1>6

(* A revision made on top of another, by an upload or by somebody else. *)
LEMMA NotDumped ==
  ASSUME NEW recs, Dumped(recs), NEW t \in Seq(Nat), NEW x \in Nat,
         \A i \in DocsIn(recs) : x \notin ToSet(recs[i].rev), NEW id, NEW i \in DocsIn(recs)
  PROVE  <<id, Append(t, x)>> # <<recs[i].id, recs[i].rev>>
<1>1. ToSet(Append(t, x)) = ToSet(t) \cup {x}
  BY ToSetAppend
<1> QED BY <1>1

LEMMA UploadKeeps == ASSUME RestoreInv, Upload PROVE RestoreInv'
<1>1. /\ phase = "upload" /\ phase' = "upload" /\ writing # <<>> /\ Head(writing).large # <<>>
      /\ UNCHANGED <<dump, flags, pos, batch, counts, outcome, edits>>
  BY DEF Upload, Uploading
<1>2. PICK ts \in Seq(PendingDoc), p \in PendingDoc :
        /\ p = Head(writing) /\ p = writing[1] /\ ts = Tail(writing)
        /\ Len(ts) \in Nat /\ Len(writing) = Len(ts) + 1
        /\ \A n \in 1..Len(ts) : ts[n] = writing[n + 1]
        /\ \A n \in 1..Len(writing) : n = 1 \/ \E m \in 1..Len(ts) : n = m + 1
  <2>1. writing \in Seq(PendingDoc) /\ writing # <<>>
    BY <1>1, BatchIs
  <2>2. /\ Head(writing) = writing[1] /\ Head(writing) \in PendingDoc
        /\ Tail(writing) \in Seq(PendingDoc) /\ Len(Tail(writing)) \in Nat
        /\ Len(writing) = Len(Tail(writing)) + 1
        /\ \A n \in 1..Len(Tail(writing)) : Tail(writing)[n] = writing[n + 1]
        /\ \A n \in 1..Len(writing) : n = 1 \/ \E m \in 1..Len(Tail(writing)) : n = m + 1
    BY <2>1, HeadAndTail
  <2> QED BY <2>2
<1>3. /\ Dumped(Recs) /\ Uploads(Recs, p) /\ p.rev \in Seq(Nat) /\ p.large \in Seq(Nat)
      /\ p.large # <<>>
  <2>1. 1 \in 1..Len(writing)
    BY <1>2
  <2>2. Uploads(Recs, p)
    BY <1>1, <1>2, <2>1 DEF RestoreInv, Sending
  <2> QED BY <1>1, <1>2, <2>2, BatchIs DEF PendingDoc
<1>4. PICK large \in Seq(Nat), j \in Nat :
        /\ j = Head(p.large) /\ large = Tail(p.large) /\ Len(p.large) = Len(large) + 1
        /\ \A x : x \in ToSet(p.large) <=> x = j \/ x \in ToSet(large)
  <2>1. PICK s \in Seq(Nat) : s = p.large
    BY <1>3
  <2>2. /\ Head(s) = s[1] /\ Head(s) \in Nat /\ Tail(s) \in Seq(Nat)
        /\ Len(s) \in Nat \ {0} /\ Len(Tail(s)) \in Nat /\ Len(s) = Len(Tail(s)) + 1
        /\ \A n \in 1..Len(Tail(s)) : Tail(s)[n] = s[n + 1]
        /\ \A n \in 1..Len(s) : n = 1 \/ \E m \in 1..Len(Tail(s)) : n = m + 1
    BY <1>3, <2>1, HeadAndTail
  <2>3. PICK t \in Seq(Nat) : t = Tail(s)
    BY <2>2
  <2>4. \A x : /\ x \in ToSet(s) <=> \E n \in 1..Len(s) : x = s[n]
               /\ x \in ToSet(t) <=> \E n \in 1..Len(t) : x = t[n]
    BY MembersAre
  <2>5. \A n \in 1..Len(t) : n + 1 \in 1..Len(s)
    BY <2>2, <2>3
  <2>6. \A x : x \in ToSet(s) <=> x = Head(s) \/ x \in ToSet(t)
    <3> SUFFICES ASSUME NEW x PROVE x \in ToSet(s) <=> x = Head(s) \/ x \in ToSet(t)
      OBVIOUS
    <3>1. ASSUME x \in ToSet(s) PROVE x = Head(s) \/ x \in ToSet(t)
      <4>1. PICK n \in 1..Len(s) : x = s[n]
        BY <2>4, <3>1
      <4>2. CASE n = 1
        BY <2>2, <4>1, <4>2
      <4>3. CASE \E m \in 1..Len(t) : n = m + 1
        <5>1. PICK m \in 1..Len(t) : n = m + 1
          BY <4>3
        <5>2. t[m] = x
          BY <2>2, <2>3, <4>1, <5>1
        <5> QED BY <2>4, <5>2
      <4> QED BY <2>2, <2>3, <4>2, <4>3
    <3>2. ASSUME x = Head(s) PROVE x \in ToSet(s)
      <4>1. 1 \in 1..Len(s) /\ x = s[1]
        BY <2>2, <3>2
      <4> QED BY <2>4, <4>1
    <3>3. ASSUME x \in ToSet(t) PROVE x \in ToSet(s)
      <4>1. PICK n \in 1..Len(t) : x = t[n]
        BY <2>4, <3>3
      <4>2. n + 1 \in 1..Len(s) /\ x = s[n + 1]
        BY <2>2, <2>3, <2>5, <4>1
      <4> QED BY <2>4, <4>2
    <3> QED BY <3>1, <3>2, <3>3
  <2> QED BY <2>1, <2>2, <2>3, <2>6
<1>5. /\ p.at \in DocsIn(Recs) /\ IsPrefix(Recs[p.at].rev, p.rev) /\ Overweight(Recs, p.at)
      /\ \A x \in ToSet(p.large) : x \in AttsIn(Recs) /\ SameRevision(Recs[p.at], Recs[x])
      /\ Recs[p.at].rev \in Seq(Nat)
  <2>1. /\ p.at \in DocsIn(Recs) /\ IsPrefix(Recs[p.at].rev, p.rev) /\ Overweight(Recs, p.at)
        /\ \A x \in ToSet(p.large) : x \in AttsIn(Recs) /\ SameRevision(Recs[p.at], Recs[x])
    BY <1>3 DEF Uploads
  <2>2. Recs[p.at].rev \in Seq(Nat \ {0})
    BY <1>3, <2>1 DEF Dumped
  <2> QED BY <2>1, <2>2
<1>6. j \in AttsIn(Recs) /\ SameRevision(Recs[p.at], Recs[j]) /\ Recs[j].name \in Nat
  BY <1>3, <1>4, <1>5 DEF Dumped
<1>7. PICK new \in Seq(Nat) :
        new = Append(p.rev, Recs[j].name) /\ IsPrefix(Recs[p.at].rev, new)
  <2>1. p.rev \in Seq(Nat) /\ Recs[j].name \in Nat
    BY <1>3, <1>6
  <2>2. \A t \in Seq(Nat), x \in Nat : IsPrefix(Recs[p.at].rev, t) =>
          Append(t, x) \in Seq(Nat) /\ IsPrefix(Recs[p.at].rev, Append(t, x))
    BY <1>5, PrefixGrows
  <2> QED BY <1>5, <2>1, <2>2
<1>0. PICK id : id = Recs[p.at].id
  OBVIOUS
<1>8. PICK q \in PendingDoc :
        /\ q = [p EXCEPT !.rev = new, !.large = large]
        /\ q.at = p.at /\ q.rev = new /\ q.large = large /\ q.inlineBytes = p.inlineBytes
  <2>1. p = [at |-> p.at, inline |-> p.inline, large |-> p.large, bytes |-> p.bytes,
             inlineBytes |-> p.inlineBytes, rev |-> p.rev]
    BY <1>2 DEF PendingDoc
  <2>2. /\ p.at \in Nat /\ p.inline \in Seq(Nat) /\ p.bytes \in Nat
        /\ p.inlineBytes \in Nat
    BY <1>2 DEF PendingDoc
  <2>3. PICK q : q = [p EXCEPT !.rev = new, !.large = large]
    OBVIOUS
  <2>4. q = [at |-> p.at, inline |-> p.inline, large |-> large, bytes |-> p.bytes,
             inlineBytes |-> p.inlineBytes, rev |-> new]
    BY <2>1, <2>3
  <2>5. q \in PendingDoc
    BY <2>2, <2>4 DEF PendingDoc
  <2>6. q.at = p.at /\ q.rev = new /\ q.large = large /\ q.inlineBytes = p.inlineBytes
    BY <2>4
  <2> QED BY <2>3, <2>5, <2>6
<1>9. /\ revs' = revs \cup {<<id, new>>} /\ held' = held \cup {<<id, new>>}
      /\ stored \subseteq stored' /\ <<id, new, Recs[j].name>> \in stored'
      /\ writing' = <<q>> \o ts
  BY <1>0, <1>2, <1>4, <1>7, <1>8 DEF Upload, IdOf
<1>10. PICK ws \in Seq(PendingDoc) :
         /\ ws = writing' /\ Len(ws) = Len(writing) /\ ws[1] = q
         /\ \A m \in 1..Len(ts) : ws[m + 1] = ts[m]
  <2>1. /\ <<q>> \o ts \in Seq(PendingDoc) /\ Len(<<q>> \o ts) = 1 + Len(ts)
        /\ (<<q>> \o ts)[1] = q /\ \A m \in 1..Len(ts) : (<<q>> \o ts)[m + 1] = ts[m]
    <3>1. <<q>> \in Seq(PendingDoc) /\ Len(<<q>>) = 1 /\ <<q>>[1] = q
      OBVIOUS
    <3> QED BY <1>2, <3>1
  <2>2. 1 + Len(ts) = Len(writing)
    BY <1>2
  <2> QED BY <1>9, <2>1, <2>2
<1>11. /\ Inlined(ws) = Inlined(writing) /\ Inlined(writing) \in Nat /\ Inlined(ws) \in Nat
       /\ Inlined(ws) =< Inlined(writing) /\ Len(ws) =< Len(writing)
  <2>1. writing \in Seq(PendingDoc) /\ Inlined(writing) \in Nat /\ Len(writing) \in Nat
    BY BatchIs, InlinedIs
  <2>2. ASSUME NEW n \in 1..Len(writing) PROVE ws[n].inlineBytes = writing[n].inlineBytes
    <3>1. CASE n = 1
      BY <1>2, <1>8, <1>10, <3>1
    <3>2. CASE \E m \in 1..Len(ts) : n = m + 1
      BY <1>2, <1>10, <3>2
    <3> QED BY <1>2, <3>1, <3>2
  <2>3. Inlined(ws) = Inlined(writing)
    BY <1>10, <2>1, <2>2, InlinedSame
  <2> QED BY <1>10, <2>1, <2>3
<1>12. \A x \in revs' : x = <<x[1], x[2]>> /\ x[2] \in Seq(Nat)
  <2> SUFFICES ASSUME NEW x \in revs' PROVE x = <<x[1], x[2]>> /\ x[2] \in Seq(Nat)
    OBVIOUS
  <2>1. CASE x \in revs
    BY <2>1 DEF RestoreInv, RestoreTypes
  <2>2. CASE x = <<id, new>>
    BY <2>2
  <2> QED BY <1>9, <2>1, <2>2
<1>13. /\ RestoreTypes' /\ Stage' /\ Tally' /\ Gathering' /\ Bounded' /\ AllRestored'
       /\ UNCHANGED <<Recs, DocsRead, AttsRead, Ids, pending>>
  <2>1. phase # "idle" /\ phase' \in {"read", "upload"} /\ (phase' = "read" => writing' = <<>>)
    BY <1>1
  <2> QED BY <1>1, <1>10, <1>11, <1>12, <2>1, WritingStep
<1>14. Whole(Recs, held, stored)'
  <2>1. \A i \in DocsIn(Recs) : Recs[j].name \notin ToSet(Recs[i].rev)
    BY <1>3, <1>6 DEF Dumped
  <2>2. \A i \in DocsIn(Recs) : <<id, new>> # <<Recs[i].id, Recs[i].rev>>
    BY <1>3, <1>6, <1>7, <2>1, NotDumped
  <2>3. Whole(Recs, held, stored)
    BY DEF RestoreInv
  <2>4. Whole(Recs, held \cup {<<id, new>>}, stored')
    BY <1>9, <2>2, <2>3, WholeStays
  <2> QED BY <1>9, <1>13, <2>4
<1>15. Grown'
  <2>1. SUFFICES ASSUME edits = 0, NEW x \in revs', x[1] \in Ids PROVE From(Recs, x)
    BY <1>1, <1>13 DEF Grown
  <2>2. CASE x \in revs
    BY <2>1, <2>2 DEF RestoreInv, Grown
  <2>3. CASE x = <<id, new>>
    BY <1>0, <1>5, <1>7, <2>3 DEF From
  <2> QED BY <1>9, <2>2, <2>3
<1>16. Sending'
  <2>1. ASSUME NEW n \in 1..Len(writing) PROVE Uploads(Recs, ws[n])
    <3>1. CASE n = 1
      <4>1. \A x \in ToSet(large) : x \in AttsIn(Recs) /\ SameRevision(Recs[p.at], Recs[x])
        BY <1>4, <1>5
      <4> QED BY <1>5, <1>7, <1>8, <1>10, <3>1, <4>1 DEF Uploads
    <3>2. CASE \E m \in 1..Len(ts) : n = m + 1
      <4>1. ws[n] = writing[n]
        BY <1>2, <1>10, <3>2
      <4> QED BY <1>1, <4>1 DEF RestoreInv, Sending
    <3> QED BY <1>2, <3>1, <3>2
  <2> QED BY <1>1, <1>10, <1>13, <2>1 DEF Sending
<1>17. UnderWay'
  <2>1. UnderWay /\ phase # "bulk"
    BY <1>1 DEF RestoreInv
  <2>2. ASSUME NEW i \in DocsRead PROVE <<Recs[i].id, Recs[i].rev>> \in held' \/ Holds(pending, i)
    <3>1. <<Recs[i].id, Recs[i].rev>> \in held \/ Holds(pending, i)
      BY <2>1 DEF UnderWay
    <3> QED BY <1>9, <3>1
  <2>3. ASSUME NEW k \in AttsRead
        PROVE  Attached(stored', Recs[k]) \/ Carried(pending, k) \/ Spilled(ws, k)
    <3>1. Attached(stored, Recs[k]) \/ Carried(pending, k) \/ Spilled(writing, k)
      BY <2>1 DEF UnderWay
    <3>2. CASE Attached(stored, Recs[k])
      BY <1>9, <3>2, AttachedGrows
    <3>3. CASE Spilled(writing, k)
      <4>1. PICK n \in 1..Len(writing) : k \in ToSet(writing[n].large)
        BY <3>3 DEF Spilled
      <4>2. CASE n = 1
        <5>1. k = j \/ k \in ToSet(large)
          BY <1>2, <1>4, <4>1, <4>2
        <5>2. CASE k = j
          <6>1. PICK x : x \in stored' /\ x = <<id, new, Recs[j].name>>
            BY <1>9
          <6>2. x[1] = Recs[k].id /\ x[3] = Recs[k].name /\ IsPrefix(Recs[k].rev, x[2])
            BY <1>0, <1>6, <1>7, <5>2, <6>1 DEF SameRevision
          <6> QED BY <6>1, <6>2 DEF Attached
        <5>3. CASE k \in ToSet(large)
          BY <1>8, <1>10, <4>2, <5>3 DEF Spilled
        <5> QED BY <5>1, <5>2, <5>3
      <4>3. CASE \E m \in 1..Len(ts) : n = m + 1
        <5>1. ws[n] = writing[n]
          BY <1>2, <1>10, <4>3
        <5> QED BY <1>10, <4>1, <5>1 DEF Spilled
      <4> QED BY <1>2, <4>2, <4>3
    <3> QED BY <3>1, <3>2, <3>3
  <2> QED BY <1>1, <1>10, <1>13, <2>2, <2>3 DEF UnderWay
<1> QED BY <1>13, <1>14, <1>15, <1>16, <1>17 DEF RestoreInv

(* Another client's edit. *)
LEMMA EditKeeps == ASSUME RestoreInv, NEW y \in revs, Edit(y) PROVE RestoreInv'
<1>1. /\ UNCHANGED <<dump, phase, flags, pos, batch, writing, counts, outcome>>
      /\ edits' = edits + 1 /\ edits' # 0 /\ edits' \in Nat
  <2>1. edits \in Nat
    BY DEF RestoreInv, RestoreTypes
  <2> QED BY <2>1 DEF Edit, control
<1>2. UNCHANGED <<Recs, DocsRead, AttsRead, pending, inlineBytes, current, docs, tombs, atts>>
  BY <1>1 DEF Recs, DocsRead, AttsRead, batch, counts
<1>3. PICK new \in Seq(Nat) :
        /\ new = Append(y[2], 0) /\ y[2] \in Seq(Nat)
        /\ revs' = revs \cup {<<y[1], new>>} /\ held' = held \cup {<<y[1], new>>}
        /\ stored \subseteq stored'
  <2>1. y[2] \in Seq(Nat)
    BY DEF RestoreInv, RestoreTypes
  <2>2. \A t \in Seq(Nat) : Append(t, 0) \in Seq(Nat)
    OBVIOUS
  <2> QED BY <2>1, <2>2 DEF Edit
<1>4. Dumped(Recs)
  BY BatchIs
<1>5. \A x \in revs' : x = <<x[1], x[2]>> /\ x[2] \in Seq(Nat)
  <2> SUFFICES ASSUME NEW x \in revs' PROVE x = <<x[1], x[2]>> /\ x[2] \in Seq(Nat)
    OBVIOUS
  <2>1. CASE x \in revs
    BY <2>1 DEF RestoreInv, RestoreTypes
  <2>2. CASE x = <<y[1], new>>
    BY <2>2
  <2> QED BY <1>3, <2>1, <2>2
<1>6. RestoreTypes' /\ Stage' /\ Tally' /\ Gathering' /\ Sending'
  <2>1. RestoreTypes' /\ Tally' /\ Gathering' /\ Sending'
    BY <1>1, <1>2, <1>5 DEF RestoreInv, RestoreTypes, Tally, Gathering, Sending
  <2>2. Stage'
    BY <1>1, <1>2 DEF RestoreInv, Stage
  <2> QED BY <2>1, <2>2
<1>7. Whole(Recs, held, stored)'
  <2>1. ASSUME NEW i \in DocsIn(Recs) PROVE 0 \notin ToSet(Recs[i].rev)
    <3>1. Recs[i].rev \in Seq(Nat \ {0})
      BY <1>4 DEF Dumped
    <3>2. PICK s \in Seq(Nat \ {0}) : s = Recs[i].rev
      BY <3>1
    <3>3. \A x \in ToSet(s) : x \in Nat \ {0}
      BY MembersAre
    <3> QED BY <3>2, <3>3
  <2>2. \A i \in DocsIn(Recs) : <<y[1], new>> # <<Recs[i].id, Recs[i].rev>>
    BY <1>3, <1>4, <2>1, NotDumped
  <2>3. Whole(Recs, held, stored)
    BY DEF RestoreInv
  <2>4. Whole(Recs, held \cup {<<y[1], new>>}, stored')
    BY <1>3, <2>2, <2>3, WholeStays
  <2> QED BY <1>2, <1>3, <2>4
<1>8. Grown'
  BY <1>1 DEF Grown
<1>9. \A r : Attached(stored, r) => Attached(stored', r)
  BY <1>3, AttachedGrows
<1>10. UnderWay'
  <2>1. UnderWay
    BY DEF RestoreInv
  <2>2. ASSUME NEW i \in DocsRead
        PROVE  \/ <<Recs[i].id, Recs[i].rev>> \in held' \/ Holds(pending, i)
               \/ (phase = "bulk" /\ Holds(writing, i))
    BY <1>3, <2>1 DEF UnderWay
  <2>3. ASSUME NEW j \in AttsRead
        PROVE  \/ Attached(stored', Recs[j]) \/ Carried(pending, j)
               \/ (phase = "bulk" /\ Carried(writing, j))
               \/ (phase = "upload" /\ Spilled(writing, j))
    BY <1>9, <2>1 DEF UnderWay
  <2> QED BY <1>1, <1>2, <2>2, <2>3 DEF UnderWay
<1>11. Bounded'
  BY <1>1, <1>2 DEF RestoreInv, Bounded, RequestBounded
<1>12. AllRestored'
  <2>1. SUFFICES ASSUME outcome = "done" PROVE AllRestored'
    BY <1>1 DEF AllRestored
  <2>2. /\ \A i \in DocsIn(Recs) : <<Recs[i].id, Recs[i].rev>> \in held
        /\ \A i \in AttsIn(Recs) : Attached(stored, Recs[i])
    BY <2>1 DEF RestoreInv, AllRestored, Attached
  <2>3. /\ \A i \in DocsIn(Recs) : <<Recs[i].id, Recs[i].rev>> \in held'
        /\ \A i \in AttsIn(Recs) : Attached(stored', Recs[i])
    BY <1>3, <1>9, <2>2
  <2>4. AllRestored
    BY DEF RestoreInv
  <2> QED BY <1>1, <1>2, <2>1, <2>3, <2>4 DEF AllRestored, Attached
<1> QED BY <1>6, <1>7, <1>8, <1>10, <1>11, <1>12 DEF RestoreInv

-----------------------------------------------------------------------------
LEMMA RestoreStepKeeps == RestoreInv /\ [RestoreNext]_restoreVars => RestoreInv'
<1> SUFFICES ASSUME RestoreInv, [RestoreNext]_restoreVars PROVE RestoreInv'
  OBVIOUS
<1>1. CASE UNCHANGED restoreVars
  <2>1. UNCHANGED <<revs, held, stored, dump, phase, flags, pos, pending, inlineBytes,
                    current, writing, docs, tombs, atts, outcome, edits>>
    BY <1>1 DEF restoreVars
  <2>2. UNCHANGED <<Recs, DocsRead, AttsRead, Ids>>
    BY <2>1 DEF Recs, DocsRead, AttsRead, Ids
  <2>3. RestoreTypes' /\ Stage' /\ Tally' /\ Gathering' /\ Sending'
    BY <2>1, <2>2 DEF RestoreInv, RestoreTypes, Stage, Tally, Gathering, Sending
  <2>4. Whole(Recs, held, stored)' /\ UnderWay' /\ Grown' /\ Bounded' /\ AllRestored'
    BY <2>1, <2>2 DEF RestoreInv, UnderWay, Grown, Bounded, RequestBounded, AllRestored
  <2> QED BY <2>3, <2>4 DEF RestoreInv
<1>2. ASSUME NEW f \in Flags, Run(f) PROVE RestoreInv'
  BY <1>2, RunKeeps
<1>3. CASE PrepareTarget
  BY <1>3, PrepareTargetKeeps
<1>4. CASE RefuseTarget
  BY <1>4, FailureKeeps DEF RefuseTarget
<1>5. CASE Flush
  BY <1>5, FlushKeeps
<1>6. CASE ReadDoc
  BY <1>6, ReadDocKeeps
<1>7. CASE RefuseAtt
  BY <1>7, FailureKeeps DEF RefuseAtt
<1>8. CASE FlushBefore
  BY <1>8, FlushBeforeKeeps
<1>9. CASE ReadAtt
  BY <1>9, ReadAttKeeps
<1>10. CASE BulkDocs
  BY <1>10, BulkDocsKeeps
<1>11. CASE BulkRejected
  BY <1>11, BulkRejectedKeeps
<1>12. CASE DocWritten
  BY <1>12, DocWrittenKeeps
<1>13. CASE Upload
  BY <1>13, UploadKeeps
<1>14. CASE UploadConflict
  BY <1>14, FailureKeeps DEF UploadConflict
<1>15. CASE Finish
  BY <1>15, FinishKeeps
<1>16. CASE Stop
  BY <1>16, FailureKeeps DEF Stop
<1>17. ASSUME NEW x \in revs, Edit(x) PROVE RestoreInv'
  BY <1>17, EditKeeps
<1> QED BY <1>1, <1>2, <1>3, <1>4, <1>5, <1>6, <1>7, <1>8, <1>9, <1>10, <1>11, <1>12,
           <1>13, <1>14, <1>15, <1>16, <1>17 DEF RestoreNext, Restoring

(* The invariant holds of every restore. *)
THEOREM RestoreHolds == RestoreSpec => []RestoreInv
BY RestoreInitially, RestoreStepKeeps, PTL DEF RestoreSpec

(* A restore that reports success has put every document of the dump in the
   target under its revision, and every attachment on that revision or on one
   grown from it, whatever the batches, the earlier runs and the other clients
   were; and without --partial the totals of the footer are those of the file. *)
THEOREM EverythingRestored == RestoreSpec => []AllRestored
<1>1. RestoreInv => AllRestored
  BY DEF RestoreInv
<1> QED BY <1>1, RestoreHolds, PTL

(* A restore that nobody else interferes with makes up no revision, save on top
   of a document whose attachments no one request could carry. *)
THEOREM RevisionsKept == RestoreSpec => []RevisionKept
<1>1. RestoreInv => RevisionKept
  BY DEF RestoreInv, Grown, From, RevisionKept
<1> QED BY <1>1, RestoreHolds, PTL

(* No request holds more documents than --batch or more base64 than the bound. *)
THEOREM RequestsBounded == RestoreSpec => []RequestBounded
<1>1. RestoreInv => RequestBounded
  BY DEF RestoreInv, Bounded
<1> QED BY <1>1, RestoreHolds, PTL

=============================================================================
