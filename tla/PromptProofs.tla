---------------------------- MODULE PromptProofs ----------------------------
(***************************************************************************)
(* Proofs about Prompt: what holds of the watch and of the names kept for  *)
(* completion, for every value of the constants.                           *)
(***************************************************************************)
EXTENDS Prompt, FiniteSetTheorems, SequenceTheorems, WellFoundedInduction, TLAPS

-----------------------------------------------------------------------------
(* The watch.                                                              *)

(* What the watch knows: a task it has seen was this compaction, which has then
   begun, or somebody else's; and it looks at nothing before it has asked. *)
Seen ==
  /\ own \in {"none", "queued", "running", "over"}
  /\ seen => own \in {"running", "over"} \/ stranger
  /\ step \in {"cleanup", "poll", "pause"} => own # "none"
  /\ step \in {"confirm", "post", "cleanup"} => ~seen

WatchInv == Seen /\ FinishedIsTrue

LEMMA WatchInitially == WatchInit => WatchInv
BY DEF WatchInit, WatchInv, Seen, FinishedIsTrue

(* Every step of the watch, of the server and of the rest keeps it. *)
LEMMA WatchStep == WatchInv /\ [WatchNext]_watchVars => WatchInv'
<1> SUFFICES ASSUME WatchInv, [WatchNext]_watchVars PROVE WatchInv'
  OBVIOUS
<1> USE DEF WatchInv, Seen, FinishedIsTrue, Late
<1>1. CASE Advance
  BY <1>1 DEF Advance, Moves
<1>2. CASE AdvanceTheirs
  BY <1>2 DEF AdvanceTheirs
<1>3. CASE Confirm
  BY <1>3 DEF Confirm
<1>4. CASE Post
  BY <1>4 DEF Post, AfterPost
<1>5. CASE ViewCleanup
  BY <1>5 DEF ViewCleanup, AfterCleanup
<1>6. CASE Poll
  BY <1>6 DEF Poll, CompactionTasks, Over
<1>7. CASE Pause
  BY <1>7 DEF Pause
<1>8. CASE Slow
  BY <1>8 DEF Slow
<1>9. CASE EndWatch
  BY <1>9 DEF EndWatch, Watching
<1>10. CASE UNCHANGED watchVars
  BY <1>10 DEF watchVars
<1> QED
  BY <1>1, <1>2, <1>3, <1>4, <1>5, <1>6, <1>7, <1>8, <1>9, <1>10 DEF WatchNext

(* A compaction is said to be finished only when it is, or when nothing the
   server lists could have told better, for every length of the window. *)
THEOREM FinishedIsFinished == Spec => []FinishedIsTrue
<1>1. Init => WatchInv
  BY WatchInitially DEF Init
<1>2. WatchInv /\ [Next]_vars => WatchInv'
  <2> SUFFICES ASSUME WatchInv, [Next]_vars PROVE WatchInv'
    OBVIOUS
  <2>1. [WatchNext]_watchVars
    BY DEF Next, vars
  <2> QED
    BY <2>1, WatchStep
<1>3. WatchInv => FinishedIsTrue
  BY DEF WatchInv
<1> QED
  BY <1>1, <1>2, <1>3, PTL DEF Spec

-----------------------------------------------------------------------------
(* The names and fields kept for completion.                               *)

Connected ==
  /\ host \in Hosts
  /\ DOMAIN dbs = Hosts
  /\ DOMAIN last = Hosts

BrowseInv == Connected /\ OwnChangesOffered

LEMMA BrowseInitially == BrowseInit => BrowseInv
<1> SUFFICES ASSUME BrowseInit PROVE BrowseInv
  OBVIOUS
<1>1. Connected
  BY DEF BrowseInit, Hosts, Connected
<1>2. names = NotLoaded /\ DOMAIN fields = {}
  BY DEF BrowseInit
<1> QED
  BY <1>1, <1>2 DEF BrowseInv, OwnChangesOffered

(* What making and removing a database changes. *)
LEMMA CreatedChanges ==
  ASSUME Connected, NEW d, NEW ids, NEW who, Created(host, d, ids, who)
  PROVE  /\ DOMAIN dbs' = Hosts /\ DOMAIN last' = Hosts
         /\ DOMAIN dbs'[host] = DOMAIN dbs[host] \cup {d}
         /\ DOMAIN last'[host] = DOMAIN last[host] \cup {d}
         /\ last'[host][d] = who
         /\ \A e \in DOMAIN last[host] : e # d => last'[host][e] = last[host][e]
BY DEF Connected, Created, With

LEMMA DestroyedChanges ==
  ASSUME Connected, NEW d, NEW who, Destroyed(host, d, who)
  PROVE  /\ DOMAIN dbs' = Hosts /\ DOMAIN last' = Hosts
         /\ DOMAIN dbs'[host] = DOMAIN dbs[host] \ {d}
         /\ DOMAIN last'[host] = DOMAIN last[host] \cup {d}
         /\ last'[host][d] = who
         /\ \A e \in DOMAIN last[host] : e # d => last'[host][e] = last[host][e]
BY DEF Connected, Destroyed, With, Without, Restrict

(* A database that came or went without the session knowing, or after which it
   forgot what it had, leaves nothing false behind. *)
LEMMA ChangeKept ==
  ASSUME BrowseInv, NEW d, NEW who,
         host' = host, DOMAIN dbs' = Hosts, DOMAIN last' = Hosts,
         \A e : e # d => (e \in DOMAIN dbs'[host] <=> e \in DOMAIN dbs[host]),
         DOMAIN last'[host] = DOMAIN last[host] \cup {d},
         last'[host][d] = who,
         \A e \in DOMAIN last[host] : e # d => last'[host][e] = last[host][e],
         names' = NotLoaded \/ (names' = names /\ who # "mine"),
         DOMAIN fields' \subseteq DOMAIN fields,
         \A e \in DOMAIN fields' : fields'[e] = fields[e],
         d \in DOMAIN fields' => who # "mine" \/ d \in DOMAIN dbs'[host]
  PROVE  BrowseInv'
<1>1. Connected'
  BY DEF BrowseInv, Connected
<1>2. \A e : e # d => (Mine(e)' <=> Mine(e)) /\ (Exists(e)' <=> Exists(e))
  BY DEF Mine, Exists
<1>3. who # "mine" => ~Mine(d)'
  BY DEF Mine
<1>4. ASSUME names' # NotLoaded, NEW e \in DOMAIN last'[host], Mine(e)'
      PROVE  e \in names' <=> Exists(e)'
  BY <1>2, <1>3, <1>4 DEF BrowseInv, OwnChangesOffered, Mine
<1>5. ASSUME NEW e \in DOMAIN fields'
      PROVE  fields'[e] = host' /\ (Mine(e)' => Exists(e)')
  BY <1>2, <1>3, <1>5 DEF BrowseInv, OwnChangesOffered, Exists
<1> QED
  BY <1>1, <1>4, <1>5 DEF BrowseInv, OwnChangesOffered

(* One step of the prompt or of the servers keeps it. *)
LEMMA BrowseStep == BrowseInv /\ [BrowseNext]_browseVars => BrowseInv'
<1> SUFFICES ASSUME BrowseInv, [BrowseNext]_browseVars PROVE BrowseInv'
  OBVIOUS
<1>0. Connected
  BY DEF BrowseInv
<1>a. ASSUME NEW d, NEW ids, NEW who, Created(host, d, ids, who), UNCHANGED <<host, fields>>,
             names' = NotLoaded \/ (names' = names /\ who # "mine")
      PROVE  BrowseInv'
  BY <1>0, <1>a, CreatedChanges, ChangeKept
<1>b. ASSUME NEW d, Destroyed(host, d, "other"), UNCHANGED <<host, fields, names>>
      PROVE  BrowseInv'
  BY <1>0, <1>b, DestroyedChanges, ChangeKept
<1>c. ASSUME UNCHANGED <<dbs, host, names, fields, last>> PROVE BrowseInv'
  BY <1>c DEF BrowseInv, Connected, OwnChangesOffered, Mine, Exists
<1>1. CASE Outside
  BY <1>1, <1>a, <1>b DEF Outside
<1>2. ASSUME NEW i, Cd(i) PROVE BrowseInv'
  BY <1>2, <1>c DEF Cd
<1>3. ASSUME NEW i, Rmdir(i) PROVE BrowseInv'
  BY <1>3, <1>c DEF Rmdir
<1>4. ASSUME NEW i, RestoreCreate(i) PROVE BrowseInv'
  BY <1>4, <1>a DEF RestoreCreate
<1>5. ASSUME NEW i, TabFields(i) PROVE BrowseInv'
  <2>1. PICK d : Exists(d) /\ fields' = With(fields, d, host)
    BY <1>5 DEF TabFields
  <2>2. /\ DOMAIN fields' = DOMAIN fields \cup {d} /\ fields'[d] = host
        /\ \A e \in DOMAIN fields : e # d => fields'[e] = fields[e]
    BY <2>1 DEF With
  <2>3. UNCHANGED <<dbs, host, names, last>>
    BY <1>5 DEF TabFields
  <2> QED
    BY <2>1, <2>2, <2>3 DEF BrowseInv, Connected, OwnChangesOffered, Mine, Exists
<1>6. ASSUME NEW i, NEW a \in Answers, Mkdir(i, a) PROVE BrowseInv'
  <2>1. PICK d : Created(host, d, {}, Who(a))
    BY <1>6 DEF Mkdir
  <2>2. UNCHANGED <<host, fields>>
    BY <1>6 DEF Mkdir
  <2>3. names' = NotLoaded \/ (names' = names /\ Who(a) # "mine")
    BY <1>6 DEF Mkdir, InvalidateDatabases, Who
  <2> QED
    BY <2>1, <2>2, <2>3, <1>a
<1>7. ASSUME NEW a \in Answers, ConfirmRmdir(a) PROVE BrowseInv'
  <2>1. CASE a = "done"
    <3>1. /\ Destroyed(host, rmdir.db, "mine") /\ names' = NotLoaded
          /\ fields' = Without(fields, rmdir.db) /\ host' = host
      BY <1>7, <2>1 DEF ConfirmRmdir, Who, InvalidateDatabases
    <3>2. /\ DOMAIN fields' = DOMAIN fields \ {rmdir.db}
          /\ \A e \in DOMAIN fields' : fields'[e] = fields[e]
      BY <3>1 DEF Without, Restrict
    <3>3. /\ DOMAIN dbs' = Hosts /\ DOMAIN last' = Hosts
          /\ DOMAIN dbs'[host] = DOMAIN dbs[host] \ {rmdir.db}
          /\ DOMAIN last'[host] = DOMAIN last[host] \cup {rmdir.db}
          /\ last'[host][rmdir.db] = "mine"
          /\ \A e \in DOMAIN last[host] : e # rmdir.db => last'[host][e] = last[host][e]
      BY <1>0, <3>1, DestroyedChanges
    <3> QED
      BY <3>1, <3>2, <3>3, ChangeKept
  <2>2. CASE a # "done"
    BY <1>7, <2>2, <1>b DEF ConfirmRmdir, Who
  <2> QED
    BY <2>1, <2>2
<1>8. ASSUME NEW a \in Answers, UsersAdd(a) PROVE BrowseInv'
  <2>1. Created(host, Users, {}, Who(a)) /\ UNCHANGED <<host, fields>>
    BY <1>8 DEF UsersAdd
  <2>2. names' = NotLoaded \/ (names' = names /\ Who(a) # "mine")
    BY <1>8 DEF UsersAdd, InvalidateDatabases, Who
  <2> QED
    BY <2>1, <2>2, <1>a
<1>9. CASE EndRmdir
  BY <1>9, <1>c DEF EndRmdir
<1>10. CASE TabNames
  BY <1>10 DEF TabNames, BrowseInv, Connected, OwnChangesOffered, Mine, Exists
<1>11. ASSUME NEW h \in Hosts, Connect(h) PROVE BrowseInv'
  <2>1. DOMAIN fields' = {}
    BY <1>11 DEF Connect, Reset
  <2> QED
    BY <1>11, <2>1 DEF Connect, InvalidateDatabases, BrowseInv, Connected, OwnChangesOffered
<1>12. CASE UNCHANGED browseVars
  BY <1>12, <1>c DEF browseVars
<1> QED
  BY <1>1, <1>2, <1>3, <1>4, <1>5, <1>6, <1>7, <1>8, <1>9, <1>10, <1>11, <1>12
  DEF BrowseNext

(* Completion offers no name that this session's own commands have made stale,
   for every set of servers, paths and dumps and any number of commands. *)
THEOREM OwnChangesAreOffered == Spec => []OwnChangesOffered
<1>1. Init => BrowseInv
  BY BrowseInitially DEF Init
<1>2. BrowseInv /\ [Next]_vars => BrowseInv'
  <2> SUFFICES ASSUME BrowseInv, [Next]_vars PROVE BrowseInv'
    OBVIOUS
  <2>1. [BrowseNext]_browseVars
    BY DEF Next, vars
  <2> QED
    BY <2>1, BrowseStep
<1>3. BrowseInv => OwnChangesOffered
  BY DEF BrowseInv
<1> QED
  BY <1>1, <1>2, <1>3, PTL DEF Spec

-----------------------------------------------------------------------------
(* Where the prompt stands.                                                *)

Less == {p \in Nat \X Nat : p[1] < p[2]}

LEMMA OneByOne ==
  ASSUME NEW T, 0 \in T, \A n \in Nat : n \in T => n + 1 \in T
  PROVE  \A n \in Nat : n \in T
<1> SUFFICES ASSUME Nat \ T # {} PROVE FALSE
  OBVIOUS
<1>1. IsWellFoundedOn(Less, Nat)
  BY NatLessThanWellFounded DEF OpToRel, Less
<1>2. PICK least \in Nat \ T : \A n \in Nat \ T : <<n, least>> \notin Less
  BY <1>1, WFMin
<1>3. least - 1 \in Nat /\ <<least - 1, least>> \in Less
  BY <1>2 DEF Less
<1> QED
  BY <1>2, <1>3

(* What is done to a value one step at a time comes to something. *)
LEMMA Iterated ==
  ASSUME NEW S, NEW start \in S, NEW n \in Nat, NEW F \in [1..n -> [S -> S]]
  PROVE  \E w \in [0..n -> S] : w[0] = start /\ \A i \in 1..n : w[i] = F[i][w[i - 1]]
<1> DEFINE Goes(m, w) == \A i \in 0..m : w[i] = IF i = 0 THEN start ELSE F[i][w[i - 1]]
           T == {m \in Nat : m =< n => \E w \in [0..m -> S] : Goes(m, w)}
<1>1. 0 \in T
  <2>1. [i \in 0..0 |-> start] \in [0..0 -> S] /\ Goes(0, [i \in 0..0 |-> start])
    OBVIOUS
  <2> QED BY <2>1
<1>2. ASSUME NEW m \in Nat, m \in T PROVE m + 1 \in T
  <2>1. SUFFICES ASSUME m + 1 =< n PROVE \E w \in [0..(m + 1) -> S] : Goes(m + 1, w)
    <3> HIDE DEF Goes
    <3> QED BY m + 1 \in Nat
  <2>2. PICK v \in [0..m -> S] : Goes(m, v)
    BY <1>2, <2>1
  <2> DEFINE top == F[m + 1][v[m]]
             w   == [i \in 0..(m + 1) |-> IF i = m + 1 THEN top ELSE v[i]]
  <2>3. top \in S
    <3>1. F[m + 1] \in [S -> S] /\ v[m] \in S
      BY <2>1, <2>2
    <3> QED BY <3>1
  <2> HIDE DEF top
  <2>4. w \in [0..(m + 1) -> S]
    BY <2>2, <2>3
  <2>5. Goes(m + 1, w)
    <3> SUFFICES ASSUME NEW i \in 0..(m + 1)
                 PROVE  w[i] = IF i = 0 THEN start ELSE F[i][w[i - 1]]
      OBVIOUS
    <3>1. CASE i = m + 1
      <4>1. w[i] = top /\ w[i - 1] = v[m] /\ i # 0
        BY <3>1
      <4> QED BY <3>1, <4>1 DEF top
    <3>2. CASE i # m + 1
      <4>1. i \in 0..m /\ w[i] = v[i] /\ (i # 0 => w[i - 1] = v[i - 1])
        BY <3>2
      <4> HIDE DEF w
      <4> QED BY <2>2, <4>1
    <3> QED BY <3>1, <3>2
  <2> QED BY <2>4, <2>5
<1>3. n \in T
  <2> HIDE DEF T
  <2> QED BY <1>1, <1>2, OneByOne
<1>4. PICK w \in [0..n -> S] : Goes(n, w)
  BY <1>3
<1>5. w[0] = start /\ \A i \in 1..n : w[i] = F[i][w[i - 1]]
  BY <1>4
<1> QED
  BY <1>5

Walks == [segs : Seq(Segments), pops : Nat]
Typed(input) == input.abs \in BOOLEAN /\ input.segs \in Seq(Segments)

LEMMA UpIs ==
  ASSUME NEW segs \in Seq(Segments), segs # <<>>
  PROVE  /\ Up(segs) \in Seq(Segments) /\ Len(Up(segs)) = Len(segs) - 1
         /\ \A i \in 1..(Len(segs) - 1) : Up(segs)[i] = segs[i]
<1>1. Len(segs) \in Nat /\ Len(segs) # 0 /\ \A i \in 1..Len(segs) : segs[i] \in Segments
  OBVIOUS
<1>2. Up(segs) = SubSeq(segs, 1, Len(segs) - 1)
  BY DEF Up, Front
<1>3. \A i \in 1..(Len(segs) - 1) : segs[i] \in Segments
  BY <1>1
<1>4. PICK l \in Nat : Len(segs) = l + 1
  BY <1>1, Len(segs) - 1 \in Nat
<1>5. l = Len(segs) - 1 /\ \A i \in 1..l : segs[i] \in Segments
  BY <1>3, <1>4
<1>6. /\ SubSeq(segs, 1, l) \in Seq(Segments)
      /\ Len(SubSeq(segs, 1, l)) = IF 1 <= l THEN l - 1 + 1 ELSE 0
      /\ \A i \in 1..(l - 1 + 1) : SubSeq(segs, 1, l)[i] = segs[1 + i - 1]
  BY <1>4, <1>5, SubSeqProperties
<1> QED
  BY <1>2, <1>4, <1>5, <1>6

LEMMA CollapseTyped ==
  ASSUME NEW segs \in Seq(Segments), NEW owed \in BOOLEAN
  PROVE  CollapseIf(owed, segs) \in Seq(Segments)
<1>1. Len(segs) = 2 => <<segs[1]>> \in Seq(Segments)
  OBVIOUS
<1> QED
  BY <1>1 DEF CollapseIf, CollapseSeparator

LEMMA StepTyped ==
  ASSUME NEW w \in Walks, NEW seg \in Segments
  PROVE  Step(w, seg) \in Walks
<1>1. w.segs \in Seq(Segments) /\ w.pops \in Nat
  BY DEF Walks
<1>2. /\ CollapseIf(w.pops > 0, w.segs) \in Seq(Segments)
      /\ CollapseIf(Settles(w.pops), w.segs) \in Seq(Segments)
  <2>1. (w.pops > 0) \in BOOLEAN /\ Settles(w.pops) \in BOOLEAN
    BY DEF Settles
  <2> QED BY <1>1, <2>1, CollapseTyped
<1>3. Append(CollapseIf(Settles(w.pops), w.segs), seg) \in Seq(Segments)
  BY <1>2, AppendProperties
<1>4. Up(CollapseIf(w.pops > 0, w.segs)) \in Seq(Segments)
  BY <1>2, UpIs DEF Up
<1> QED
  BY <1>1, <1>3, <1>4 DEF Step, Walks

(* The walk over an input, segment by segment. *)
IsWalk(w, base, input) ==
  /\ w \in [0..Len(input.segs) -> Walks]
  /\ w[0].segs = (IF input.abs THEN <<>> ELSE base) /\ w[0].pops = 0
  /\ \A i \in 1..Len(input.segs) : w[i] = Step(w[i - 1], input.segs[i])
  /\ Walked(base, input) = w[Len(input.segs)]

LEMMA WalkIs ==
  ASSUME NEW base \in Seq(Segments), NEW input, Typed(input)
  PROVE  \E w : IsWalk(w, base, input)
<1> DEFINE n     == Len(input.segs)
           start == [segs |-> IF input.abs THEN <<>> ELSE base, pops |-> 0]
           F     == [i \in 1..n |-> [v \in Walks |-> Step(v, input.segs[i])]]
           Is(w) == w = [i \in 0..n |-> IF i = 0 THEN start ELSE Step(w[i - 1], input.segs[i])]
<1>1. n \in Nat /\ input.segs \in [1..n -> Segments] /\ input.abs \in BOOLEAN
  BY DEF Typed
<1>2. start \in Walks
  BY <1>1 DEF Walks
<1> HIDE DEF n, start
<1>3. F \in [1..n -> [Walks -> Walks]]
  BY <1>1, StepTyped
<1>a. \A i \in 1..n : \A v \in Walks : F[i][v] = Step(v, input.segs[i])
  OBVIOUS
<1> HIDE DEF F
<1>4. PICK w \in [0..n -> Walks] : w[0] = start /\ \A i \in 1..n : w[i] = F[i][w[i - 1]]
  <2>1. PICK S : S = Walks
    OBVIOUS
  <2>2. start \in S /\ n \in Nat /\ F \in [1..n -> [S -> S]]
    BY <1>1, <1>2, <1>3, <2>1
  <2>3. \E w \in [0..n -> S] : w[0] = start /\ \A i \in 1..n : w[i] = F[i][w[i - 1]]
    BY <2>2, Iterated
  <2> QED BY <2>1, <2>3
<1>5. PICK g : g = CHOOSE v : Is(v)
  OBVIOUS
<1>6. Is(g)
  <2>1. \A i \in 1..n : i - 1 \in 0..n /\ w[i - 1] \in Walks
    BY <1>1, <1>4
  <2>2. \A i \in 1..n : w[i] = Step(w[i - 1], input.segs[i])
    BY <1>4, <1>a, <2>1
  <2>3. \A i \in 0..n : i = 0 \/ i \in 1..n
    BY <1>1
  <2>4. Is(w)
    BY <1>4, <2>2, <2>3
  <2> HIDE DEF Is
  <2> QED BY <1>5, <2>4
<1>7. g[0] = start /\ \A i \in 1..n : g[i] = Step(g[i - 1], input.segs[i])
  <2>1. \A i \in 0..n : g[i] = IF i = 0 THEN start ELSE Step(g[i - 1], input.segs[i])
    BY <1>6
  <2>2. 0 \in 0..n /\ \A i \in 1..n : i \in 0..n /\ i # 0
    BY <1>1
  <2> HIDE DEF Is
  <2> QED BY <2>1, <2>2
<1>8. g \in [0..n -> Walks]
  <2> DEFINE T == {m \in Nat : m =< n => g[m] \in Walks}
  <2>1. 0 \in T
    BY <1>2, <1>7
  <2>2. ASSUME NEW m \in Nat, m \in T PROVE m + 1 \in T
    <3>1. SUFFICES ASSUME m + 1 =< n PROVE g[m + 1] \in Walks
      OBVIOUS
    <3>2. m + 1 \in 1..n /\ m + 1 - 1 = m /\ g[m] \in Walks
      BY <1>1, <2>2, <3>1
    <3>3. g[m + 1] = Step(g[m], input.segs[m + 1]) /\ input.segs[m + 1] \in Segments
      BY <1>1, <1>7, <3>2
    <3> QED BY <3>2, <3>3, StepTyped
  <2>3. \A m \in Nat : m \in T
    <3> HIDE DEF T
    <3> QED BY <2>1, <2>2, OneByOne
  <2>4. \A m \in 0..n : g[m] \in Walks
    BY <1>1, <2>3
  <2> QED BY <1>6, <2>4
<1>9. Walked(base, input) = g[n]
  BY <1>5 DEF Walked, n, start
<1> QED
  <2>1. g[0].segs = (IF input.abs THEN <<>> ELSE base) /\ g[0].pops = 0
    BY <1>7 DEF start
  <2>2. /\ g \in [0..Len(input.segs) -> Walks]
        /\ \A i \in 1..Len(input.segs) : g[i] = Step(g[i - 1], input.segs[i])
        /\ Walked(base, input) = g[Len(input.segs)]
    BY <1>7, <1>8, <1>9 DEF n
  <2>3. IsWalk(g, base, input)
    BY <2>1, <2>2 DEF IsWalk
  <2> QED BY <2>3

LEMMA WalkOn ==
  ASSUME NEW base \in Seq(Segments), NEW input, Typed(input), ~input.abs,
         NEW n \in Nat, Len(input.segs) = n
  PROVE  \E w \in [0..n -> Walks] :
           /\ w[0].segs = base /\ w[0].pops = 0
           /\ \A i \in 1..n : w[i] = Step(w[i - 1], input.segs[i])
           /\ Walked(base, input) = w[n]
<1>1. PICK w : IsWalk(w, base, input)
  BY WalkIs
<1>2. w[0].segs = base
  BY <1>1 DEF IsWalk
<1> QED
  BY <1>1, <1>2 DEF IsWalk

LEMMA CleanTyped ==
  ASSUME NEW base \in Seq(Segments), NEW input, Typed(input)
  PROVE  Clean(base, input) \in Seq(Segments)
<1>1. PICK n \in Nat : n = Len(input.segs)
  BY DEF Typed
<1>2. PICK w : IsWalk(w, base, input)
  BY WalkIs
<1>3. w \in [0..n -> Walks] /\ Walked(base, input) = w[n]
  BY <1>1, <1>2 DEF IsWalk
<1>4. PICK v \in Walks : v = Walked(base, input)
  BY <1>1, <1>3
<1>5. v.segs \in Seq(Segments) /\ (v.pops > 0) \in BOOLEAN
  BY DEF Walks
<1> QED
  BY <1>4, <1>5, CollapseTyped DEF Clean

(* What the segments after a database name. *)
LEMMA InsideIs ==
  ASSUME NEW part, NEW rest
  PROVE  /\ Inside(part, rest).kind # "server"
         /\ Inside(part, rest).kind = "database"  <=> rest = <<>> /\ part = NoPart
         /\ Inside(part, rest).kind = "partition" <=> rest = <<>> /\ part # NoPart
<1> DEFINE Deeper(kind) == kind \notin {"server", "database", "partition"}
<1>1. \A s \in DOMAIN IndexKind : Deeper(IndexKind[s])
  BY DEF IndexKind
<1>2. Deeper(InDesign(part, rest).kind)
  BY <1>1 DEF InDesign, Place, Unresolved
<1>3. ASSUME rest # <<>> PROVE Deeper(Inside(part, rest).kind)
  BY <1>2, <1>3 DEF Inside, Place, Unresolved
<1>4. ASSUME rest = <<>>
      PROVE  Inside(part, rest).kind = IF part = NoPart THEN "database" ELSE "partition"
  BY <1>4 DEF Inside, Place
<1> QED
  BY <1>3, <1>4

LEMMA ResolveIs ==
  ASSUME NEW base \in Seq(Segments), NEW input, Typed(input)
  PROVE  LET path == Clean(base, input)
             t    == Resolve(base, input)
         IN  /\ t.path = path /\ path \in Seq(Segments)
             /\ path # <<>> => t.db = Decode(path[1])
             /\ t.kind = "server" => path = <<>>
             /\ t.kind = "database" <=> Len(path) = 1 /\ ToSet(path) \cap Malformed = {}
             /\ t.kind = "partition" <=> Len(path) = 3 /\ ToSet(path) \cap Malformed = {}
                                         /\ Decode(path[2]) = "_partition"
<1> DEFINE path == Clean(base, input)
           t    == Resolve(base, input)
           dec  == [i \in DOMAIN path |-> Decode(path[i])]
           target(part, what) ==
             [kind |-> what.kind, id |-> what.id, name |-> what.name, path |-> path,
              part |-> part, db |-> IF path = <<>> THEN NoName ELSE dec[1]]
<1>1. /\ path \in Seq(Segments) /\ Len(path) \in Nat /\ DOMAIN path = 1..Len(path)
      /\ (path = <<>> <=> Len(path) = 0) /\ \A i \in 1..Len(path) : path[i] \in Segments
  <2>1. path \in Seq(Segments)
    BY CleanTyped
  <2> HIDE DEF path
  <2> QED BY <2>1
<1>2. t = IF ToSet(path) \cap Malformed # {} THEN target(NoPart, Unresolved)
          ELSE IF path = <<>> THEN target(NoPart, Place("server", NoID, NoName))
          ELSE IF Len(path) = 1 \/ dec[2] # "_partition" THEN target(NoPart, Inside(NoPart, Tail(dec)))
          ELSE IF Len(path) = 2 THEN target(NoPart, Unresolved)
          ELSE target(dec[3], Inside(dec[3], SubSeq(dec, 4, Len(dec))))
  BY DEF Resolve
<1> SUFFICES
      /\ t.path = path /\ path \in Seq(Segments)
      /\ path # <<>> => t.db = Decode(path[1])
      /\ t.kind = "server" => path = <<>>
      /\ t.kind = "database" <=> Len(path) = 1 /\ ToSet(path) \cap Malformed = {}
      /\ t.kind = "partition" <=> Len(path) = 3 /\ ToSet(path) \cap Malformed = {}
                                  /\ Decode(path[2]) = "_partition"
  OBVIOUS
<1> HIDE DEF path, t
<1>3. \A i \in 1..Len(path) : dec[i] = Decode(path[i]) /\ dec[i] \in Segments
  BY <1>1, PathsAssumption DEF Decode
<1>4. /\ dec \in Seq(Segments) /\ Len(dec) = Len(path)
  BY <1>1, <1>3
<1>5. path # <<>> => (Tail(dec) = <<>> <=> Len(path) = 1)
  <2>1. PICK d : d = dec
    OBVIOUS
  <2> HIDE DEF dec
  <2>2. d \in Seq(Segments) /\ Len(d) = Len(path)
    BY <1>4, <2>1
  <2>3. d # <<>> => Tail(d) \in Seq(Segments) /\ Len(Tail(d)) = Len(d) - 1
    BY <2>2, HeadTailProperties
  <2>4. PICK u : u = Tail(d)
    OBVIOUS
  <2>5. path # <<>> => u \in Seq(Segments) /\ Len(u) = Len(path) - 1
    BY <1>1, <2>2, <2>3, <2>4
  <2>6. path # <<>> => (u = <<>> <=> Len(path) = 1)
    BY <1>1, <2>5
  <2> QED BY <2>1, <2>4, <2>6
<1>6. Len(path) >= 3 => (SubSeq(dec, 4, Len(dec)) = <<>> <=> Len(path) = 3)
  <2>1. PICK d : d = dec
    OBVIOUS
  <2> HIDE DEF dec
  <2>2. d \in Seq(Segments) /\ Len(d) = Len(path) /\ Len(path) \in Nat
    BY <1>1, <1>4, <2>1
  <2>3. \A i \in 4..Len(d) : d[i] \in Segments
    BY <2>2
  <2>4. /\ SubSeq(d, 4, Len(d)) \in Seq(Segments)
        /\ Len(SubSeq(d, 4, Len(d))) = IF 4 <= Len(d) THEN Len(d) - 4 + 1 ELSE 0
    BY <2>2, <2>3, SubSeqProperties
  <2>5. PICK u \in Seq(Segments) : u = SubSeq(d, 4, Len(d))
    BY <2>4
  <2>6. Len(u) = 0 <=> u = <<>>
    OBVIOUS
  <2>7. Len(path) >= 3 => (u = <<>> <=> Len(path) = 3)
    BY <2>2, <2>4, <2>5, <2>6
  <2> QED BY <2>1, <2>5, <2>7
<1>7. /\ Unresolved.kind = "none" /\ Place("server", NoID, NoName).kind = "server"
      /\ NoPart \notin Segments
  BY PathsAssumption DEF Unresolved, Place
<1>8. t.path = path /\ (path # <<>> => t.db = Decode(path[1]))
  BY <1>1, <1>2, <1>3
<1> HIDE DEF dec
<1>9. \A part, what : target(part, what).kind = what.kind
  OBVIOUS
<1> HIDE DEF target
<1>10. CASE ToSet(path) \cap Malformed # {} \/ path = <<>>
  BY <1>1, <1>2, <1>7, <1>8, <1>9, <1>10
<1>11. CASE ToSet(path) \cap Malformed = {} /\ path # <<>> /\ (Len(path) = 1 \/ dec[2] # "_partition")
  <2>1. t.kind = Inside(NoPart, Tail(dec)).kind
    BY <1>2, <1>9, <1>11
  <2>2. Len(path) = 3 => dec[2] = Decode(path[2])
    BY <1>3
  <2>3. PICK rest : rest = Tail(dec)
    OBVIOUS
  <2>4. /\ Inside(NoPart, rest).kind \notin {"server", "partition"}
        /\ Inside(NoPart, rest).kind = "database" <=> rest = <<>>
    BY InsideIs
  <2> QED BY <1>1, <1>5, <1>8, <1>11, <2>1, <2>2, <2>3, <2>4
<1>12. CASE /\ ToSet(path) \cap Malformed = {} /\ path # <<>>
            /\ Len(path) # 1 /\ dec[2] = "_partition" /\ Len(path) = 2
  BY <1>1, <1>2, <1>7, <1>8, <1>9, <1>12
<1>13. CASE /\ ToSet(path) \cap Malformed = {} /\ path # <<>>
            /\ Len(path) # 1 /\ dec[2] = "_partition" /\ Len(path) # 2
  <2>1. Len(path) >= 3 /\ dec[3] # NoPart /\ dec[2] = Decode(path[2])
    BY <1>1, <1>3, <1>7, <1>13
  <2>2. t.kind = Inside(dec[3], SubSeq(dec, 4, Len(dec))).kind
    BY <1>2, <1>9, <1>13
  <2>3. PICK rest : rest = SubSeq(dec, 4, Len(dec))
    OBVIOUS
  <2>4. PICK part : part = dec[3]
    OBVIOUS
  <2>5. /\ Inside(part, rest).kind \notin {"server", "database"}
        /\ Inside(part, rest).kind = "partition" <=> rest = <<>>
    BY <2>1, <2>4, InsideIs
  <2>6. t.kind = Inside(part, rest).kind
    BY <2>2, <2>3, <2>4
  <2> QED BY <1>1, <1>6, <1>8, <1>13, <2>1, <2>3, <2>5, <2>6
<1> QED
  BY <1>10, <1>11, <1>12, <1>13 DEF path, t

(* What rmdir asks about is a database by its own path. *)
Asking ==
  rmdir # NoTarget =>
    /\ rmdir.path \in Seq(Segments) /\ Len(rmdir.path) = 1
    /\ rmdir.db = Decode(rmdir.path[1])

Standing == Connected /\ cwd \in Seq(Segments) /\ Asking /\ NotStranded

LEMMA InputTyped == Typed(Here) /\ \A i \in Inputs : Typed(i)
<1>1. Typed(Here)
  BY DEF Typed, Here, From
<1>2. ASSUME NEW i \in Inputs PROVE Typed(i)
  <2>1. i \in [abs : BOOLEAN, segs : Seq(Segments)]
    BY BrowseAssumption
  <2> QED BY <2>1 DEF Typed
<1> QED
  BY <1>1, <1>2

LEMMA FirstOf ==
  ASSUME NEW s \in Seq(Segments), s # <<>>
  PROVE  Len(s) >= 1 /\ SubSeq(s, 1, 1) = <<s[1]>>
<1>1. Len(s) \in Nat /\ Len(s) >= 1 /\ \A i \in 1..1 : s[i] \in Segments
  OBVIOUS
<1>2. PICK u : u = SubSeq(s, 1, 1)
  OBVIOUS
<1>3. u \in Seq(Segments) /\ Len(u) = 1 /\ u[1] = s[1]
  BY <1>1, <1>2, SubSeqProperties
<1>4. u = <<u[1]>>
  BY <1>3
<1> QED
  BY <1>1, <1>2, <1>3, <1>4

LEMMA StandingInitially == BrowseInit => Standing
BY BrowseInitially DEF BrowseInit, BrowseInv, Standing, Asking, NotStranded

(* Where cd takes the prompt there is a database. *)
LEMMA CdStands ==
  ASSUME Standing, NEW i \in Inputs, Cd(i)
  PROVE  cwd' \in Seq(Segments) /\ (cwd' # <<>> => Exists(Decode(cwd'[1])))
<1>1. PICK t : t = Resolve(cwd, i)
  OBVIOUS
<1>2. Verified(t) /\ cwd' = t.path
  BY <1>1 DEF Cd
<1>3. /\ t.path \in Seq(Segments) /\ (t.path # <<>> => t.db = Decode(t.path[1]))
      /\ t.kind = "server" => t.path = <<>>
  BY <1>1, InputTyped, ResolveIs DEF Standing
<1>4. t.kind = "server" \/ Exists(t.db)
  BY <1>2 DEF Verified, Docs
<1> QED
  BY <1>2, <1>3, <1>4

(* One database comes or goes: the prompt is where it was, and this session has
   not made it go, nor is the prompt below it. *)
LEMMA ChangeStands ==
  ASSUME Standing, NEW d, UNCHANGED <<host, rmdir>>,
         DOMAIN dbs' = Hosts, DOMAIN last' = Hosts,
         UNCHANGED <<cwd, left>>,
         \A e : e # d => (e \in DOMAIN dbs'[host] <=> e \in DOMAIN dbs[host]),
         DOMAIN last'[host] = DOMAIN last[host] \cup {d},
         \A e \in DOMAIN last[host] : e # d => last'[host][e] = last[host][e],
         last'[host][d] = "other" \/ d \in DOMAIN dbs'[host]
  PROVE  Standing'
<1>1. Connected' /\ cwd' \in Seq(Segments) /\ Asking'
  BY DEF Standing, Connected, Asking
<1>2. \A e : e # d => (Mine(e)' <=> Mine(e)) /\ (Exists(e)' <=> Exists(e))
  BY DEF Mine, Exists
<1>3. Mine(d)' => Exists(d)'
  BY DEF Mine, Exists
<1>4. NotStranded'
  BY <1>2, <1>3 DEF Standing, NotStranded
<1> QED
  BY <1>1, <1>4 DEF Standing

LEMMA StandingStep == Standing /\ [BrowseNext]_browseVars => Standing'
<1> SUFFICES ASSUME Standing, [BrowseNext]_browseVars PROVE Standing'
  OBVIOUS
<1>0. Connected /\ cwd \in Seq(Segments)
  BY DEF Standing
<1>a. ASSUME NEW d, NEW ids, NEW who, Created(host, d, ids, who), UNCHANGED <<host, cwd, rmdir, left>>
      PROVE  Standing'
  BY <1>0, <1>a, CreatedChanges, ChangeStands
<1>b. ASSUME UNCHANGED <<dbs, host, cwd, rmdir, last, left>> PROVE Standing'
  BY <1>b DEF Standing, Connected, Asking, NotStranded, Mine, Exists
<1>1. CASE Outside
  BY <1>0, <1>1, <1>a, DestroyedChanges, ChangeStands DEF Outside
<1>2. ASSUME NEW i \in Inputs, Cd(i) PROVE Standing'
  BY <1>2, CdStands DEF Cd, Standing, Connected, Asking, NotStranded, Exists
<1>3. ASSUME NEW i \in Inputs, Rmdir(i) PROVE Standing'
  <2>1. PICK t : t = Resolve(cwd, i)
    OBVIOUS
  <2>2. t.kind = "database" /\ rmdir' = t /\ UNCHANGED <<dbs, host, cwd, last, left>>
    BY <1>3, <2>1 DEF Rmdir
  <2>3. t.path \in Seq(Segments) /\ Len(t.path) = 1 /\ t.db = Decode(t.path[1])
    <3>1. /\ t.path \in Seq(Segments) /\ (t.path # <<>> => t.db = Decode(t.path[1]))
          /\ t.kind = "database" => Len(t.path) = 1
      BY <1>0, <2>1, InputTyped, ResolveIs
    <3> QED BY <2>2, <3>1
  <2>4. Asking'
    BY <2>2, <2>3 DEF Asking
  <2> QED BY <2>2, <2>4 DEF Standing, Connected, NotStranded, Mine, Exists
<1>4. ASSUME NEW i, RestoreCreate(i) PROVE Standing'
  BY <1>4, <1>a DEF RestoreCreate
<1>5. ASSUME NEW i, TabFields(i) PROVE Standing'
  BY <1>5, <1>b DEF TabFields
<1>6. ASSUME NEW i, NEW a \in Answers, Mkdir(i, a) PROVE Standing'
  BY <1>6, <1>a DEF Mkdir
<1>7. ASSUME NEW a \in Answers, ConfirmRmdir(a) PROVE Standing'
  <2>0. PICK d : d = rmdir.db
    OBVIOUS
  <2>1. PICK path : path = rmdir.path
    OBVIOUS
  <2>2. /\ path \in Seq(Segments) /\ Len(path) = 1 /\ d = Decode(path[1])
        /\ rmdir' = NoTarget /\ host' = host
        /\ Destroyed(host, d, Who(a))
    BY <1>7, <2>0, <2>1 DEF ConfirmRmdir, Standing, Asking
  <2>3. /\ DOMAIN dbs' = Hosts /\ DOMAIN last' = Hosts
        /\ DOMAIN dbs'[host] = DOMAIN dbs[host] \ {d}
        /\ DOMAIN last'[host] = DOMAIN last[host] \cup {d}
        /\ last'[host][d] = Who(a)
        /\ \A e \in DOMAIN last[host] : e # d => last'[host][e] = last[host][e]
    BY <1>0, <2>2, DestroyedChanges
  <2>4. Connected' /\ Asking'
    BY <1>0, <2>2, <2>3 DEF Connected, Asking
  <2>5. CASE a # "done"
    <3>1. UNCHANGED <<cwd, left>> /\ Who(a) = "other"
      BY <1>7, <2>5 DEF ConfirmRmdir, Who
    <3>2. \A e : e # d => (Mine(e)' <=> Mine(e)) /\ (Exists(e)' <=> Exists(e))
      BY <2>2, <2>3 DEF Mine, Exists
    <3>3. ~Mine(d)'
      BY <2>2, <2>3, <3>1 DEF Mine
    <3>4. NotStranded'
      BY <3>1, <3>2, <3>3 DEF Standing, NotStranded
    <3> QED BY <1>0, <2>4, <3>1, <3>4 DEF Standing
  <2>6. CASE a = "done"
    <3>1. /\ cwd' = IF Within(cwd, path) THEN <<>> ELSE cwd
          /\ left' = path[1]
      BY <1>7, <2>1, <2>6 DEF ConfirmRmdir
    <3>2. ASSUME cwd # <<>>, cwd[1] = path[1] PROVE Within(cwd, path)
      <4>1. PICK at \in Seq(Segments) : at = cwd
        BY <1>0
      <4>2. Len(at) >= 1 /\ SubSeq(at, 1, 1) = <<at[1]>>
        BY <3>2, <4>1, FirstOf
      <4>3. path # <<>> /\ SubSeq(path, 1, 1) = <<path[1]>>
        BY <2>2, FirstOf
      <4> QED BY <2>2, <3>2, <4>1, <4>2, <4>3 DEF Within, IsPrefix
    <3>3. cwd' = <<>> \/ (cwd' = cwd /\ cwd'[1] # left')
      BY <3>1, <3>2
    <3>4. NotStranded' /\ cwd' \in Seq(Segments)
      BY <1>0, <3>1, <3>3 DEF NotStranded
    <3> QED BY <2>4, <3>4 DEF Standing
  <2> QED BY <2>5, <2>6
<1>8. ASSUME NEW a \in Answers, UsersAdd(a) PROVE Standing'
  BY <1>8, <1>a DEF UsersAdd
<1>9. CASE EndRmdir
  BY <1>9 DEF EndRmdir, Standing, Connected, Asking, NotStranded, Mine, Exists
<1>10. CASE TabNames
  BY <1>10, <1>b DEF TabNames
<1>11. ASSUME NEW h \in Hosts, Connect(h) PROVE Standing'
  BY <1>11 DEF Connect, Standing, Connected, Asking, NotStranded
<1>12. CASE UNCHANGED browseVars
  BY <1>12, <1>b DEF browseVars
<1> QED
  BY <1>1, <1>2, <1>3, <1>4, <1>5, <1>6, <1>7, <1>8, <1>9, <1>10, <1>11, <1>12
  DEF BrowseNext

(* Removing a database takes the prompt out of it from any depth, whatever the
   servers hold and whoever else is at work. *)
THEOREM PromptIsNotStranded == Spec => []NotStranded
<1>1. Init => Standing
  BY StandingInitially DEF Init
<1>2. Standing /\ [Next]_vars => Standing'
  <2> SUFFICES ASSUME Standing, [Next]_vars PROVE Standing'
    OBVIOUS
  <2>1. [BrowseNext]_browseVars
    BY DEF Next, vars
  <2> QED
    BY <2>1, StandingStep
<1>3. Standing => NotStranded
  BY DEF Standing
<1> QED
  BY <1>1, <1>2, <1>3, PTL DEF Spec

(* Stepping up.                                                            *)

UpFrom(segs) == CollapseSeparator(Up(segs))

LEMMA UpFromTyped == \A segs \in Seq(Segments) : UpFrom(segs) \in Seq(Segments)
<1> SUFFICES ASSUME NEW segs \in Seq(Segments) PROVE UpFrom(segs) \in Seq(Segments)
  OBVIOUS
<1>1. Up(segs) \in Seq(Segments)
  BY UpIs DEF Up
<1> QED
  BY <1>1, CollapseTyped DEF UpFrom, CollapseIf

LEMMA UpsTyped ==
  ASSUME NEW n \in Nat
  PROVE  /\ Typed(Ups(n)) /\ ~Ups(n).abs /\ Len(Ups(n).segs) = n
         /\ \A i \in 1..n : Ups(n).segs[i] = ".."
<1>1. ~Ups(n).abs /\ Ups(n).abs \in BOOLEAN /\ Ups(n).segs = [i \in 1..n |-> ".."]
  BY DEF Ups, From
<1>2. Ups(n).segs \in [1..n -> Segments]
  BY <1>1, PathsAssumption
<1>3. Ups(n).segs \in Seq(Segments) /\ Len(Ups(n).segs) = n
  BY <1>2
<1> QED
  BY <1>1, <1>3 DEF Typed

(* After some ".." the walk is where as many single steps lead, but for the
   separator that it still owes. *)
WalksUp(w, base, n) ==
  w[0].segs = base /\ w[0].pops = 0 /\ \A i \in 1..n : w[i] = Step(w[i - 1], "..")
ClimbsUp(at, base, n) ==
  at[0] = base /\ \A i \in 1..n : at[i] = UpFrom(at[i - 1])

LEMMA UpsWalk ==
  ASSUME NEW base \in Seq(Segments), NEW n \in Nat,
         NEW w, WalksUp(w, base, n), NEW at, ClimbsUp(at, base, n)
  PROVE  \A i \in 0..n : w[i].pops = i /\ (i > 0 => CollapseSeparator(w[i].segs) = at[i])
<1> USE DEF WalksUp, ClimbsUp
<1> DEFINE Same(i) == w[i].pops = i /\ (i > 0 => CollapseSeparator(w[i].segs) = at[i])
           T == {i \in Nat : i =< n => Same(i)}
<1>1. 0 \in T
  OBVIOUS
<1>2. ASSUME NEW i \in Nat, i \in T PROVE i + 1 \in T
  <2> SUFFICES ASSUME i + 1 =< n
               PROVE  w[i + 1].pops = i + 1 /\ CollapseSeparator(w[i + 1].segs) = at[i + 1]
    OBVIOUS
  <2>1. i + 1 \in 1..n /\ i + 1 - 1 = i /\ i + 1 > 0 /\ i =< n
    OBVIOUS
  <2>2. w[i + 1] = Step(w[i], "..") /\ at[i + 1] = UpFrom(at[i])
    BY <2>1
  <2>a. w[i].pops = i /\ (i > 0 => CollapseSeparator(w[i].segs) = at[i])
    BY <1>2, <2>1
  <2>b. i = 0 => w[i].segs = at[i]
    OBVIOUS
  <2>3. w[i].pops = i /\ at[i] = IF i > 0 THEN CollapseSeparator(w[i].segs) ELSE w[i].segs
    BY <2>a, <2>b
  <2>4. w[i + 1] = [segs |-> Up(at[i]), pops |-> i + 1]
    BY <2>2, <2>3 DEF Step, CollapseIf
  <2> QED BY <2>1, <2>2, <2>4 DEF UpFrom
<1>3. \A i \in Nat : i \in T
  <2> HIDE DEF T
  <2> QED BY <1>1, <1>2, OneByOne
<1> SUFFICES ASSUME NEW i \in 0..n
             PROVE  w[i].pops = i /\ (i > 0 => CollapseSeparator(w[i].segs) = at[i])
  OBVIOUS
<1>4. i \in Nat /\ i =< n /\ i \in T
  <2>1. i \in Nat /\ i =< n
    OBVIOUS
  <2> HIDE DEF T
  <2> QED BY <1>3, <2>1
<1> QED
  BY <1>4

LEMMA UpOnce ==
  ASSUME NEW base \in Seq(Segments)
  PROVE  Clean(base, Ups(1)) = UpFrom(base)
<1>1. PICK w \in [0..1 -> Walks] :
        /\ w[0].segs = base /\ w[0].pops = 0 /\ w[1] = Step(w[0], "..")
        /\ Walked(base, Ups(1)) = w[1]
  <2>1. PICK w \in [0..1 -> Walks] :
          /\ w[0].segs = base /\ w[0].pops = 0
          /\ \A i \in 1..1 : w[i] = Step(w[i - 1], Ups(1).segs[i])
          /\ Walked(base, Ups(1)) = w[1]
    <3>1. PICK input : input = Ups(1)
      OBVIOUS
    <3>2. PICK m \in Nat : m = 1
      OBVIOUS
    <3>3. Typed(input) /\ ~input.abs /\ Len(input.segs) = m
      BY <3>1, <3>2, UpsTyped
    <3>4. \E w \in [0..m -> Walks] :
            /\ w[0].segs = base /\ w[0].pops = 0
            /\ \A i \in 1..m : w[i] = Step(w[i - 1], input.segs[i])
            /\ Walked(base, input) = w[m]
      <4>1. m \in Nat
        BY <3>2
      <4> QED BY <3>3, <4>1, WalkOn
    <3> QED BY <3>1, <3>2, <3>4
  <2>2. w[1] = Step(w[0], "..")
    <3>1. w[1] = Step(w[0], Ups(1).segs[1])
      BY <2>1
    <3> QED BY <3>1, UpsTyped
  <2> QED BY <2>1, <2>2
<1>2. w[1] = [segs |-> Up(base), pops |-> 1]
  BY <1>1 DEF Step, CollapseIf
<1> QED
  BY <1>1, <1>2 DEF Clean, CollapseIf, UpFrom

LEMMA ClimbIs ==
  ASSUME NEW base \in Seq(Segments), NEW n \in Nat
  PROVE  \E at : /\ at[0] = base /\ \A i \in 1..n : at[i] = UpFrom(at[i - 1])
                /\ Climb(base, n) = at[n]
<1> DEFINE Paths == Seq(Segments)
           F     == [i \in 1..n |-> [p \in Paths |-> UpFrom(p)]]
           Is(v) == v = [i \in 0..n |-> IF i = 0 THEN base ELSE Clean(v[i - 1], Ups(1))]
<1>1. F \in [1..n -> [Paths -> Paths]] /\ \A i \in 1..n : \A p \in Paths : F[i][p] = UpFrom(p)
  BY UpFromTyped
<1> HIDE DEF F, Paths
<1>2. PICK at \in [0..n -> Paths] : at[0] = base /\ \A i \in 1..n : at[i] = F[i][at[i - 1]]
  <2>1. PICK S : S = Paths
    OBVIOUS
  <2>2. base \in S /\ n \in Nat /\ F \in [1..n -> [S -> S]]
    BY <1>1, <2>1 DEF Paths
  <2>3. \E at \in [0..n -> S] : at[0] = base /\ \A i \in 1..n : at[i] = F[i][at[i - 1]]
    BY <2>2, Iterated, SMTT(60)
  <2> QED BY <2>1, <2>3
<1>3. \A i \in 1..n : i - 1 \in 0..n /\ at[i - 1] \in Paths
  BY <1>2
<1>4. \A i \in 1..n : at[i] = UpFrom(at[i - 1])
  BY <1>1, <1>2, <1>3
<1>5. \A i \in 1..n : at[i] = Clean(at[i - 1], Ups(1))
  BY <1>3, <1>4, UpOnce DEF Paths
<1>6. Is(at)
  <2>1. \A i \in 0..n : i = 0 \/ i \in 1..n
    OBVIOUS
  <2> QED BY <1>2, <1>5, <2>1
<1>7. PICK v : v = CHOOSE u : Is(u)
  OBVIOUS
<1>8. Is(v)
  <2> HIDE DEF Is
  <2> QED BY <1>6, <1>7
<1>9. v[0] = base /\ \A i \in 1..n : v[i] = Clean(v[i - 1], Ups(1))
  BY <1>8
<1> DEFINE T == {i \in Nat : i =< n => v[i] = at[i]}
<1>10. 0 \in T
  BY <1>2, <1>9
<1>11. ASSUME NEW i \in Nat, i \in T PROVE i + 1 \in T
  <2> SUFFICES ASSUME i + 1 =< n PROVE v[i + 1] = at[i + 1]
    OBVIOUS
  <2>1. i + 1 \in 1..n /\ i + 1 - 1 = i /\ v[i] = at[i]
    BY <1>11
  <2> QED BY <1>5, <1>9, <2>1
<1>12. v[n] = at[n]
  <2>1. n \in T
    <3> HIDE DEF T
    <3> QED BY <1>10, <1>11, OneByOne
  <2> QED BY <2>1
<1>13. Climb(base, n) = v[n]
  BY <1>7 DEF Climb
<1> QED
  BY <1>2, <1>4, <1>12, <1>13

(* However many ".." there are, and whatever follows two of them or more. *)
LEMMA UpsLead ==
  ASSUME NEW base \in Seq(Segments), NEW n \in Nat, n > 0
  PROVE  /\ Clean(base, Ups(n)) = Climb(base, n)
         /\ n > 1 => Clean(base, From(Append(Ups(n).segs, "x"))) = Append(Climb(base, n), "x")
<1>1. PICK at : /\ at[0] = base /\ \A i \in 1..n : at[i] = UpFrom(at[i - 1])
                /\ Climb(base, n) = at[n]
  BY ClimbIs
<1>2. Clean(base, Ups(n)) = at[n]
  <2>1. PICK w : /\ w[0].segs = base /\ w[0].pops = 0
                 /\ \A i \in 1..n : w[i] = Step(w[i - 1], "..")
                 /\ Walked(base, Ups(n)) = w[n]
    <3>1. PICK w \in [0..n -> Walks] :
            /\ w[0].segs = base /\ w[0].pops = 0
            /\ \A i \in 1..n : w[i] = Step(w[i - 1], Ups(n).segs[i])
            /\ Walked(base, Ups(n)) = w[n]
      <4>1. PICK input : input = Ups(n)
        OBVIOUS
      <4>2. Typed(input) /\ ~input.abs /\ Len(input.segs) = n
        BY <4>1, UpsTyped
      <4>3. \E w \in [0..n -> Walks] :
              /\ w[0].segs = base /\ w[0].pops = 0
              /\ \A i \in 1..n : w[i] = Step(w[i - 1], input.segs[i])
              /\ Walked(base, input) = w[n]
        BY <4>2, WalkOn
      <4> QED BY <4>1, <4>3
    <3>2. \A i \in 1..n : w[i] = Step(w[i - 1], "..")
      BY <3>1, UpsTyped
    <3> QED BY <3>1, <3>2
  <2>2. w[n].pops = n /\ CollapseSeparator(w[n].segs) = at[n]
    <3>1. \A i \in 0..n : w[i].pops = i /\ (i > 0 => CollapseSeparator(w[i].segs) = at[i])
      <4>1. WalksUp(w, base, n) /\ ClimbsUp(at, base, n)
        BY <1>1, <2>1 DEF WalksUp, ClimbsUp
      <4> QED BY <4>1, UpsWalk
    <3> QED BY <3>1, n \in 0..n
  <2> QED BY <2>1, <2>2 DEF Clean, CollapseIf
<1>3. ASSUME n > 1
      PROVE  Clean(base, From(Append(Ups(n).segs, "x"))) = Append(at[n], "x")
  <2>1. PICK ups \in Seq(Segments) : ups = Ups(n).segs /\ Len(ups) = n /\ \A i \in 1..n : ups[i] = ".."
    BY UpsTyped DEF Typed
  <2>2. PICK segs : segs = Append(ups, "x")
    OBVIOUS
  <2>3. /\ segs \in Seq(Segments) /\ Len(segs) = n + 1 /\ segs[n + 1] = "x"
        /\ \A i \in 1..n : segs[i] = ".."
    <3> QED BY <2>1, <2>2, PathsAssumption, AppendProperties
  <2>4. PICK input : input = From(segs)
    OBVIOUS
  <2>5. Typed(input) /\ ~input.abs /\ input.segs = segs
    BY <2>3, <2>4 DEF From, Typed
  <2>6. PICK w : /\ w[0].segs = base /\ w[0].pops = 0
                 /\ \A i \in 1..(n + 1) : w[i] = Step(w[i - 1], segs[i])
                 /\ Walked(base, input) = w[n + 1]
    <3>1. PICK m \in Nat : m = n + 1
      OBVIOUS
    <3>2. Typed(input) /\ ~input.abs /\ Len(input.segs) = m
      BY <2>3, <2>5, <3>1
    <3>3. \E w \in [0..m -> Walks] :
            /\ w[0].segs = base /\ w[0].pops = 0
            /\ \A i \in 1..m : w[i] = Step(w[i - 1], input.segs[i])
            /\ Walked(base, input) = w[m]
      <4>1. m \in Nat
        BY <3>1
      <4>2. PICK v : IsWalk(v, base, input)
        BY <3>2, WalkIs
      <4>3. v[0].segs = base
        BY <3>2, <4>2 DEF IsWalk
      <4> QED BY <3>2, <4>1, <4>2, <4>3 DEF IsWalk
    <3> QED BY <2>5, <3>1, <3>3
  <2>7. w[n].pops = n /\ CollapseSeparator(w[n].segs) = at[n]
    <3>1. \A i \in 1..n : w[i] = Step(w[i - 1], "..")
      BY <2>3, <2>6
    <3>2. \A i \in 0..n : w[i].pops = i /\ (i > 0 => CollapseSeparator(w[i].segs) = at[i])
      <4>1. WalksUp(w, base, n) /\ ClimbsUp(at, base, n)
        BY <1>1, <2>6, <3>1 DEF WalksUp, ClimbsUp
      <4> QED BY <4>1, UpsWalk
    <3> QED BY <3>2, n \in 0..n
  <2>8. w[n + 1] = Step(w[n], "x")
    <3>1. n + 1 \in 1..(n + 1) /\ n + 1 - 1 = n
      OBVIOUS
    <3> QED BY <2>3, <2>6, <3>1
  <2>9. w[n + 1] = [segs |-> Append(at[n], "x"), pops |-> 0]
    BY <1>3, <2>7, <2>8 DEF Step, Settles, CollapseIf
  <2>10. Clean(base, input) = Append(at[n], "x")
    BY <2>6, <2>9 DEF Clean, CollapseIf
  <2> QED BY <2>1, <2>2, <2>4, <2>10
<1> QED
  BY <1>1, <1>2, <1>3

(* Out of a partition. *)
LEMMA UpFromPartition ==
  ASSUME NEW base \in Seq(Segments),
         Resolve(base, Here).kind = "partition", base[2] = "_partition"
  PROVE  /\ Resolve(base, Ups(1)).kind = "database"
         /\ Resolve(base, From(<<"..", "x">>)).kind = "partition"
<1>1. Clean(base, Here) = base
  <2>1. Typed(Here) /\ ~Here.abs /\ Len(Here.segs) = 0 /\ 0 \in Nat
    BY InputTyped DEF Here, From
  <2>2. PICK none \in Nat : none = 0
    OBVIOUS
  <2>3. Len(Here.segs) = none /\ none \in Nat
    BY <2>1, <2>2
  <2>4. PICK w : w[0].segs = base /\ w[0].pops = 0 /\ Walked(base, Here) = w[none]
    BY <2>1, <2>3, WalkOn
  <2> QED BY <2>2, <2>4 DEF Clean, CollapseIf
<1>2. /\ Len(base) = 3 /\ ToSet(base) \cap Malformed = {} /\ Decode(base[2]) = "_partition"
  BY <1>1, InputTyped, ResolveIs
<1>3. PICK up \in Seq(Segments) : /\ up = Up(base) /\ Len(up) = 2
                                 /\ up[1] = base[1] /\ up[2] = "_partition"
  <2>1. base # <<>> /\ Len(base) = 3
    BY <1>2
  <2>2. PICK up : up = Up(base)
    OBVIOUS
  <2>3. /\ up \in Seq(Segments) /\ Len(up) = Len(base) - 1
        /\ \A i \in 1..(Len(base) - 1) : up[i] = base[i]
    BY <2>1, <2>2, UpIs
  <2>4. Len(up) = 2 /\ up[1] = base[1] /\ up[2] = base[2]
    BY <2>1, <2>3
  <2> QED BY <2>2, <2>3, <2>4
<1>4. /\ base[1] \in Segments \ Malformed /\ base[2] \notin Malformed
  <2>1. 1 \in DOMAIN base /\ 2 \in DOMAIN base /\ base[1] \in Segments
    <3>1. Len(base) = 3 /\ DOMAIN base = 1..3 /\ base \in [1..3 -> Segments]
      BY <1>2, SMTT(30)
    <3> QED BY <3>1
  <2>2. base[1] \in ToSet(base) /\ base[2] \in ToSet(base)
    BY <2>1 DEF ToSet
  <2> QED BY <1>2, <2>1, <2>2
<1>5. Resolve(base, Ups(1)).kind = "database"
  <2>1. PICK path : path = Clean(base, Ups(1))
    OBVIOUS
  <2>2. path = <<base[1]>>
    BY <1>3, <2>1, UpOnce DEF UpFrom, CollapseSeparator
  <2>3. Len(path) = 1 /\ ToSet(path) \cap Malformed = {}
    BY <1>4, <2>2 DEF ToSet
  <2> QED BY <2>1, <2>3, UpsTyped, ResolveIs
<1>6. Resolve(base, From(<<"..", "x">>)).kind = "partition"
  <2>1. PICK input : input = From(<<"..", "x">>)
    OBVIOUS
  <2>2. /\ Typed(input) /\ ~input.abs /\ Len(input.segs) = 2
        /\ input.segs[1] = ".." /\ input.segs[2] = "x"
    BY <2>1, PathsAssumption DEF From, Typed
  <2>3. PICK two \in Nat : two = 2
    OBVIOUS
  <2>4. Len(input.segs) = two /\ two \in Nat
    BY <2>2, <2>3
  <2>5. PICK w : /\ w[0].segs = base /\ w[0].pops = 0
                 /\ \A i \in 1..two : w[i] = Step(w[i - 1], input.segs[i])
                 /\ Walked(base, input) = w[two]
    BY <2>2, <2>4, WalkOn
  <2>6. w[1] = Step(w[0], "..") /\ w[2] = Step(w[1], "x") /\ Walked(base, input) = w[2]
    BY <2>2, <2>3, <2>5
  <2>7. w[1] = [segs |-> up, pops |-> 1]
    BY <1>3, <2>5, <2>6 DEF Step, CollapseIf
  <2>8. w[2] = [segs |-> Append(up, "x"), pops |-> 0]
    <3>1. w[1].segs = up /\ w[1].pops = 1 /\ ~Settles(w[1].pops)
      BY <2>7 DEF Settles
    <3>2. CollapseIf(Settles(w[1].pops), w[1].segs) = up
      BY <3>1 DEF CollapseIf
    <3>3. w[2] = [segs |-> Append(CollapseIf(Settles(w[1].pops), w[1].segs), "x"), pops |-> 0]
      BY <2>6 DEF Step
    <3> QED BY <3>2, <3>3
  <2>9. PICK path : path = Clean(base, input)
    OBVIOUS
  <2>10. path = Append(up, "x")
    BY <2>6, <2>8, <2>9 DEF Clean, CollapseIf
  <2>11. Len(path) = 3 /\ path[1] = base[1] /\ path[2] = base[2] /\ path[3] = "x"
    <3>1. Len(path) = Len(up) + 1 /\ path[Len(up) + 1] = "x"
          /\ \A i \in 1..Len(up) : path[i] = up[i]
      BY <2>10, PathsAssumption, AppendProperties
    <3> QED BY <1>3, <3>1
  <2>12. ToSet(path) \cap Malformed = {}
    <3>1. path \in Seq(Segments)
      BY <1>3, <2>10, PathsAssumption
    <3>2. \A i \in DOMAIN path : path[i] \notin Malformed
      BY <1>4, <2>11, <3>1, BrowseAssumption
    <3> QED BY <3>2 DEF ToSet
  <2> QED BY <1>2, <2>1, <2>2, <2>9, <2>11, <2>12, ResolveIs
<1> QED
  BY <1>5, <1>6

(* Stepping up goes one step at a time, from wherever the prompt can stand. *)
THEOREM StepsUpOver == Spec => []UpStepsOver
<1>1. Init => Standing
  BY StandingInitially DEF Init
<1>2. Standing /\ [Next]_vars => Standing'
  <2> SUFFICES ASSUME Standing, [Next]_vars PROVE Standing'
    OBVIOUS
  <2>1. [BrowseNext]_browseVars
    BY DEF Next, vars
  <2> QED
    BY <2>1, StandingStep
<1>3. Standing => UpStepsOver
  BY UpsLead, UpFromPartition DEF Standing, UpStepsOver
<1> QED
  BY <1>1, <1>2, <1>3, PTL DEF Spec

-----------------------------------------------------------------------------
(* Completion.                                                             *)

(* The walk over one segment more is one step further. *)
LEMMA OneMore ==
  ASSUME NEW base \in Seq(Segments), NEW dir \in [abs : BOOLEAN, segs : Seq(Segments)],
         NEW seg \in Segments
  PROVE  /\ Walked(base, dir) \in Walks
         /\ Behind(dir, <<seg>>) \in [abs : BOOLEAN, segs : Seq(Segments)]
         /\ Walked(base, Behind(dir, <<seg>>)) = Step(Walked(base, dir), seg)
<1>1. PICK more : more = Behind(dir, <<seg>>)
  OBVIOUS
<1>2. PICK s \in Seq(Segments) : s = dir.segs
  OBVIOUS
<1>3. PICK n \in Nat : n = Len(s)
  OBVIOUS
<1>4. PICK t : t = s \o <<seg>>
  OBVIOUS
<1>5. /\ t \in Seq(Segments) /\ Len(t) = n + 1 /\ t[n + 1] = seg
      /\ \A i \in 1..n : t[i] = s[i]
  <2>1. <<seg>> \in Seq(Segments) /\ Len(<<seg>>) = 1 /\ <<seg>>[1] = seg
    OBVIOUS
  <2> QED BY <1>3, <1>4, <2>1, ConcatProperties
<1>6. more = [abs |-> dir.abs, segs |-> t]
  BY <1>1, <1>2, <1>4 DEF Behind
<1>7. Typed(dir) /\ Typed(more) /\ more.segs = t /\ more.abs = dir.abs
  BY <1>5, <1>6 DEF Typed
<1>8. PICK w : IsWalk(w, base, dir)
  BY <1>7, WalkIs
<1>9. PICK v : IsWalk(v, base, more)
  BY <1>7, WalkIs
<1>10. /\ w \in [0..n -> Walks] /\ w[0].segs = (IF dir.abs THEN <<>> ELSE base) /\ w[0].pops = 0
       /\ \A i \in 1..n : w[i] = Step(w[i - 1], s[i])
       /\ Walked(base, dir) = w[n]
  BY <1>2, <1>3, <1>8 DEF IsWalk
<1>11. /\ v \in [0..(n + 1) -> Walks] /\ v[0].segs = (IF dir.abs THEN <<>> ELSE base) /\ v[0].pops = 0
       /\ \A i \in 1..(n + 1) : v[i] = Step(v[i - 1], t[i])
       /\ Walked(base, more) = v[n + 1]
  BY <1>5, <1>7, <1>9 DEF IsWalk
<1> DEFINE T == {m \in Nat : m =< n => v[m] = w[m]}
<1>12. 0 \in T
  <2>1. v[0] \in Walks /\ w[0] \in Walks
    BY <1>10, <1>11
  <2>2. v[0].segs = w[0].segs /\ v[0].pops = w[0].pops
    BY <1>10, <1>11
  <2>3. \A a \in Walks : a = [segs |-> a.segs, pops |-> a.pops]
    BY DEF Walks
  <2> QED BY <2>1, <2>2, <2>3
<1>13. ASSUME NEW m \in Nat, m \in T PROVE m + 1 \in T
  <2>1. SUFFICES ASSUME m + 1 =< n PROVE v[m + 1] = w[m + 1]
    OBVIOUS
  <2>2. m + 1 \in 1..n /\ m + 1 \in 1..(n + 1) /\ m + 1 - 1 = m /\ v[m] = w[m]
    BY <1>13, <2>1
  <2>3. v[m + 1] = Step(v[m], t[m + 1]) /\ w[m + 1] = Step(w[m], s[m + 1])
    BY <1>10, <1>11, <2>2
  <2> QED BY <1>5, <2>2, <2>3
<1>14. n \in T
  <2> HIDE DEF T
  <2> QED BY <1>12, <1>13, OneByOne
<1>15. v[n] = w[n] /\ v[n + 1] = Step(v[n], t[n + 1]) /\ w[n] \in Walks
  <2>1. n + 1 \in 1..(n + 1) /\ n + 1 - 1 = n /\ n \in 0..n
    OBVIOUS
  <2> QED BY <1>10, <1>11, <1>14, <2>1
<1> QED
  BY <1>1, <1>5, <1>6, <1>10, <1>11, <1>15

(* A segment that is no step. *)
Plain(seg) == seg \in Segments /\ seg \notin {".", ".."}

(* Out of a partition by a single "..". *)
Leaves(base, dir) ==
  Walked(base, dir).pops = 1
    /\ CollapseSeparator(Walked(base, dir).segs) # Walked(base, dir).segs

LEMMA PlainStep ==
  ASSUME NEW base \in Seq(Segments), NEW dir \in [abs : BOOLEAN, segs : Seq(Segments)],
         NEW seg, Plain(seg)
  PROVE  LET w == Walked(base, dir)
             more == Behind(dir, <<seg>>)
             at == Append(CollapseIf(Settles(w.pops), w.segs), seg)
         IN  /\ more \in [abs : BOOLEAN, segs : Seq(Segments)]
             /\ at \in Seq(Segments)
             /\ Walked(base, more) = [segs |-> at, pops |-> 0]
             /\ Clean(base, more) = at
             /\ ~Leaves(base, more)
<1>1. PICK w : w = Walked(base, dir)
  OBVIOUS
<1>2. PICK more : more = Behind(dir, <<seg>>)
  OBVIOUS
<1>3. PICK at : at = Append(CollapseIf(Settles(w.pops), w.segs), seg)
  OBVIOUS
<1>4. /\ w \in Walks /\ more \in [abs : BOOLEAN, segs : Seq(Segments)]
      /\ Walked(base, more) = Step(w, seg)
  BY <1>1, <1>2, OneMore DEF Plain
<1>5. at \in Seq(Segments)
  <2>1. w.segs \in Seq(Segments) /\ Settles(w.pops) \in BOOLEAN
    BY <1>4 DEF Walks, Settles
  <2>2. CollapseIf(Settles(w.pops), w.segs) \in Seq(Segments)
    BY <2>1, CollapseTyped
  <2> QED BY <1>3, <2>2, AppendProperties DEF Plain
<1>6. Walked(base, more) = [segs |-> at, pops |-> 0]
  BY <1>3, <1>4 DEF Step, Plain
<1>7. Clean(base, more) = at
  BY <1>6 DEF Clean, CollapseIf
<1>8. ~Leaves(base, more)
  BY <1>6 DEF Leaves
<1> QED
  BY <1>1, <1>2, <1>3, <1>4, <1>5, <1>6, <1>7, <1>8

(* What is put behind a directory comes after what the directory comes to. *)
LEMMA CleanBehind ==
  ASSUME NEW base \in Seq(Segments), NEW dir \in [abs : BOOLEAN, segs : Seq(Segments)],
         NEW seg, Plain(seg), ~Leaves(base, dir)
  PROVE  /\ Behind(dir, <<seg>>) \in [abs : BOOLEAN, segs : Seq(Segments)]
         /\ ~Leaves(base, Behind(dir, <<seg>>))
         /\ Clean(base, dir) \in Seq(Segments)
         /\ Clean(base, Behind(dir, <<seg>>)) = Append(Clean(base, dir), seg)
<1>1. PICK w : w = Walked(base, dir)
  OBVIOUS
<1>2. w \in Walks
  BY <1>1, OneMore DEF Plain
<1>3. w.segs \in Seq(Segments) /\ w.pops \in Nat
  BY <1>2 DEF Walks
<1>4. CollapseIf(Settles(w.pops), w.segs) = CollapseIf(w.pops > 0, w.segs)
  <2>1. CASE w.pops = 0
    BY <2>1 DEF Settles
  <2>2. CASE w.pops = 1
    <3>1. CollapseSeparator(w.segs) = w.segs
      BY <1>1, <2>2 DEF Leaves
    <3> QED BY <2>2, <3>1 DEF Settles, CollapseIf
  <2>3. CASE w.pops > 1
    BY <2>3, <1>3 DEF Settles, CollapseIf
  <2> QED BY <1>3, <2>1, <2>2, <2>3
<1>5. Clean(base, dir) = CollapseIf(w.pops > 0, w.segs)
  BY <1>1 DEF Clean
<1>6. Clean(base, dir) \in Seq(Segments)
  BY CleanTyped DEF Typed
<1>7. /\ Behind(dir, <<seg>>) \in [abs : BOOLEAN, segs : Seq(Segments)]
      /\ ~Leaves(base, Behind(dir, <<seg>>))
      /\ Clean(base, Behind(dir, <<seg>>)) = Append(CollapseIf(Settles(w.pops), w.segs), seg)
  BY <1>1, PlainStep
<1> QED
  BY <1>4, <1>5, <1>6, <1>7

(* Two segments are put behind a directory one after the other. *)
LEMMA BehindTwo ==
  ASSUME NEW dir \in [abs : BOOLEAN, segs : Seq(Segments)], NEW s \in Segments, NEW t \in Segments
  PROVE  Behind(dir, <<s, t>>) = Behind(Behind(dir, <<s>>), <<t>>)
<1>1. PICK at \in Seq(Segments) : at = dir.segs
  OBVIOUS
<1>2. <<s>> \in Seq(Segments) /\ <<t>> \in Seq(Segments) /\ <<s, t>> \in Seq(Segments)
  OBVIOUS
<1>3. <<s>> \o <<t>> = <<s, t>>
  <2>1. PICK a \in Seq(Segments) : a = <<s>> /\ Len(a) = 1 /\ a[1] = s
    BY <1>2
  <2>2. PICK b \in Seq(Segments) : b = <<t>> /\ Len(b) = 1 /\ b[1] = t
    BY <1>2
  <2>3. PICK c : c = a \o b
    OBVIOUS
  <2>4. c \in Seq(Segments) /\ Len(c) = 2 /\ c[1] = s /\ c[2] = t
    BY <2>1, <2>2, <2>3, ConcatProperties
  <2>5. c = <<s, t>>
    BY <1>2, <2>4, SeqEqual
  <2> QED BY <2>1, <2>2, <2>3, <2>5
<1>4. (at \o <<s>>) \o <<t>> = at \o (<<s>> \o <<t>>)
  BY <1>2, ConcatAssociative
<1> QED
  BY <1>1, <1>3, <1>4 DEF Behind

(* What the segments after a database name, by how many there are. *)
NamedInside(part, rest, what) ==
  /\ Len(rest) = 1 /\ rest[1] # "_design"
       => what = Place("document", DocID(part, rest[1]), NoName)
  /\ Len(rest) = 2 /\ rest[1] = "_design" /\ part = NoPart
       => what = Place("designdoc", <<"_design/", rest[2]>>, NoName)
  /\ Len(rest) = 4 /\ rest[1] = "_design" /\ rest[3] \in DOMAIN IndexKind
       => what = Place(IndexKind[rest[3]], <<"_design/", rest[2]>>, rest[4])
  /\ what.kind = "designdoc" => Len(rest) = 2 /\ rest[1] = "_design" /\ part = NoPart
  /\ what.kind = "view" => Len(rest) = 4 /\ rest[1] = "_design" /\ rest[3] = "_view"

LEMMA InsideNames ==
  ASSUME NEW part, NEW rest \in Seq(Segments)
  PROVE  NamedInside(part, rest, Inside(part, rest))
<1> SUFFICES ASSUME NEW what, what = Inside(part, rest) PROVE NamedInside(part, rest, what)
  OBVIOUS
<1> DEFINE in == InDesign(part, rest)
<1>1. /\ Len(rest) \in Nat /\ (rest = <<>> <=> Len(rest) = 0)
      /\ \A s \in DOMAIN IndexKind :
           /\ IndexKind[s] \notin {"designdoc", "document", "attachment", "none", "database", "partition"}
           /\ IndexKind[s] = "view" => s = "_view"
  BY DEF IndexKind
<1>2. rest # <<>> /\ rest[1] = "_design" /\ Len(rest) # 1 => what = in
  BY DEF Inside
<1>3. rest # <<>> /\ rest[1] # "_design"
        => what \in {Place("document", DocID(part, rest[1]), NoName),
                     Place("attachment", DocID(part, rest[1]), rest[2]), Unresolved}
  BY DEF Inside
<1>4. Len(rest) = 1 /\ rest[1] # "_design" => what = Place("document", DocID(part, rest[1]), NoName)
  BY <1>1 DEF Inside
<1>5. CASE rest = <<>> \/ (rest # <<>> /\ rest[1] = "_design" /\ Len(rest) = 1)
  <2>1. what.kind \notin {"designdoc", "view"}
    BY <1>5, <1>1 DEF Inside, Place, Unresolved
  <2> QED BY <1>5, <1>1, <2>1 DEF NamedInside
<1>6. CASE rest # <<>> /\ rest[1] # "_design"
  <2>1. what.kind \notin {"designdoc", "view"}
    BY <1>6, <1>3 DEF Place, Unresolved
  <2> QED BY <1>4, <1>6, <2>1 DEF NamedInside
<1>7. CASE rest # <<>> /\ rest[1] = "_design" /\ Len(rest) # 1
  <2> DEFINE id == <<"_design/", rest[2]>>
  <2>1. Len(rest) = 2 /\ part = NoPart => in = Place("designdoc", id, NoName)
    BY DEF InDesign
  <2>2. Len(rest) = 4 /\ rest[3] \in DOMAIN IndexKind => in = Place(IndexKind[rest[3]], id, rest[4])
    BY DEF InDesign
  <2>3. \/ Len(rest) = 2 /\ part = NoPart
        \/ Len(rest) = 4 /\ rest[3] \in DOMAIN IndexKind
        \/ in = Place("attachment", id, rest[3])
        \/ in = Unresolved
    BY DEF InDesign
  <2>4. what = in
    BY <1>2, <1>7
  <2> HIDE DEF in, id
  <2>5. /\ \A k, i, n : Place(k, i, n).kind = k
        /\ Unresolved.kind = "none"
    BY DEF Place, Unresolved
  <2>6. in.kind = "designdoc" => Len(rest) = 2 /\ part = NoPart
    BY <1>1, <2>2, <2>3, <2>5
  <2>7. in.kind = "view" => Len(rest) = 4 /\ rest[3] = "_view"
    BY <1>1, <2>1, <2>2, <2>3, <2>5
  <2> QED BY <1>7, <2>1, <2>2, <2>4, <2>6, <2>7 DEF id, NamedInside
<1> QED
  BY <1>5, <1>6, <1>7

(* No segment holds a bad escape. *)
Well(path) == \A i \in 1..Len(path) : path[i] \notin Malformed

LEMMA WellIs ==
  ASSUME NEW path \in Seq(Segments)
  PROVE  Well(path) <=> ToSet(path) \cap Malformed = {}
BY DEF Well, ToSet

LEMMA Decoded == \A seg \in Segments : Decode(seg) \in Segments /\ Decode(seg) # NoPart
BY PathsAssumption DEF Decode

(* The names after a database, and after a partition of it. *)
LEMMA RestOf ==
  ASSUME NEW d \in Seq(Segments), d # <<>>
  PROVE  /\ Tail(d) \in Seq(Segments) /\ Len(Tail(d)) = Len(d) - 1
         /\ \A i \in 1..(Len(d) - 1) : Tail(d)[i] = d[i + 1]
         /\ Len(d) >= 3 => /\ SubSeq(d, 4, Len(d)) \in Seq(Segments)
                           /\ Len(SubSeq(d, 4, Len(d))) = Len(d) - 3
                           /\ \A i \in 1..(Len(d) - 3) : SubSeq(d, 4, Len(d))[i] = d[i + 3]
<1>1. PICK n \in Nat : n = Len(d)
  OBVIOUS
<1>2. \A i \in 4..n : d[i] \in Segments
  BY <1>1
<1>3. PICK u : u = SubSeq(d, 4, n)
  OBVIOUS
<1>4. /\ u \in Seq(Segments) /\ Len(u) = (IF 4 =< n THEN n - 4 + 1 ELSE 0)
      /\ \A i \in 1..(n - 4 + 1) : u[i] = d[4 + i - 1]
  BY <1>2, <1>3, SubSeqProperties
<1>5. n >= 3 => Len(u) = n - 3 /\ \A i \in 1..(n - 3) : u[i] = d[i + 3]
  BY <1>4
<1>6. PICK v : v = Tail(d)
  OBVIOUS
<1>7. v \in Seq(Segments) /\ Len(v) = n - 1 /\ \A i \in 1..(n - 1) : v[i] = d[i + 1]
  BY <1>1, <1>6, HeadTailProperties
<1> QED
  BY <1>1, <1>3, <1>4, <1>5, <1>6, <1>7

What(t) == Place(t.kind, t.id, t.name)

(* A target t over the decoded segments d: behind a database, behind a partition,
   or neither. *)
OfDatabase(t, d) ==
  /\ Len(d) = 1 \/ d[2] # "_partition"
  /\ t.part = NoPart
  /\ t.kind = Inside(NoPart, Tail(d)).kind
  /\ t.id = Inside(NoPart, Tail(d)).id /\ t.name = Inside(NoPart, Tail(d)).name
OfNothing(t, d) == Len(d) = 2 /\ d[2] = "_partition" /\ t.kind = "none"
OfPartition(t, d) ==
  /\ Len(d) >= 3 /\ d[2] = "_partition"
  /\ t.part = d[3]
  /\ t.kind = Inside(d[3], SubSeq(d, 4, Len(d))).kind
  /\ t.id = Inside(d[3], SubSeq(d, 4, Len(d))).id
  /\ t.name = Inside(d[3], SubSeq(d, 4, Len(d))).name

(* The decoded segments d of a path, and what a target over them may be. *)
Reads(d, path) ==
  /\ d \in Seq(Segments) /\ Len(d) = Len(path)
  /\ \A i \in 1..Len(path) : d[i] = Decode(path[i])
Names(t, d) == OfDatabase(t, d) \/ OfNothing(t, d) \/ OfPartition(t, d)

(* A target is what is named behind its database or its partition. *)
LEMMA ResolveParts ==
  ASSUME NEW base \in Seq(Segments), NEW input, Typed(input),
         NEW path, path = Clean(base, input), NEW t, t = Resolve(base, input)
  PROVE  /\ path \in Seq(Segments)
         /\ path # <<>> => t.db = Decode(path[1])
         /\ ~Well(path) => t.kind = "none"
         /\ Well(path) /\ path = <<>> => What(t) = Place("server", NoID, NoName)
         /\ path # <<>> => \E d : Reads(d, path) /\ (Well(path) => Names(t, d))
<1> DEFINE dec == [i \in DOMAIN path |-> Decode(path[i])]
           target(part, what) ==
             [kind |-> what.kind, id |-> what.id, name |-> what.name, path |-> path,
              part |-> part, db |-> IF path = <<>> THEN NoName ELSE dec[1]]
<1>1. /\ path \in Seq(Segments) /\ Len(path) \in Nat /\ DOMAIN path = 1..Len(path)
      /\ (path = <<>> <=> Len(path) = 0) /\ \A i \in 1..Len(path) : path[i] \in Segments
      /\ Well(path) <=> ToSet(path) \cap Malformed = {}
  <2>1. path \in Seq(Segments)
    BY CleanTyped
  <2> QED BY <2>1, WellIs
<1>2. t = IF ToSet(path) \cap Malformed # {} THEN target(NoPart, Unresolved)
          ELSE IF path = <<>> THEN target(NoPart, Place("server", NoID, NoName))
          ELSE IF Len(path) = 1 \/ dec[2] # "_partition" THEN target(NoPart, Inside(NoPart, Tail(dec)))
          ELSE IF Len(path) = 2 THEN target(NoPart, Unresolved)
          ELSE target(dec[3], Inside(dec[3], SubSeq(dec, 4, Len(dec))))
  BY DEF Resolve
<1>3. PICK d : d = dec
  OBVIOUS
<1>4. /\ d \in Seq(Segments) /\ Len(d) = Len(path)
      /\ \A i \in 1..Len(path) : d[i] = Decode(path[i])
  BY <1>1, <1>3, Decoded
<1>5. /\ path # <<>> => t.db = Decode(path[1])
      /\ Unresolved.kind = "none"
      /\ Place("server", NoID, NoName).kind = "server"
      /\ Place("server", NoID, NoName).id = NoID
      /\ Place("server", NoID, NoName).name = NoName
  BY <1>1, <1>2, <1>3, <1>4 DEF Unresolved, Place
<1>6. t = IF ToSet(path) \cap Malformed # {} THEN target(NoPart, Unresolved)
          ELSE IF path = <<>> THEN target(NoPart, Place("server", NoID, NoName))
          ELSE IF Len(path) = 1 \/ d[2] # "_partition" THEN target(NoPart, Inside(NoPart, Tail(d)))
          ELSE IF Len(path) = 2 THEN target(NoPart, Unresolved)
          ELSE target(d[3], Inside(d[3], SubSeq(d, 4, Len(d))))
  BY <1>2, <1>3
<1> HIDE DEF dec
<1>7. \A part, what :
        /\ target(part, what).kind = what.kind /\ target(part, what).id = what.id
        /\ target(part, what).name = what.name /\ target(part, what).part = part
  OBVIOUS
<1> HIDE DEF target
<1>8. ~Well(path) => t.kind = "none"
  BY <1>1, <1>5, <1>6, <1>7
<1>9. Well(path) /\ path = <<>> => What(t) = Place("server", NoID, NoName)
  BY <1>1, <1>5, <1>6, <1>7 DEF What
<1>10. ASSUME Well(path), path # <<>>, Len(path) = 1 \/ d[2] # "_partition"
       PROVE  OfDatabase(t, d)
  BY <1>1, <1>4, <1>6, <1>7, <1>10 DEF OfDatabase
<1>11. ASSUME Well(path), path # <<>>, Len(path) = 2, d[2] = "_partition" PROVE OfNothing(t, d)
  BY <1>1, <1>4, <1>5, <1>6, <1>7, <1>11 DEF OfNothing
<1>12. ASSUME Well(path), Len(path) >= 3, d[2] = "_partition" PROVE OfPartition(t, d)
  BY <1>1, <1>4, <1>6, <1>7, <1>12 DEF OfPartition
<1>13. path # <<>> => Len(path) = 1 \/ Len(path) = 2 \/ Len(path) >= 3
  BY <1>1
<1>14. Reads(d, path)
  BY <1>4 DEF Reads
<1>15. path # <<>> /\ Well(path) => Names(t, d)
  BY <1>10, <1>11, <1>12, <1>13 DEF Names
<1> QED
  BY <1>1, <1>5, <1>8, <1>9, <1>14, <1>15

LEMMA PlaceIs ==
  \A k, i, n : Place(k, i, n).kind = k /\ Place(k, i, n).id = i /\ Place(k, i, n).name = n
BY DEF Place

(* What is named behind a database, by how many segments there are. *)
LEMMA DatabaseNames ==
  ASSUME NEW d \in Seq(Segments), d # <<>>, NEW t, OfDatabase(t, d)
  PROVE  /\ Len(d) = 1 => What(t) = Place("database", NoID, NoName)
         /\ Len(d) = 2 /\ d[2] # "_design" => What(t) = Place("document", DocID(NoPart, d[2]), NoName)
         /\ Len(d) = 3 /\ d[2] = "_design"
              => What(t) = Place("designdoc", <<"_design/", d[3]>>, NoName)
         /\ Len(d) = 5 /\ d[2] = "_design" /\ d[4] \in DOMAIN IndexKind
              => What(t) = Place(IndexKind[d[4]], <<"_design/", d[3]>>, d[5])
         /\ t.kind = "designdoc" => Len(d) = 3 /\ d[2] = "_design"
         /\ t.kind = "view" => Len(d) = 5 /\ d[2] = "_design" /\ d[4] = "_view"
         /\ t.kind # "partition"
<1>1. PICK n \in Nat : n = Len(d) /\ n >= 1
  OBVIOUS
<1>2. PICK rest : rest = Tail(d)
  OBVIOUS
<1>3. PICK part : part = NoPart
  OBVIOUS
<1>4. PICK w : w = Inside(part, rest)
  OBVIOUS
<1>5. What(t) = Place(w.kind, w.id, w.name) /\ t.kind = w.kind
  BY <1>2, <1>3, <1>4 DEF OfDatabase, What
<1>6. /\ rest \in Seq(Segments) /\ Len(rest) = n - 1
      /\ \A i \in 1..(n - 1) : rest[i] = d[i + 1]
  BY <1>1, <1>2, RestOf
<1>7. /\ n = 1 <=> Len(rest) = 0
      /\ n = 2 <=> Len(rest) = 1
      /\ n = 3 <=> Len(rest) = 2
      /\ n = 5 <=> Len(rest) = 4
  BY <1>1, <1>6
<1>8. /\ n >= 2 => d[2] = rest[1]
      /\ n >= 3 => d[3] = rest[2]
      /\ n >= 4 => d[4] = rest[3]
      /\ n >= 5 => d[5] = rest[4]
  BY <1>1, <1>6
<1>9. w.kind # "partition" /\ (Len(rest) = 0 => w = Place("database", NoID, NoName))
  <2>1. w.kind # "partition"
    BY <1>3, <1>4, InsideIs
  <2>2. Len(rest) = 0 => rest = <<>>
    BY <1>6
  <2> QED BY <1>3, <1>4, <2>1, <2>2 DEF Inside
<1>10. /\ Len(rest) = 1 /\ rest[1] # "_design"
              => w = Place("document", DocID(part, rest[1]), NoName)
       /\ Len(rest) = 2 /\ rest[1] = "_design" /\ part = NoPart
              => w = Place("designdoc", <<"_design/", rest[2]>>, NoName)
       /\ Len(rest) = 4 /\ rest[1] = "_design" /\ rest[3] \in DOMAIN IndexKind
              => w = Place(IndexKind[rest[3]], <<"_design/", rest[2]>>, rest[4])
       /\ w.kind = "designdoc" => Len(rest) = 2 /\ rest[1] = "_design" /\ part = NoPart
       /\ w.kind = "view" => Len(rest) = 4 /\ rest[1] = "_design" /\ rest[3] = "_view"
  <2>1. NamedInside(part, rest, w)
    BY <1>4, <1>6, InsideNames
  <2> QED BY <2>1 DEF NamedInside
<1>11. n = 1 => What(t) = Place("database", NoID, NoName)
  BY <1>5, <1>7, <1>9, PlaceIs
<1>12. n = 2 /\ d[2] # "_design" => What(t) = Place("document", DocID(NoPart, d[2]), NoName)
  BY <1>3, <1>5, <1>7, <1>8, <1>10, PlaceIs
<1>13. n = 3 /\ d[2] = "_design" => What(t) = Place("designdoc", <<"_design/", d[3]>>, NoName)
  BY <1>3, <1>5, <1>7, <1>8, <1>10, PlaceIs
<1>14. n = 5 /\ d[2] = "_design" /\ d[4] \in DOMAIN IndexKind
         => What(t) = Place(IndexKind[d[4]], <<"_design/", d[3]>>, d[5])
  BY <1>5, <1>7, <1>8, <1>10, PlaceIs
<1>15. t.kind = "designdoc" => n = 3 /\ d[2] = "_design"
  BY <1>5, <1>7, <1>8, <1>10
<1>16. t.kind = "view" => n = 5 /\ d[2] = "_design" /\ d[4] = "_view"
  BY <1>5, <1>7, <1>8, <1>10
<1> QED
  BY <1>1, <1>5, <1>9, <1>11, <1>12, <1>13, <1>14, <1>15, <1>16

(* And behind a partition. *)
LEMMA PartitionNames ==
  ASSUME NEW d \in Seq(Segments), NEW t, OfPartition(t, d)
  PROVE  /\ Len(d) = 4 /\ d[4] # "_design" => What(t) = Place("document", DocID(d[3], d[4]), NoName)
         /\ Len(d) = 7 /\ d[4] = "_design" /\ d[6] \in DOMAIN IndexKind
              => What(t) = Place(IndexKind[d[6]], <<"_design/", d[5]>>, d[7])
         /\ t.kind # "designdoc"
         /\ t.kind = "view" => Len(d) = 7 /\ d[4] = "_design" /\ d[6] = "_view"
<1>1. PICK n \in Nat : n = Len(d) /\ n >= 3
  BY DEF OfPartition
<1>2. PICK rest : rest = SubSeq(d, 4, Len(d))
  OBVIOUS
<1>3. PICK part : part = d[3]
  OBVIOUS
<1>4. PICK w : w = Inside(part, rest)
  OBVIOUS
<1>5. What(t) = Place(w.kind, w.id, w.name) /\ t.kind = w.kind
  BY <1>2, <1>3, <1>4 DEF OfPartition, What
<1>6. /\ rest \in Seq(Segments) /\ Len(rest) = n - 3
      /\ \A i \in 1..(n - 3) : rest[i] = d[i + 3]
  <2>1. d # <<>>
    BY <1>1
  <2> QED BY <1>1, <1>2, <2>1, RestOf
<1>7. (n = 4 <=> Len(rest) = 1) /\ (n = 7 <=> Len(rest) = 4)
  BY <1>1, <1>6
<1>8. /\ n >= 4 => d[4] = rest[1]
      /\ n >= 5 => d[5] = rest[2]
      /\ n >= 6 => d[6] = rest[3]
      /\ n >= 7 => d[7] = rest[4]
  BY <1>1, <1>6
<1>9. part # NoPart
  <2>1. d[3] \in Segments
    BY <1>1
  <2> QED BY <1>3, <2>1, PathsAssumption
<1>10. /\ Len(rest) = 1 /\ rest[1] # "_design"
              => w = Place("document", DocID(part, rest[1]), NoName)
       /\ Len(rest) = 4 /\ rest[1] = "_design" /\ rest[3] \in DOMAIN IndexKind
              => w = Place(IndexKind[rest[3]], <<"_design/", rest[2]>>, rest[4])
       /\ w.kind = "designdoc" => Len(rest) = 2 /\ rest[1] = "_design" /\ part = NoPart
       /\ w.kind = "view" => Len(rest) = 4 /\ rest[1] = "_design" /\ rest[3] = "_view"
  <2>1. NamedInside(part, rest, w)
    BY <1>4, <1>6, InsideNames
  <2> QED BY <2>1 DEF NamedInside
<1>11. n = 4 /\ d[4] # "_design" => What(t) = Place("document", DocID(part, d[4]), NoName)
  BY <1>5, <1>7, <1>8, <1>10, PlaceIs
<1>12. n = 7 /\ d[4] = "_design" /\ d[6] \in DOMAIN IndexKind
         => What(t) = Place(IndexKind[d[6]], <<"_design/", d[5]>>, d[7])
  BY <1>5, <1>7, <1>8, <1>10, PlaceIs
<1>13. t.kind # "designdoc"
  BY <1>5, <1>9, <1>10
<1>14. t.kind = "view" => n = 7 /\ d[4] = "_design" /\ d[6] = "_view"
  BY <1>5, <1>7, <1>8, <1>10
<1> QED
  BY <1>1, <1>3, <1>11, <1>12, <1>13, <1>14

LEMMA NotEmpty == \A s : Len(s) = 1 \/ Len(s) = 2 \/ Len(s) = 3 \/ Len(s) = 4 => s # <<>>
<1> SUFFICES Len(<<>>) = 0
  OBVIOUS
<1> QED
  OBVIOUS

LEMMA WordIs == \A word \in Words : Plain(word) /\ word \notin Malformed /\ Decode(word) = word
<1> SUFFICES ASSUME NEW word \in Words PROVE Plain(word) /\ word \notin Malformed /\ Decode(word) = word
  OBVIOUS
<1>1. word \in Segments /\ word \notin DOMAIN Unescaped /\ word \notin Malformed
  BY EscapeAssumption
<1>2. word \notin {".", ".."}
  BY DEF Words, IndexKind
<1> QED
  BY <1>1, <1>2 DEF Plain, Decode

(* A name that is no word of a path, as its escaped segment is read. *)
LEMMA EncodeIs ==
  ASSUME NEW n \in Written \cup {NoName}, Encode(n) \notin {NoName, ".", ".."}
  PROVE  Plain(Encode(n)) /\ Encode(n) \notin Malformed /\ Decode(Encode(n)) = n
<1>1. n # NoName
  BY EscapeAssumption DEF Encode
<1>2. n \in Written
  BY <1>1
<1>3. Encode(n) \in Segments \ Malformed /\ Decode(Encode(n)) = n
  BY <1>2, EscapeAssumption
<1> QED
  BY <1>3 DEF Plain

LEMMA WordsAreNotEscaped == \A n : n \in Words => Encode(n) = n
BY EscapeAssumption DEF Encode

LEMMA WellAppend ==
  ASSUME NEW path \in Seq(Segments), Well(path), NEW seg \in Segments, seg \notin Malformed
  PROVE  /\ Append(path, seg) \in Seq(Segments) /\ Len(Append(path, seg)) = Len(path) + 1
         /\ \A i \in 1..Len(path) : Append(path, seg)[i] = path[i]
         /\ Append(path, seg)[Len(path) + 1] = seg
         /\ Well(Append(path, seg))
<1>1. PICK more : more = Append(path, seg)
  OBVIOUS
<1>2. PICK n \in Nat : n = Len(path)
  OBVIOUS
<1>3. /\ more \in Seq(Segments) /\ Len(more) = n + 1
      /\ \A i \in 1..n : more[i] = path[i]
      /\ more[n + 1] = seg
  BY <1>1, <1>2, AppendProperties
<1>4. Well(more)
  <2> SUFFICES ASSUME NEW i \in 1..(n + 1) PROVE more[i] \notin Malformed
    BY <1>3 DEF Well
  <2>1. i \in 1..n \/ i = n + 1
    BY <1>2
  <2> QED BY <1>2, <1>3, <2>1 DEF Well
<1> QED
  BY <1>1, <1>2, <1>3, <1>4

(* The decoded segments d of a path that has the segment seg behind it. *)
ReadsOn(d, path, seg) ==
  /\ d \in Seq(Segments) /\ Len(d) = Len(path) + 1
  /\ \A i \in 1..Len(path) : d[i] = Decode(path[i])
  /\ d[Len(path) + 1] = Decode(seg)

(* A line that has one segment more than its directory. *)
GoesOn(base, more, path, seg) ==
  /\ more \in [abs : BOOLEAN, segs : Seq(Segments)] /\ ~Leaves(base, more)
  /\ path \in Seq(Segments)
  /\ Clean(base, more) = Append(path, seg) /\ Well(Clean(base, more))

(* What such a line names. *)
LEMMA Onto ==
  ASSUME NEW base \in Seq(Segments), NEW dir \in [abs : BOOLEAN, segs : Seq(Segments)],
         ~Leaves(base, dir), Well(Clean(base, dir)), NEW seg, Plain(seg), seg \notin Malformed
  PROVE  /\ GoesOn(base, Behind(dir, <<seg>>), Clean(base, dir), seg)
         /\ \E d : /\ ReadsOn(d, Clean(base, dir), seg)
                   /\ Resolve(base, Behind(dir, <<seg>>)).db = d[1]
                   /\ Names(Resolve(base, Behind(dir, <<seg>>)), d)
<1>1. PICK more : more = Behind(dir, <<seg>>)
  OBVIOUS
<1>2. PICK path : path = Clean(base, dir)
  OBVIOUS
<1>3. PICK t : t = Resolve(base, more)
  OBVIOUS
<1>4. PICK longer : longer = Clean(base, more)
  OBVIOUS
<1>5. /\ more \in [abs : BOOLEAN, segs : Seq(Segments)] /\ ~Leaves(base, more)
      /\ path \in Seq(Segments) /\ longer = Append(path, seg)
  BY <1>1, <1>2, <1>4, CleanBehind
<1>6. PICK n \in Nat : n = Len(path)
  BY <1>5
<1>7. /\ longer \in Seq(Segments) /\ Len(longer) = n + 1
      /\ \A i \in 1..n : longer[i] = path[i]
      /\ longer[n + 1] = seg
      /\ Well(longer)
  BY <1>2, <1>5, <1>6, WellAppend DEF Plain
<1>8. longer # <<>>
  BY <1>7
<1>9. Typed(more)
  BY <1>5 DEF Typed
<1>10. PICK d : Reads(d, longer) /\ (Well(longer) => Names(t, d))
  BY <1>3, <1>4, <1>8, <1>9, ResolveParts
<1>11. t.db = Decode(longer[1])
  BY <1>3, <1>4, <1>8, <1>9, ResolveParts
<1>12. /\ d \in Seq(Segments) /\ Len(d) = n + 1 /\ Names(t, d)
       /\ \A i \in 1..(n + 1) : d[i] = Decode(longer[i])
  BY <1>7, <1>10 DEF Reads
<1>13. /\ \A i \in 1..n : d[i] = Decode(path[i])
       /\ d[n + 1] = Decode(seg) /\ t.db = d[1]
  <2>1. \A i \in 1..n : i \in 1..(n + 1)
    OBVIOUS
  <2>2. n + 1 \in 1..(n + 1) /\ 1 \in 1..(n + 1)
    OBVIOUS
  <2> QED BY <1>7, <1>11, <1>12, <2>1, <2>2
<1>14. ReadsOn(d, path, seg)
  BY <1>6, <1>12, <1>13 DEF ReadsOn
<1>15. GoesOn(base, more, path, seg)
  BY <1>4, <1>5, <1>7 DEF GoesOn
<1> QED
  BY <1>1, <1>2, <1>3, <1>12, <1>13, <1>14, <1>15

(* Where a target is. *)
IsAt(t, path) ==
  /\ path \in Seq(Segments) /\ Well(path)
  /\ path # <<>> => t.db = Decode(path[1])
  /\ t.kind = "server" => path = <<>>
  /\ t.kind = "database" => Len(path) = 1 /\ t.part = NoPart
  /\ t.kind = "partition" => /\ Len(path) = 3 /\ Decode(path[2]) = "_partition"
                             /\ t.part = Decode(path[3]) /\ t.part # NoPart
  /\ t.kind = "designdoc" => /\ Len(path) = 3 /\ Decode(path[2]) = "_design"
                             /\ t.id = <<"_design/", Decode(path[3])>>

LEMMA TargetAt ==
  ASSUME NEW base \in Seq(Segments), NEW dir \in [abs : BOOLEAN, segs : Seq(Segments)],
         NEW t, t = Resolve(base, dir), t.kind # "none"
  PROVE  IsAt(t, Clean(base, dir))
<1>1. PICK path : path = Clean(base, dir)
  OBVIOUS
<1>2. Typed(dir)
  BY DEF Typed
<1>3. /\ path \in Seq(Segments) /\ Well(path)
      /\ path # <<>> => t.db = Decode(path[1])
      /\ path = <<>> => What(t) = Place("server", NoID, NoName)
  BY <1>1, <1>2, ResolveParts
<1>4. /\ t.kind = "server" => path = <<>>
      /\ t.kind = "database" => Len(path) = 1
      /\ t.kind = "partition" => Len(path) = 3 /\ Decode(path[2]) = "_partition"
  BY <1>1, <1>2, ResolveIs
<1>5. path = <<>> => t.kind \notin {"database", "partition", "designdoc"}
  BY <1>3 DEF What, Place
<1>6. ASSUME path # <<>>
      PROVE  /\ t.kind = "database" => t.part = NoPart
             /\ t.kind = "partition" => t.part = Decode(path[3]) /\ t.part # NoPart
             /\ t.kind = "designdoc" => /\ Len(path) = 3 /\ Decode(path[2]) = "_design"
                                        /\ t.id = <<"_design/", Decode(path[3])>>
  <2>0. PICK d : Reads(d, path) /\ (Well(path) => Names(t, d))
    BY <1>1, <1>2, <1>6, ResolveParts
  <2>1. /\ d \in Seq(Segments) /\ Names(t, d)
        /\ Len(d) = Len(path) /\ \A i \in 1..Len(path) : d[i] = Decode(path[i])
    BY <1>3, <2>0 DEF Reads
  <2>2. PICK n \in Nat : n = Len(path) /\ n = Len(d) /\ n >= 1
    BY <1>3, <1>6, <2>1
  <2>3. OfDatabase(t, d) \/ OfPartition(t, d)
    <3>1. ~OfNothing(t, d)
      BY DEF OfNothing
    <3> QED BY <2>1, <3>1 DEF Names
  <2>4. t.kind = "database" => t.part = NoPart
    BY <1>4, <2>2, <2>3 DEF OfDatabase, OfPartition
  <2>5. t.kind = "partition" => t.part = Decode(path[3]) /\ t.part # NoPart
    <3> SUFFICES ASSUME t.kind = "partition"
                 PROVE  t.part = Decode(path[3]) /\ t.part # NoPart
      OBVIOUS
    <3>1. n = 3 /\ d[2] = "_partition" /\ d[3] = Decode(path[3]) /\ d[3] \in Segments
      BY <1>4, <2>1, <2>2
    <3>2. t.part = d[3]
      BY <2>2, <2>3, <3>1 DEF OfDatabase, OfPartition
    <3> QED BY <3>1, <3>2, PathsAssumption
  <2>6. ASSUME t.kind = "designdoc"
        PROVE  /\ Len(path) = 3 /\ Decode(path[2]) = "_design"
               /\ t.id = <<"_design/", Decode(path[3])>>
    <3>1. ~OfPartition(t, d)
      BY <2>1, <2>6, PartitionNames
    <3>2. OfDatabase(t, d) /\ d # <<>>
      BY <2>2, <2>3, <3>1
    <3>3. n = 3 /\ d[2] = "_design" /\ What(t) = Place("designdoc", <<"_design/", d[3]>>, NoName)
      BY <2>1, <2>2, <2>6, <3>2, DatabaseNames
    <3>4. t.id = <<"_design/", d[3]>>
      BY <3>3 DEF What, Place
    <3>5. d[2] = Decode(path[2]) /\ d[3] = Decode(path[3])
      BY <2>1, <2>2, <3>3
    <3> QED BY <2>2, <3>3, <3>4, <3>5
  <2> QED BY <2>4, <2>5, <2>6
<1> QED
  BY <1>1, <1>3, <1>4, <1>5, <1>6 DEF IsAt

(* A completed line, and what it is to lead to. *)
Leads(base, c) == LET t == Resolve(base, c.input) IN t.db = c.db /\ What(t) = c.what

(* A database that is offered is named. *)
LEMMA LeadsToDatabase ==
  ASSUME NEW base \in Seq(Segments), NEW dir \in [abs : BOOLEAN, segs : Seq(Segments)],
         ~Leaves(base, dir), Resolve(base, dir).kind = "server",
         NEW name \in Written, Encode(name) \notin {".", ".."}
  PROVE  Leads(base, Candidate(Behind(dir, <<Encode(name)>>), name, Place("database", NoID, NoName)))
<1>1. PICK more : more = Behind(dir, <<Encode(name)>>)
  OBVIOUS
<1>2. PICK t : t = Resolve(base, more)
  OBVIOUS
<1>3. Well(Clean(base, dir)) /\ Clean(base, dir) = <<>>
  BY TargetAt DEF IsAt
<1>4. Encode(name) \in Segments
  BY EscapeAssumption
<1>5. Plain(Encode(name)) /\ Encode(name) \notin Malformed /\ Decode(Encode(name)) = name
  BY EscapeAssumption DEF Plain
<1>6. PICK d : ReadsOn(d, Clean(base, dir), Encode(name)) /\ t.db = d[1] /\ Names(t, d)
  BY <1>1, <1>2, <1>3, <1>5, Onto
<1>7. d \in Seq(Segments) /\ Len(d) = 1 /\ d[1] = name
  BY <1>3, <1>5, <1>6 DEF ReadsOn
<1>8. OfDatabase(t, d) /\ d # <<>>
  <2>1. d # <<>>
    BY <1>7, NotEmpty, Zenon
  <2>2. ~OfNothing(t, d) /\ ~OfPartition(t, d)
    BY <1>7 DEF OfNothing, OfPartition
  <2> QED BY <1>6, <2>1, <2>2 DEF Names
<1>9. What(t) = Place("database", NoID, NoName)
  BY <1>6, <1>7, <1>8, DatabaseNames
<1> QED
  BY <1>1, <1>2, <1>6, <1>7, <1>9 DEF Leads, Candidate

(* The form of an id. *)
LEMMA IdIs ==
  ASSUME NEW id \in IdsKnown
  PROVE  /\ id = <<id[1], id[2]>> /\ id[2] \in Written \cup {NoName}
         /\ id[1] = "_design/" => NameOf(id) = id[2]
         /\ id[1] # "_design/" => /\ NameOf(id) \in Written \cup {NoName}
                                  /\ DocID(NoPart, NameOf(id)) = id
                                  /\ NameOf(id) \notin DOMAIN Designed
<1>1. /\ id = <<id[1], id[2]>> /\ id[2] \in Written \cup {NoName}
      /\ id[1] = NoPart => id[2] \notin DOMAIN Keyed
      /\ id[1] \notin {NoPart, "_design/"} => \E n \in DOMAIN Keyed : Keyed[n] = id
      /\ id[1] # "_design/" => NameOf(id) \notin DOMAIN Designed
  BY NamesAssumption
<1>2. \A n \in DOMAIN Keyed : n \in Written /\ Keyed[n][1] \notin {NoPart, "_design/"}
  BY NamesAssumption
<1>3. CASE \E n \in DOMAIN Keyed : Keyed[n] = id
  <2>1. PICK name : name = NameOf(id)
    OBVIOUS
  <2>2. name \in DOMAIN Keyed /\ Keyed[name] = id
    BY <1>3, <2>1 DEF NameOf
  <2>3. DocID(NoPart, name) = id
    BY <2>2 DEF DocID
  <2>4. id[1] # "_design/" /\ name \in Written
    BY <1>2, <2>2
  <2> QED BY <1>1, <2>1, <2>3, <2>4
<1>4. CASE ~\E n \in DOMAIN Keyed : Keyed[n] = id
  <2>1. NameOf(id) = id[2]
    BY <1>4 DEF NameOf
  <2>2. id[1] # "_design/" => id[1] = NoPart
    BY <1>1, <1>4
  <2>3. id[1] = NoPart => DocID(NoPart, id[2]) = <<"", id[2]>>
    BY <1>1 DEF DocID
  <2> QED BY <1>1, <2>1, <2>2, <2>3 DEF NoPart
<1> QED
  BY <1>3, <1>4

(* A document that is offered in a database is named. *)
LEMMA LeadsToDocument ==
  ASSUME NEW base \in Seq(Segments), NEW dir \in [abs : BOOLEAN, segs : Seq(Segments)],
         ~Leaves(base, dir), NEW t, t = Resolve(base, dir), t.kind = "database",
         NEW id \in IdsKnown, id[1] # "_design/",
         Encode(NameOf(id)) \notin {NoName, ".", "..", "_design", "_partition"}
  PROVE  Leads(base, Candidate(Behind(dir, <<Encode(NameOf(id))>>), t.db, Place("document", id, NoName)))
<1>1. PICK n : n = NameOf(id)
  OBVIOUS
<1>2. n \in Written \cup {NoName} /\ DocID(NoPart, n) = id
  BY <1>1, IdIs
<1>3. PICK more : more = Behind(dir, <<Encode(n)>>)
  OBVIOUS
<1>4. PICK u : u = Resolve(base, more)
  OBVIOUS
<1>5. PICK path : path = Clean(base, dir)
  OBVIOUS
<1>6. Well(path) /\ path \in Seq(Segments) /\ Len(path) = 1 /\ t.db = Decode(path[1])
  <2>1. path \in Seq(Segments) /\ Well(path) /\ Len(path) = 1 /\ (path # <<>> => t.db = Decode(path[1]))
    <3>1. IsAt(t, path)
      BY <1>5, TargetAt
    <3> QED BY <3>1 DEF IsAt
  <2>2. path # <<>>
    BY <2>1, NotEmpty, Zenon
  <2> QED BY <2>1, <2>2
<1>7. Plain(Encode(n)) /\ Encode(n) \notin Malformed /\ Decode(Encode(n)) = n
  BY <1>1, <1>2, EncodeIs
<1>8. PICK d : ReadsOn(d, path, Encode(n)) /\ u.db = d[1] /\ Names(u, d)
  BY <1>3, <1>4, <1>5, <1>6, <1>7, Onto
<1>9. d \in Seq(Segments) /\ Len(d) = 2 /\ d[1] = t.db /\ d[2] = n
  BY <1>6, <1>7, <1>8 DEF ReadsOn
<1>10. n \notin {"_design", "_partition"}
  BY <1>1, WordsAreNotEscaped DEF Words
<1>11. OfDatabase(u, d) /\ d # <<>>
  BY <1>8, <1>9, <1>10 DEF Names, OfNothing, OfPartition
<1>12. What(u) = Place("document", DocID(NoPart, n), NoName)
  BY <1>8, <1>9, <1>10, <1>11, DatabaseNames
<1> QED
  BY <1>1, <1>2, <1>3, <1>4, <1>8, <1>9, <1>12 DEF Leads, Candidate

(* A path, and one segment behind it. *)
Longer(at, path, word) ==
  /\ at \in Seq(Segments) /\ Len(at) = Len(path) + 1
  /\ \A i \in 1..Len(path) : at[i] = path[i]
  /\ at[Len(path) + 1] = word

LEMMA AppendIs ==
  ASSUME NEW path \in Seq(Segments), NEW word \in Segments
  PROVE  Longer(Append(path, word), path, word)
<1>1. PICK at : at = Append(path, word)
  OBVIOUS
<1>2. PICK n \in Nat : n = Len(path)
  OBVIOUS
<1>3. /\ at \in Seq(Segments) /\ Len(at) = n + 1
      /\ \A i \in 1..n : at[i] = path[i]
      /\ at[n + 1] = word
  BY <1>1, <1>2, AppendProperties
<1> QED
  BY <1>1, <1>2, <1>3 DEF Longer

(* A design document, too, behind its word. *)
LEMMA LeadsToDesign ==
  ASSUME NEW base \in Seq(Segments), NEW dir \in [abs : BOOLEAN, segs : Seq(Segments)],
         ~Leaves(base, dir), NEW t, t = Resolve(base, dir), t.kind = "database",
         NEW id \in IdsKnown, id[1] = "_design/",
         Encode(id[2]) \notin {NoName, ".", ".."}
  PROVE  Leads(base, Candidate(Behind(dir, <<"_design", Encode(id[2])>>), t.db,
                               Place("designdoc", id, NoName)))
<1>1. PICK n : n = id[2]
  OBVIOUS
<1>2. n \in Written \cup {NoName} /\ id = <<"_design/", n>>
  BY <1>1, IdIs
<1>3. PICK mid : mid = Behind(dir, <<"_design">>)
  OBVIOUS
<1>4. PICK more : more = Behind(mid, <<Encode(n)>>)
  OBVIOUS
<1>5. PICK u : u = Resolve(base, more)
  OBVIOUS
<1>6. PICK path : path = Clean(base, dir)
  OBVIOUS
<1>7. Well(path) /\ path \in Seq(Segments) /\ Len(path) = 1 /\ t.db = Decode(path[1])
  <2>1. path \in Seq(Segments) /\ Well(path) /\ Len(path) = 1 /\ (path # <<>> => t.db = Decode(path[1]))
    <3>1. IsAt(t, path)
      BY <1>6, TargetAt
    <3> QED BY <3>1 DEF IsAt
  <2>2. path # <<>>
    BY <2>1, NotEmpty, Zenon
  <2> QED BY <2>1, <2>2
<1>8. Plain(Encode(n)) /\ Encode(n) \notin Malformed /\ Decode(Encode(n)) = n
  BY <1>1, <1>2, EncodeIs
<1>9. Plain("_design") /\ "_design" \notin Malformed /\ Decode("_design") = "_design"
  BY WordIs DEF Words
<1>10. PICK at : at = Clean(base, mid)
  OBVIOUS
<1>11. /\ mid \in [abs : BOOLEAN, segs : Seq(Segments)] /\ ~Leaves(base, mid)
       /\ at = Append(path, "_design") /\ Well(at)
  <2>1. GoesOn(base, mid, path, "_design")
    BY <1>3, <1>6, <1>7, <1>9, Onto
  <2> QED BY <1>10, <2>1 DEF GoesOn
<1>12. at \in Seq(Segments) /\ Len(at) = 2 /\ at[1] = path[1] /\ at[2] = "_design"
  <2>1. "_design" \in Segments
    BY <1>9 DEF Plain
  <2>2. Longer(at, path, "_design")
    BY <1>7, <1>11, <2>1, AppendIs
  <2>3. /\ at \in Seq(Segments) /\ Len(at) = Len(path) + 1
        /\ \A i \in 1..Len(path) : at[i] = path[i]
        /\ at[Len(path) + 1] = "_design"
    BY <2>2 DEF Longer
  <2>4. 1 \in 1..Len(path)
    BY <1>7
  <2> QED BY <1>7, <2>3, <2>4
<1>13. PICK d : ReadsOn(d, at, Encode(n)) /\ u.db = d[1] /\ Names(u, d)
  BY <1>4, <1>5, <1>8, <1>10, <1>11, Onto
<1>14. /\ d \in Seq(Segments) /\ Len(d) = 3
       /\ d[1] = t.db /\ d[2] = "_design" /\ d[3] = n
  BY <1>7, <1>8, <1>9, <1>12, <1>13 DEF ReadsOn
<1>15. OfDatabase(u, d) /\ d # <<>>
  <2>1. d # <<>>
    BY <1>14, NotEmpty, Zenon
  <2>2. ~OfNothing(u, d) /\ ~OfPartition(u, d)
    BY <1>14 DEF OfNothing, OfPartition
  <2> QED BY <1>13, <2>1, <2>2 DEF Names
<1>16. What(u) = Place("designdoc", <<"_design/", n>>, NoName)
  BY <1>13, <1>14, <1>15, DatabaseNames
<1>17. Behind(dir, <<"_design", Encode(n)>>) = more
  BY <1>3, <1>4, <1>8, <1>9, BehindTwo DEF Plain
<1> QED
  BY <1>1, <1>2, <1>5, <1>13, <1>14, <1>16, <1>17 DEF Leads, Candidate

(* A document that is offered in its partition is named, by its rest. *)
LEMMA LeadsIntoPartition ==
  ASSUME NEW base \in Seq(Segments), NEW dir \in [abs : BOOLEAN, segs : Seq(Segments)],
         ~Leaves(base, dir), NEW t, t = Resolve(base, dir), t.kind = "partition",
         NEW id \in IdsKnown, id[1] = t.part, ~Twice(id),
         Encode(id[2]) \notin {NoName, ".", "..", "_design"}
  PROVE  Leads(base, Candidate(Behind(dir, <<Encode(id[2])>>), t.db, Place("document", id, NoName)))
<1>1. PICK n : n = id[2]
  OBVIOUS
<1>2. n \in Written \cup {NoName} /\ id = <<t.part, n>>
  BY <1>1, IdIs
<1>3. PICK more : more = Behind(dir, <<Encode(n)>>)
  OBVIOUS
<1>4. PICK u : u = Resolve(base, more)
  OBVIOUS
<1>5. PICK path : path = Clean(base, dir)
  OBVIOUS
<1>6. /\ Well(path) /\ path \in Seq(Segments) /\ Len(path) = 3 /\ t.db = Decode(path[1])
      /\ Decode(path[2]) = "_partition" /\ t.part = Decode(path[3]) /\ t.part # NoPart
  <2>1. /\ path \in Seq(Segments) /\ Well(path) /\ Len(path) = 3
        /\ (path # <<>> => t.db = Decode(path[1]))
        /\ Decode(path[2]) = "_partition" /\ t.part = Decode(path[3]) /\ t.part # NoPart
    <3>1. IsAt(t, path)
      BY <1>5, TargetAt
    <3> QED BY <3>1 DEF IsAt
  <2>2. path # <<>>
    BY <2>1, NotEmpty, Zenon
  <2> QED BY <2>1, <2>2
<1>7. Plain(Encode(n)) /\ Encode(n) \notin Malformed /\ Decode(Encode(n)) = n
  BY <1>1, <1>2, EncodeIs
<1>8. PICK d : ReadsOn(d, path, Encode(n)) /\ u.db = d[1] /\ Names(u, d)
  BY <1>3, <1>4, <1>5, <1>6, <1>7, Onto
<1>9. /\ d \in Seq(Segments) /\ Len(d) = 4
      /\ d[1] = t.db /\ d[2] = "_partition" /\ d[3] = t.part /\ d[4] = n
  BY <1>6, <1>7, <1>8 DEF ReadsOn
<1>10. n # "_design"
  BY <1>1, WordsAreNotEscaped DEF Words
<1>11. OfPartition(u, d)
  BY <1>8, <1>9 DEF Names, OfNothing, OfDatabase
<1>12. What(u) = Place("document", DocID(t.part, n), NoName)
  BY <1>8, <1>9, <1>10, <1>11, PartitionNames
<1>13. DocID(t.part, n) = <<t.part, n>>
  BY <1>1, <1>2, <1>6 DEF DocID, PartitionDocID, Twice
<1> QED
  BY <1>1, <1>2, <1>3, <1>4, <1>8, <1>9, <1>12, <1>13 DEF Leads, Candidate

(* Where a design document is, in a partition or not. *)
DesignAt(u, path) ==
  /\ path \in Seq(Segments) /\ Well(path) /\ u.db = Decode(path[1])
  /\ \/ /\ Len(path) = 3 /\ Decode(path[2]) = "_design"
        /\ u.id = <<"_design/", Decode(path[3])>>
     \/ /\ Len(path) = 5 /\ Decode(path[2]) = "_partition" /\ Decode(path[4]) = "_design"
        /\ u.id = <<"_design/", Decode(path[5])>>

(* A walk that has left a partition stands before the partition's separator. *)
LEMMA LeavesIs ==
  ASSUME NEW base \in Seq(Segments), NEW dir \in [abs : BOOLEAN, segs : Seq(Segments)],
         Leaves(base, dir)
  PROVE  Len(Clean(base, dir)) = 1 /\ Len(Walked(base, dir).segs) = 2
<1>1. PICK w : w = Walked(base, dir)
  OBVIOUS
<1>2. w.pops = 1 /\ CollapseSeparator(w.segs) # w.segs
  BY <1>1 DEF Leaves
<1>3. Len(w.segs) = 2 /\ CollapseSeparator(w.segs) = <<w.segs[1]>>
  BY <1>2 DEF CollapseSeparator
<1>4. Clean(base, dir) = <<w.segs[1]>>
  BY <1>1, <1>2, <1>3 DEF Clean, CollapseIf
<1> QED
  BY <1>1, <1>3, <1>4

(* An index is named by a path of five segments, or of seven in a partition. *)
LEMMA ViewIs ==
  ASSUME NEW d \in Seq(Segments), NEW t, Names(t, d), d # <<>>, t.kind = "view"
  PROVE  \/ /\ OfDatabase(t, d) /\ Len(d) = 5 /\ d[2] = "_design" /\ d[4] = "_view"
            /\ t.id = <<"_design/", d[3]>>
         \/ /\ OfPartition(t, d) /\ Len(d) = 7 /\ d[2] = "_partition" /\ d[4] = "_design"
            /\ d[6] = "_view" /\ t.id = <<"_design/", d[5]>>
<1>0. "_view" \in DOMAIN IndexKind
  BY DEF IndexKind
<1>1. CASE OfDatabase(t, d)
  <2>1. Len(d) = 5 /\ d[2] = "_design" /\ d[4] = "_view"
    BY <1>1, DatabaseNames
  <2>2. What(t) = Place(IndexKind[d[4]], <<"_design/", d[3]>>, d[5])
    BY <1>0, <1>1, <2>1, DatabaseNames
  <2>3. t.id = <<"_design/", d[3]>>
    BY <2>2 DEF What, Place
  <2> QED BY <1>1, <2>1, <2>3
<1>2. CASE OfPartition(t, d)
  <2>1. Len(d) = 7 /\ d[4] = "_design" /\ d[6] = "_view"
    BY <1>2, PartitionNames
  <2>2. What(t) = Place(IndexKind[d[6]], <<"_design/", d[5]>>, d[7])
    BY <1>0, <1>2, <2>1, PartitionNames
  <2>3. t.id = <<"_design/", d[5]>>
    BY <2>2 DEF What, Place
  <2>4. d[2] = "_partition"
    BY <1>2 DEF OfPartition
  <2> QED BY <1>2, <2>1, <2>3, <2>4
<1>3. ~OfNothing(t, d)
  BY DEF OfNothing
<1> QED
  BY <1>1, <1>2, <1>3 DEF Names

(* The decoded segments d of a path that has the segments s and r behind it. *)
ReadsTwo(d, path, s, r) ==
  /\ d \in Seq(Segments) /\ Len(d) = Len(path) + 2
  /\ \A i \in 1..Len(path) : d[i] = Decode(path[i])
  /\ d[Len(path) + 1] = Decode(s) /\ d[Len(path) + 2] = Decode(r)

(* What follows two words behind a directory that does not leave a partition. *)
LEMMA TwoOn ==
  ASSUME NEW base \in Seq(Segments), NEW f \in [abs : BOOLEAN, segs : Seq(Segments)],
         ~Leaves(base, f), Well(Clean(base, f)),
         NEW s, Plain(s), s \notin Malformed, NEW r, Plain(r), r \notin Malformed
  PROVE  \E d : /\ ReadsTwo(d, Clean(base, f), s, r)
                /\ Resolve(base, Behind(Behind(f, <<s>>), <<r>>)).db = d[1]
                /\ Names(Resolve(base, Behind(Behind(f, <<s>>), <<r>>)), d)
<1>1. PICK path : path = Clean(base, f)
  OBVIOUS
<1>2. PICK mid : mid = Behind(f, <<s>>)
  OBVIOUS
<1>3. PICK more : more = Behind(mid, <<r>>)
  OBVIOUS
<1>4. PICK t : t = Resolve(base, more)
  OBVIOUS
<1>5. PICK at : at = Clean(base, mid)
  OBVIOUS
<1>6. GoesOn(base, mid, path, s)
  BY <1>1, <1>2, Onto
<1>7. /\ mid \in [abs : BOOLEAN, segs : Seq(Segments)] /\ ~Leaves(base, mid)
      /\ path \in Seq(Segments) /\ at = Append(path, s) /\ Well(at)
  BY <1>5, <1>6 DEF GoesOn
<1>8. Longer(at, path, s)
  BY <1>7, AppendIs DEF Plain
<1>9. PICK n \in Nat : n = Len(path)
  BY <1>7
<1>10. /\ at \in Seq(Segments) /\ Len(at) = n + 1
       /\ \A i \in 1..n : at[i] = path[i]
       /\ at[n + 1] = s
  BY <1>8, <1>9 DEF Longer
<1>11. PICK d : ReadsOn(d, at, r) /\ t.db = d[1] /\ Names(t, d)
  BY <1>3, <1>4, <1>5, <1>7, Onto
<1>12. /\ d \in Seq(Segments) /\ Len(d) = n + 1 + 1
       /\ \A i \in 1..(n + 1) : d[i] = Decode(at[i])
       /\ d[n + 1 + 1] = Decode(r)
  BY <1>10, <1>11 DEF ReadsOn
<1>13. n + 1 + 1 = n + 2 /\ n + 1 \in 1..(n + 1) /\ \A i \in 1..n : i \in 1..(n + 1)
  OBVIOUS
<1>14. /\ d \in Seq(Segments) /\ Len(d) = n + 2
       /\ \A i \in 1..n : d[i] = Decode(path[i])
       /\ d[n + 1] = Decode(s) /\ d[n + 2] = Decode(r)
  BY <1>10, <1>12, <1>13
<1>15. ReadsTwo(d, path, s, r)
  BY <1>9, <1>14 DEF ReadsTwo
<1> QED
  BY <1>1, <1>2, <1>3, <1>4, <1>11, <1>15

LEMMA WordsOfDesigns ==
  /\ Plain("_view") /\ "_view" \notin Malformed /\ Decode("_view") = "_view"
  /\ Plain("_design") /\ Plain("_partition")
  /\ Plain("x") /\ "x" \notin Malformed
<1>1. "_view" \in Words /\ "_design" \in Words /\ "_partition" \in Words
  BY DEF Words, IndexKind
<1>2. "x" \in Segments /\ "x" \notin Malformed
  BY PathsAssumption, BrowseAssumption
<1> QED
  BY <1>1, <1>2, WordIs DEF Plain

(* The probe behind a directory that leaves a partition is no index. *)
LEMMA NoProbe ==
  ASSUME NEW base \in Seq(Segments), NEW f \in [abs : BOOLEAN, segs : Seq(Segments)],
         Leaves(base, f)
  PROVE  Resolve(base, Behind(Behind(f, <<"_view">>), <<"x">>)).kind # "view"
<1>1. PICK mid : mid = Behind(f, <<"_view">>)
  OBVIOUS
<1>2. PICK more : more = Behind(mid, <<"x">>)
  OBVIOUS
<1>3. PICK t : t = Resolve(base, more)
  OBVIOUS
<1>4. PICK w : w = Walked(base, f)
  OBVIOUS
<1>5. /\ w.pops = 1 /\ Len(w.segs) = 2
      /\ w.segs \in Seq(Segments)
  <2>1. w \in Walks
    BY <1>4, OneMore, WordsOfDesigns DEF Plain
  <2> QED BY <1>4, <2>1, LeavesIs DEF Walks, Leaves
<1>6. /\ mid \in [abs : BOOLEAN, segs : Seq(Segments)] /\ ~Leaves(base, mid)
      /\ Clean(base, mid) = Append(CollapseIf(Settles(w.pops), w.segs), "_view")
  BY <1>1, <1>4, PlainStep, WordsOfDesigns
<1>7. Clean(base, mid) = Append(w.segs, "_view")
  BY <1>5, <1>6 DEF Settles, CollapseIf
<1>8. PICK at : at = Clean(base, mid)
  OBVIOUS
<1>9. Longer(at, w.segs, "_view")
  BY <1>5, <1>7, <1>8, AppendIs, WordsOfDesigns DEF Plain
<1>10. at \in Seq(Segments) /\ Len(at) = 3
  BY <1>5, <1>9 DEF Longer
<1>11. /\ more \in [abs : BOOLEAN, segs : Seq(Segments)]
       /\ Clean(base, more) = Append(at, "x")
  BY <1>2, <1>6, <1>8, CleanBehind, WordsOfDesigns
<1>12. PICK path : path = Clean(base, more)
  OBVIOUS
<1>13. Longer(path, at, "x")
  BY <1>10, <1>11, <1>12, AppendIs, WordsOfDesigns DEF Plain
<1>14. path \in Seq(Segments) /\ Len(path) = 4 /\ path # <<>>
  <2>1. path \in Seq(Segments) /\ Len(path) = 4
    BY <1>10, <1>13 DEF Longer
  <2> QED BY <2>1, NotEmpty, Zenon
<1>15. SUFFICES ASSUME t.kind = "view" PROVE FALSE
  BY <1>1, <1>2, <1>3
<1>16. Typed(more)
  BY <1>11 DEF Typed
<1>17. Well(path)
  BY <1>3, <1>12, <1>15, <1>16, ResolveParts
<1>18. PICK d : Reads(d, path) /\ (Well(path) => Names(t, d))
  BY <1>3, <1>12, <1>14, <1>16, ResolveParts
<1>19. d \in Seq(Segments) /\ Len(d) = 4 /\ Names(t, d)
  BY <1>14, <1>17, <1>18 DEF Reads
<1>20. d # <<>>
  BY <1>19, NotEmpty, Zenon
<1>21. Len(d) = 5 \/ Len(d) = 7
  BY <1>15, <1>19, <1>20, ViewIs
<1> QED
  BY <1>19, <1>21

(* The design document under which the probe finds an index. *)
LEMMA ProbeIs ==
  ASSUME NEW base \in Seq(Segments), NEW f \in [abs : BOOLEAN, segs : Seq(Segments)],
         Resolve(base, f).kind = "none",
         NEW u, u = Resolve(base, Behind(Behind(f, <<"_view">>), <<"x">>)), u.kind = "view"
  PROVE  DesignAt(u, Clean(base, f)) /\ ~Leaves(base, f)
<1>1. ~Leaves(base, f)
  BY NoProbe
<1>2. PICK path : path = Clean(base, f)
  OBVIOUS
<1>3. PICK mid : mid = Behind(f, <<"_view">>)
  OBVIOUS
<1>4. PICK more : more = Behind(mid, <<"x">>)
  OBVIOUS
<1>5. /\ mid \in [abs : BOOLEAN, segs : Seq(Segments)] /\ ~Leaves(base, mid)
      /\ path \in Seq(Segments) /\ Clean(base, mid) = Append(path, "_view")
  BY <1>1, <1>2, <1>3, CleanBehind, WordsOfDesigns
<1>6. /\ more \in [abs : BOOLEAN, segs : Seq(Segments)]
      /\ Clean(base, more) = Append(Clean(base, mid), "x")
  BY <1>4, <1>5, CleanBehind, WordsOfDesigns
<1>7. Well(Clean(base, more))
  <2>1. Typed(more)
    BY <1>6 DEF Typed
  <2> QED BY <1>3, <1>4, <2>1, ResolveParts
<1>8. Well(path)
  <2>1. PICK at : at = Clean(base, mid)
    OBVIOUS
  <2>2. Longer(at, path, "_view")
    BY <1>5, <2>1, AppendIs, WordsOfDesigns DEF Plain
  <2>3. PICK long : long = Clean(base, more)
    OBVIOUS
  <2>4. at \in Seq(Segments)
    BY <2>2 DEF Longer
  <2>5. Longer(long, at, "x")
    BY <1>6, <2>1, <2>3, <2>4, AppendIs, WordsOfDesigns DEF Plain
  <2>6. PICK n \in Nat : n = Len(path)
    BY <1>5
  <2>7. /\ Len(at) = n + 1 /\ \A i \in 1..n : at[i] = path[i]
        /\ \A i \in 1..(n + 1) : long[i] = at[i]
        /\ Len(long) = n + 1 + 1
    BY <2>2, <2>5, <2>6 DEF Longer
  <2>8. \A i \in 1..n : i \in 1..(n + 1 + 1) /\ i \in 1..(n + 1)
    OBVIOUS
  <2> QED BY <1>7, <2>3, <2>6, <2>7, <2>8 DEF Well
<1>9. PICK d : ReadsTwo(d, path, "_view", "x") /\ u.db = d[1] /\ Names(u, d)
  BY <1>1, <1>2, <1>8, TwoOn, WordsOfDesigns
<1>10. PICK n \in Nat : n = Len(path)
  BY <1>5
<1>11. /\ d \in Seq(Segments) /\ Len(d) = n + 2 /\ \A i \in 1..n : d[i] = Decode(path[i])
       /\ d[n + 1] = "_view"
  BY <1>9, <1>10, WordsOfDesigns DEF ReadsTwo
<1>12. d # <<>>
  BY <1>11
<1>13. \/ /\ OfDatabase(u, d) /\ Len(d) = 5 /\ d[2] = "_design"
       \/ /\ Len(d) = 7 /\ d[2] = "_partition" /\ d[4] = "_design"
          /\ u.id = <<"_design/", d[5]>>
  BY <1>9, <1>11, <1>12, ViewIs
<1>14. ASSUME Len(d) = 5, d[2] = "_design" PROVE FALSE
  <2>1. n = 3 /\ Len(path) = 3 /\ path # <<>>
    <3>1. n + 2 = 5
      BY <1>11, <1>14
    <3>2. n = 3
      BY <3>1
    <3>3. Len(path) = 3
      BY <1>10, <3>2
    <3> QED BY <3>2, <3>3, NotEmpty, Zenon
  <2>2. PICK t : t = Resolve(base, f)
    OBVIOUS
  <2>3. Typed(f)
    BY DEF Typed
  <2>4. PICK e : Reads(e, path) /\ (Well(path) => Names(t, e))
    BY <1>2, <2>1, <2>2, <2>3, ResolveParts
  <2>5. e \in Seq(Segments) /\ Len(e) = 3 /\ Names(t, e) /\ e[2] = Decode(path[2])
    BY <1>8, <2>1, <2>4 DEF Reads
  <2>6. e[2] = "_design"
    BY <1>11, <1>14, <2>1, <2>5
  <2>7. e # <<>> /\ OfDatabase(t, e)
    BY <2>5, <2>6 DEF Names, OfNothing, OfPartition
  <2>8. What(t) = Place("designdoc", <<"_design/", e[3]>>, NoName)
    BY <2>5, <2>6, <2>7, DatabaseNames
  <2>9. t.kind = "designdoc"
    BY <2>8 DEF What, Place
  <2> QED BY <2>2, <2>9
<1>15. n = 5 /\ d[2] = "_partition" /\ d[4] = "_design" /\ u.id = <<"_design/", d[5]>>
  BY <1>11, <1>13, <1>14
<1>16. /\ Decode(path[1]) = d[1] /\ Decode(path[2]) = "_partition"
       /\ Decode(path[4]) = "_design" /\ Decode(path[5]) = d[5]
  BY <1>11, <1>15
<1> QED
  BY <1>1, <1>2, <1>5, <1>8, <1>9, <1>10, <1>15, <1>16 DEF DesignAt

(* A design document that is typed out. *)
LEMMA DesignIs ==
  ASSUME NEW base \in Seq(Segments), NEW f \in [abs : BOOLEAN, segs : Seq(Segments)],
         NEW u, u = Resolve(base, f), u.kind = "designdoc"
  PROVE  DesignAt(u, Clean(base, f)) /\ ~Leaves(base, f)
<1>1. PICK path : path = Clean(base, f)
  OBVIOUS
<1>2. IsAt(u, path)
  BY <1>1, TargetAt
<1>3. /\ path \in Seq(Segments) /\ Well(path) /\ Len(path) = 3 /\ Decode(path[2]) = "_design"
      /\ u.id = <<"_design/", Decode(path[3])>>
      /\ (path # <<>> => u.db = Decode(path[1]))
  BY <1>2 DEF IsAt
<1>4. path # <<>>
  <2>1. Len(path) = 3
    BY <1>3
  <2> QED BY <2>1, NotEmpty, Zenon
<1>5. ~Leaves(base, f)
  <2> SUFFICES ASSUME Leaves(base, f) PROVE FALSE
    OBVIOUS
  <2>1. Len(path) = 1
    BY <1>1, LeavesIs
  <2>2. PICK n \in Nat : n = Len(path) /\ n = 3
    BY <1>3
  <2> QED BY <2>1, <2>2
<1> QED
  BY <1>1, <1>3, <1>4, <1>5 DEF DesignAt

(* An index that is offered behind its design document and its separator is named. *)
LEMMA LeadsToMember ==
  ASSUME NEW base \in Seq(Segments), NEW f \in [abs : BOOLEAN, segs : Seq(Segments)],
         ~Leaves(base, f), NEW u, DesignAt(u, Clean(base, f)),
         NEW sep \in DOMAIN IndexKind,
         NEW n \in Written \cup {NoName}, Encode(n) \notin {NoName, ".", ".."}
  PROVE  Leads(base, Candidate(Behind(Behind(f, <<sep>>), <<Encode(n)>>), u.db,
                               Place(IndexKind[sep], u.id, n)))
<1>1. PICK path : path = Clean(base, f)
  OBVIOUS
<1>2. PICK t : t = Resolve(base, Behind(Behind(f, <<sep>>), <<Encode(n)>>))
  OBVIOUS
<1>3. Plain(Encode(n)) /\ Encode(n) \notin Malformed /\ Decode(Encode(n)) = n
  BY EncodeIs
<1>4. Plain(sep) /\ sep \notin Malformed /\ Decode(sep) = sep
  BY WordIs DEF Words
<1>5. path \in Seq(Segments) /\ Well(path) /\ u.db = Decode(path[1])
  BY <1>1 DEF DesignAt
<1>6. PICK d : ReadsTwo(d, path, sep, Encode(n)) /\ t.db = d[1] /\ Names(t, d)
  BY <1>1, <1>2, <1>3, <1>4, <1>5, TwoOn
<1>7. PICK k \in Nat : k = Len(path)
  BY <1>5
<1>8. /\ d \in Seq(Segments) /\ Len(d) = k + 2 /\ \A i \in 1..k : d[i] = Decode(path[i])
      /\ d[k + 1] = sep /\ d[k + 2] = n
  BY <1>3, <1>4, <1>6, <1>7 DEF ReadsTwo
<1>9. d # <<>>
  BY <1>8
<1>10. CASE k = 3 /\ Decode(path[2]) = "_design" /\ u.id = <<"_design/", Decode(path[3])>>
  <2>1. /\ Len(d) = 5 /\ d[1] = u.db /\ d[2] = "_design" /\ d[4] = sep /\ d[5] = n
        /\ u.id = <<"_design/", d[3]>>
    BY <1>5, <1>8, <1>10
  <2>2. OfDatabase(t, d)
    BY <1>6, <2>1 DEF Names, OfNothing, OfPartition
  <2>3. What(t) = Place(IndexKind[d[4]], <<"_design/", d[3]>>, d[5])
    BY <1>8, <1>9, <2>1, <2>2, DatabaseNames
  <2>4. t.db = u.db /\ What(t) = Place(IndexKind[sep], u.id, n)
    BY <1>6, <2>1, <2>3
  <2> QED BY <1>2, <2>4 DEF Leads, Candidate
<1>11. CASE /\ k = 5 /\ Decode(path[2]) = "_partition" /\ Decode(path[4]) = "_design"
            /\ u.id = <<"_design/", Decode(path[5])>>
  <2>1. /\ Len(d) = 7 /\ d[1] = u.db /\ d[2] = "_partition" /\ d[4] = "_design"
        /\ d[6] = sep /\ d[7] = n /\ u.id = <<"_design/", d[5]>>
    BY <1>5, <1>8, <1>11
  <2>2. OfPartition(t, d)
    BY <1>6, <2>1 DEF Names, OfNothing, OfDatabase
  <2>3. What(t) = Place(IndexKind[d[6]], <<"_design/", d[5]>>, d[7])
    BY <1>8, <2>1, <2>2, PartitionNames
  <2>4. t.db = u.db /\ What(t) = Place(IndexKind[sep], u.id, n)
    BY <1>6, <2>1, <2>3
  <2> QED BY <1>2, <2>4 DEF Leads, Candidate
<1> QED
  BY <1>1, <1>7, <1>10, <1>11 DEF DesignAt

(* Every database has a name that a path can carry, and every document an id of
   those there are; and so has every name that is remembered. *)
Carried(ds) == \A h \in Hosts : /\ DOMAIN ds[h] \subseteq Written
                                /\ \A d \in DOMAIN ds[h] : ds[h][d] \subseteq IdsKnown
Known == Standing /\ Carried(dbs) /\ (names = NotLoaded \/ names \subseteq Written)

LEMMA KnownInitially == BrowseInit => Known
<1> SUFFICES ASSUME BrowseInit PROVE Known
  OBVIOUS
<1>1. Carried(Servers)
  <2> SUFFICES ASSUME NEW h \in Hosts
               PROVE  /\ DOMAIN Servers[h] \subseteq Written
                      /\ \A d \in DOMAIN Servers[h] : Servers[h][d] \subseteq IdsKnown
    BY DEF Carried
  <2>1. DOMAIN Servers[h] \subseteq Written
    BY NamesAssumption
  <2>2. ASSUME NEW d \in DOMAIN Servers[h] PROVE Servers[h][d] \subseteq IdsKnown
    BY DEF IdsKnown
  <2> QED BY <2>1, <2>2
<1> QED
  BY <1>1, StandingInitially DEF BrowseInit, Known

LEMMA CreatedCarries ==
  ASSUME Connected, Carried(dbs), NEW d \in Written, NEW ids, ids \subseteq IdsKnown,
         NEW who, Created(host, d, ids, who)
  PROVE  Carried(dbs)'
<1> SUFFICES ASSUME NEW h \in Hosts
             PROVE  /\ DOMAIN dbs'[h] \subseteq Written
                    /\ \A e \in DOMAIN dbs'[h] : dbs'[h][e] \subseteq IdsKnown
  BY DEF Carried
<1>1. dbs' = [dbs EXCEPT ![host] = With(@, d, ids)] /\ host \in DOMAIN dbs /\ h \in DOMAIN dbs
  BY DEF Created, Connected
<1>2. CASE h = host
  <2>1. dbs'[h] = [e \in DOMAIN dbs[h] \cup {d} |-> IF e = d THEN ids ELSE dbs[h][e]]
    BY <1>1, <1>2 DEF With
  <2> QED BY <2>1 DEF Carried
<1>3. CASE h # host
  <2>1. dbs'[h] = dbs[h]
    BY <1>1, <1>3
  <2> QED BY <2>1 DEF Carried
<1> QED
  BY <1>2, <1>3

LEMMA DestroyedCarries ==
  ASSUME Connected, Carried(dbs), NEW d, NEW who, Destroyed(host, d, who)
  PROVE  Carried(dbs)'
<1> SUFFICES ASSUME NEW h \in Hosts
             PROVE  /\ DOMAIN dbs'[h] \subseteq Written
                    /\ \A e \in DOMAIN dbs'[h] : dbs'[h][e] \subseteq IdsKnown
  BY DEF Carried
<1>1. dbs' = [dbs EXCEPT ![host] = Without(@, d)] /\ host \in DOMAIN dbs /\ h \in DOMAIN dbs
  BY DEF Destroyed, Connected
<1>2. CASE h = host
  <2>1. dbs'[h] = [e \in DOMAIN dbs[h] \ {d} |-> dbs[h][e]]
    BY <1>1, <1>2 DEF Without, Restrict
  <2> QED BY <2>1 DEF Carried
<1>3. CASE h # host
  <2>1. dbs'[h] = dbs[h]
    BY <1>1, <1>3
  <2> QED BY <2>1 DEF Carried
<1> QED
  BY <1>2, <1>3

(* The database that a typed path names has such a name. *)
LEMMA NamedIsWritten ==
  ASSUME cwd \in Seq(Segments), NEW i \in Inputs, Resolve(cwd, i).kind = "database"
  PROVE  Resolve(cwd, i).db \in Written
<1>1. PICK base \in Seq(Segments) : base = cwd
  OBVIOUS
<1>2. i \in [abs : BOOLEAN, segs : Seq(Segments)]
  BY BrowseAssumption
<1>3. PICK t : t = Resolve(base, i)
  OBVIOUS
<1>4. PICK path : path = Clean(base, i)
  OBVIOUS
<1>5. IsAt(t, path)
  BY <1>1, <1>2, <1>3, <1>4, TargetAt
<1>6. /\ path \in Seq(Segments) /\ Well(path) /\ Len(path) = 1
      /\ (path # <<>> => t.db = Decode(path[1]))
  BY <1>1, <1>3, <1>5 DEF IsAt
<1>7. path # <<>>
  <2>1. Len(path) = 1
    BY <1>6
  <2> QED BY <2>1, NotEmpty, Zenon
<1>8. path[1] \in Segments \ Malformed
  <2>1. PICK n \in Nat : n = Len(path) /\ n = 1
    BY <1>6
  <2>2. 1 \in 1..Len(path)
    BY <2>1
  <2>3. path \in Seq(Segments) /\ Well(path)
    BY <1>6
  <2>4. path[1] \notin Malformed
    BY <2>2, <2>3 DEF Well
  <2>5. path[1] \in Segments
    BY <2>2, <2>3
  <2> QED BY <2>4, <2>5
<1> QED
  BY <1>1, <1>3, <1>6, <1>7, <1>8 DEF Written

LEMMA KnownStep == Known /\ [BrowseNext]_browseVars => Known'
<1> SUFFICES ASSUME Known, [BrowseNext]_browseVars PROVE Known'
  OBVIOUS
<1>0. Connected /\ cwd \in Seq(Segments) /\ Carried(dbs)
  BY DEF Known, Standing
<1>s. Standing'
  BY StandingStep DEF Known
<1>a. ASSUME NEW d \in Written, NEW ids \in {{}, Restored}, NEW who, Created(host, d, ids, who),
             names' = names \/ names' = NotLoaded
      PROVE  Known'
  <2>1. ids \subseteq IdsKnown
    BY DEF IdsKnown
  <2>2. Carried(dbs)'
    BY <1>0, <1>a, <2>1, CreatedCarries
  <2> QED BY <1>a, <1>s, <2>2 DEF Known
<1>b. ASSUME NEW d, NEW who, Destroyed(host, d, who), names' = names \/ names' = NotLoaded
      PROVE  Known'
  <2>1. Carried(dbs)'
    BY <1>0, <1>b, DestroyedCarries
  <2> QED BY <1>b, <1>s, <2>1 DEF Known
<1>c. ASSUME dbs' = dbs, names' = names \/ names' = NotLoaded PROVE Known'
  <2>1. Carried(dbs)'
    BY <1>0, <1>c DEF Carried
  <2> QED BY <1>c, <1>s, <2>1 DEF Known
<1>1. CASE Outside
  <2>1. names' = names
    BY <1>1 DEF Outside
  <2>2. ASSUME NEW d \in DOMAIN Servers[host], Destroyed(host, d, "other") PROVE Known'
    BY <2>1, <2>2, <1>b
  <2>3. ASSUME NEW d \in DOMAIN Servers[host], NEW ids \in {{}, Restored},
               Created(host, d, ids, "other")
        PROVE  Known'
    <3>1. d \in Written
      BY <1>0, NamesAssumption DEF Connected
    <3> QED BY <2>1, <2>3, <3>1, <1>a
  <2> QED BY <1>1, <2>2, <2>3 DEF Outside
<1>2. ASSUME NEW i \in Inputs, Cd(i) PROVE Known'
  BY <1>2, <1>c DEF Cd
<1>3. ASSUME NEW i \in Inputs, Rmdir(i) PROVE Known'
  BY <1>3, <1>c DEF Rmdir
<1>4. ASSUME NEW i \in Inputs, RestoreCreate(i) PROVE Known'
  <2>1. PICK t : t = Resolve(cwd, i)
    OBVIOUS
  <2>2. t.kind = "database" /\ Created(host, t.db, Restored, "other") /\ names' = names
    BY <1>4, <2>1 DEF RestoreCreate
  <2>3. t.db \in Written
    BY <1>0, <2>1, <2>2, NamedIsWritten
  <2> QED BY <2>2, <2>3, <1>a
<1>5. ASSUME NEW i, TabFields(i) PROVE Known'
  BY <1>5, <1>c DEF TabFields
<1>6. ASSUME NEW i \in Inputs, NEW a \in Answers, Mkdir(i, a) PROVE Known'
  <2>1. PICK t : t = Resolve(cwd, i)
    OBVIOUS
  <2>2. /\ t.kind = "database" /\ Created(host, t.db, {}, Who(a))
        /\ names' = names \/ names' = NotLoaded
    BY <1>6, <2>1 DEF Mkdir, InvalidateDatabases
  <2>3. t.db \in Written
    BY <1>0, <2>1, <2>2, NamedIsWritten
  <2> QED BY <2>2, <2>3, <1>a
<1>7. ASSUME NEW a \in Answers, ConfirmRmdir(a) PROVE Known'
  <2>1. Destroyed(host, rmdir.db, Who(a)) /\ (names' = names \/ names' = NotLoaded)
    BY <1>7 DEF ConfirmRmdir, InvalidateDatabases
  <2> QED BY <2>1, <1>b
<1>8. ASSUME NEW a \in Answers, UsersAdd(a) PROVE Known'
  <2>1. Created(host, Users, {}, Who(a)) /\ (names' = names \/ names' = NotLoaded)
    BY <1>8 DEF UsersAdd, InvalidateDatabases
  <2>2. Users \in Written
    BY NamesAssumption
  <2> QED BY <2>1, <2>2, <1>a
<1>9. CASE EndRmdir
  BY <1>9, <1>c DEF EndRmdir
<1>10. CASE TabNames
  <2>1. names' = DOMAIN dbs[host] /\ dbs' = dbs
    BY <1>10 DEF TabNames
  <2>2. names' \subseteq Written
    BY <1>0, <2>1 DEF Carried, Connected
  <2>3. Carried(dbs)'
    BY <1>0, <2>1 DEF Carried
  <2> QED BY <1>s, <2>2, <2>3 DEF Known
<1>11. ASSUME NEW h \in Hosts, Connect(h) PROVE Known'
  BY <1>11, <1>c DEF Connect, InvalidateDatabases
<1>12. CASE UNCHANGED browseVars
  BY <1>12, <1>c DEF browseVars
<1> QED
  BY <1>1, <1>2, <1>3, <1>4, <1>5, <1>6, <1>7, <1>8, <1>9, <1>10, <1>11, <1>12
  DEF BrowseNext

(* A target is a record: one that has another kind has the rest in common. *)
Form(t) ==
  t = [kind |-> t.kind, id |-> t.id, name |-> t.name, path |-> t.path, part |-> t.part, db |-> t.db]

LEMMA FormOf == \A base, input : Form(Resolve(base, input))
<1> SUFFICES ASSUME NEW base, NEW input PROVE Form(Resolve(base, input))
  OBVIOUS
<1>1. PICK t : t = Resolve(base, input)
  OBVIOUS
<1>2. \E k, i, n, p, a, b : t = [kind |-> k, id |-> i, name |-> n, path |-> p, part |-> a, db |-> b]
  BY <1>1 DEF Resolve
<1> QED
  BY <1>1, <1>2 DEF Form

(* What is put behind a directory comes last. *)
LEMMA LastIs ==
  ASSUME NEW dir \in [abs : BOOLEAN, segs : Seq(Segments)], NEW seg \in Segments \cup {NoName}
  PROVE  Last(Behind(dir, <<seg>>).segs) = seg
<1>1. PICK s \in Seq(Segments) : s = dir.segs
  OBVIOUS
<1>2. s \in Seq(Segments \cup {NoName}) /\ <<seg>> \in Seq(Segments \cup {NoName})
  <2>1. s \in [1..Len(s) -> Segments] /\ Len(s) \in Nat
    OBVIOUS
  <2>2. s \in [1..Len(s) -> Segments \cup {NoName}]
    BY <2>1
  <2> QED BY <2>1, <2>2
<1>3. PICK t : t = s \o <<seg>>
  OBVIOUS
<1>4. PICK n \in Nat : n = Len(s)
  OBVIOUS
<1>5. Len(<<seg>>) = 1 /\ <<seg>>[1] = seg
  OBVIOUS
<1>6. Len(t) = n + 1 /\ t[n + 1] = seg
  BY <1>2, <1>3, <1>4, <1>5, ConcatProperties
<1>7. Behind(dir, <<seg>>).segs = t
  BY <1>1, <1>3 DEF Behind
<1> QED
  BY <1>6, <1>7 DEF Last

LEMMA LastOfTwo ==
  ASSUME NEW dir \in [abs : BOOLEAN, segs : Seq(Segments)], NEW word \in Segments,
         NEW seg \in Segments \cup {NoName}
  PROVE  Last(Behind(dir, <<word, seg>>).segs) = seg
<1>1. PICK s \in Seq(Segments) : s = dir.segs
  OBVIOUS
<1>2. s \in Seq(Segments \cup {NoName}) /\ <<word, seg>> \in Seq(Segments \cup {NoName})
  <2>1. s \in [1..Len(s) -> Segments] /\ Len(s) \in Nat
    OBVIOUS
  <2>2. s \in [1..Len(s) -> Segments \cup {NoName}]
    BY <2>1
  <2> QED BY <2>1, <2>2
<1>3. PICK t : t = s \o <<word, seg>>
  OBVIOUS
<1>4. PICK n \in Nat : n = Len(s)
  OBVIOUS
<1>5. Len(<<word, seg>>) = 2 /\ <<word, seg>>[2] = seg
  OBVIOUS
<1>6. Len(t) = n + 2 /\ t[n + 2] = seg
  BY <1>2, <1>3, <1>4, <1>5, ConcatProperties
<1>7. Behind(dir, <<word, seg>>).segs = t
  BY <1>1, <1>3 DEF Behind
<1> QED
  BY <1>6, <1>7 DEF Last

(* The separator is cut off and put back. *)
LEMMA CutIs ==
  ASSUME NEW dir \in [abs : BOOLEAN, segs : Seq(Segments)], dir.segs # <<>>
  PROVE  /\ Last(dir.segs) \in Segments
         /\ Cut(dir, <<>>) \in [abs : BOOLEAN, segs : Seq(Segments)]
         /\ Behind(Cut(dir, <<>>), <<Last(dir.segs)>>) = dir
<1>1. PICK s \in Seq(Segments) : s = dir.segs /\ s # <<>>
  OBVIOUS
<1>2. PICK n \in Nat : n = Len(s) /\ n >= 1
  BY <1>1
<1>3. PICK end \in Segments : end = s[n]
  BY <1>1, <1>2
<1>4. PICK u : u = SubSeq(s, 1, n - 1)
  OBVIOUS
<1>5. u \in Seq(Segments) /\ Len(u) = n - 1 /\ \A i \in 1..(n - 1) : u[i] = s[i]
  <2>1. \A i \in 1..(n - 1) : s[i] \in Segments
    BY <1>1, <1>2
  <2> QED BY <1>2, <1>4, <2>1, SubSeqProperties
<1>6. u \o <<>> = u
  BY <1>5, ConcatEmptySeq
<1>7. PICK v : v = u \o <<end>>
  OBVIOUS
<1>8. v = s
  <2>1. <<end>> \in Seq(Segments) /\ Len(<<end>>) = 1 /\ <<end>>[1] = end
    OBVIOUS
  <2>2. /\ v \in Seq(Segments) /\ Len(v) = n - 1 + 1
        /\ \A i \in 1..(n - 1) : v[i] = u[i]
        /\ v[n - 1 + 1] = end
    BY <1>5, <1>7, <2>1, ConcatProperties
  <2>3. Len(v) = n /\ v[n] = end /\ \A i \in 1..n : i \in 1..(n - 1) \/ i = n
    BY <1>2, <2>2
  <2>4. \A i \in 1..n : v[i] = s[i]
    BY <1>3, <1>5, <2>2, <2>3
  <2> QED BY <1>2, <2>2, <2>3, <2>4, SeqEqual
<1>9. PICK f : f = Cut(dir, <<>>)
  OBVIOUS
<1>10. f = [abs |-> dir.abs, segs |-> u]
  <2>1. Front(s) = u
    BY <1>2, <1>4 DEF Front
  <2> QED BY <1>1, <1>6, <1>9, <2>1 DEF Cut
<1>11. Last(dir.segs) = end
  BY <1>1, <1>2, <1>3 DEF Last
<1>12. Behind(f, <<end>>) = dir
  BY <1>1, <1>7, <1>8, <1>10 DEF Behind
<1> QED
  BY <1>3, <1>5, <1>9, <1>10, <1>11, <1>12

(* The design document under which members are offered, wherever it is. *)
LEMMA MembersLead ==
  ASSUME Known, NEW dir \in [abs : BOOLEAN, segs : Seq(Segments)],
         EndsIn(dir, DOMAIN IndexKind),
         NEW u, u = ResolveDesignDoc(Cut(dir, <<>>)),
         NEW c \in MembersOf(dir, u, IndexKind[Last(dir.segs)]), ~Reserved(c)
  PROVE  LeadsTo(c)
<1>1. PICK f : f = Cut(dir, <<>>)
  OBVIOUS
<1>2. PICK sep : sep = Last(dir.segs)
  OBVIOUS
<1>3. /\ f \in [abs : BOOLEAN, segs : Seq(Segments)]
      /\ Behind(f, <<sep>>) = dir /\ sep \in DOMAIN IndexKind
  BY <1>1, <1>2, CutIs DEF EndsIn
<1>4. PICK base \in Seq(Segments) : base = cwd
  BY DEF Known, Standing
<1>5. u.kind = "designdoc" /\ u.id \in Docs(u.db)
  BY DEF MembersOf
<1>6. PICK m \in Members[u.id] :
        c = Candidate(Behind(dir, <<Encode(m[2])>>), u.db, Place(IndexKind[sep], u.id, m[2]))
  BY <1>2, <1>5 DEF MembersOf
<1>7. m[2] \in Written \cup {NoName}
  <2>1. u.id \in IdsKnown
    BY <1>5 DEF Docs, Exists, Known, Carried, Standing, Connected
  <2> QED BY <1>6, <2>1, NamesAssumption
<1>8. Encode(m[2]) \notin {NoName, ".", ".."}
  <2>1. Encode(m[2]) \in Segments \cup {NoName}
    BY <1>7, EscapeAssumption DEF Encode
  <2>2. Last(c.input.segs) = Encode(m[2])
    BY <1>6, <2>1, LastIs DEF Candidate
  <2> QED BY <2>2 DEF Reserved
<1>9. DesignAt(u, Clean(base, f)) /\ ~Leaves(base, f)
  <2>1. PICK t : t = Resolve(base, f)
    OBVIOUS
  <2>2. PICK probe : probe = Resolve(base, Behind(f, <<"_view", "x">>))
    OBVIOUS
  <2>3. u = IF t.kind = "none" /\ probe.kind = "view" THEN [probe EXCEPT !.kind = "designdoc"]
            ELSE IF t.kind = "designdoc" THEN t ELSE [t EXCEPT !.kind = "none"]
    BY <1>1, <1>4, <2>1, <2>2 DEF ResolveDesignDoc
  <2>4. CASE t.kind = "none" /\ probe.kind = "view"
    <3>1. Behind(f, <<"_view", "x">>) = Behind(Behind(f, <<"_view">>), <<"x">>)
      BY <1>3, BehindTwo, WordsOfDesigns DEF Plain
    <3>2. DesignAt(probe, Clean(base, f)) /\ ~Leaves(base, f)
      BY <1>3, <2>1, <2>2, <2>4, <3>1, ProbeIs
    <3>3. u.id = probe.id /\ u.db = probe.db
      <4>1. Form(probe)
        BY <2>2, FormOf
      <4>2. u = [probe EXCEPT !.kind = "designdoc"]
        BY <2>3, <2>4
      <4> QED BY <4>1, <4>2 DEF Form
    <3> QED BY <3>2, <3>3 DEF DesignAt
  <2>5. CASE ~(t.kind = "none" /\ probe.kind = "view")
    <3>1. t.kind = "designdoc" /\ u = t
      <4>1. Form(t)
        BY <2>1, FormOf
      <4>2. [t EXCEPT !.kind = "none"].kind = "none"
        BY <4>1 DEF Form
      <4> QED BY <1>5, <2>3, <2>5, <4>2
    <3> QED BY <1>3, <2>1, <3>1, DesignIs
  <2> QED BY <2>4, <2>5
<1>10. Leads(base, Candidate(Behind(Behind(f, <<sep>>), <<Encode(m[2])>>), u.db,
                            Place(IndexKind[sep], u.id, m[2])))
  BY <1>3, <1>7, <1>8, <1>9, LeadsToMember
<1>11. Leads(base, c)
  BY <1>3, <1>6, <1>10
<1> QED
  BY <1>4, <1>11 DEF Leads, LeadsTo, What

(* Each document that is offered, from a database or from a partition. *)
LEMMA DocumentsLead ==
  ASSUME Known, NEW dir \in [abs : BOOLEAN, segs : Seq(Segments)], ~StepsOut(dir),
         NEW t, t = Resolve(cwd, dir), t.kind \in {"database", "partition"},
         NEW c \in Documents(dir, t), ~Reserved(c), ~Twice(c.what.id),
         ~Disguised(dir, c.what.id)
  PROVE  LeadsTo(c)
<1>1. PICK base \in Seq(Segments) : base = cwd
  BY DEF Known, Standing
<1>2. ~Leaves(base, dir) /\ t = Resolve(base, dir)
  BY <1>1 DEF StepsOut, Leaves
<1>3. PICK id \in {i \in Docs(t.db) : t.part = NoPart \/ i[1] = t.part} :
        c = Candidate(Behind(dir, EncodeDocID(id, Short(t, id))), t.db,
              Place(IF id[1] = "_design/" THEN "designdoc" ELSE "document", id, NoName))
  BY DEF Documents
<1>4. id \in IdsKnown
  <2>1. id \in Docs(t.db)
    BY <1>3
  <2> QED BY <2>1 DEF Docs, Exists, Known, Carried, Standing, Connected
<1>5. c.what.id = id
  BY <1>3 DEF Candidate, Place
<1>6. PICK path : path = Clean(base, dir)
  OBVIOUS
<1>7. IsAt(t, path)
  BY <1>2, <1>6, TargetAt
<1>8. \A n \in Written \cup {NoName} : Encode(n) \in Segments \cup {NoName}
  BY EscapeAssumption DEF Encode
<1>9. CASE t.kind = "database"
  <2>1. t.part = NoPart
    BY <1>7, <1>9 DEF IsAt
  <2>2. Short(t, id) = NameOf(id)
    BY <2>1 DEF Short
  <2>3. CASE id[1] = "_design/"
    <3>1. NameOf(id) = id[2] /\ id[2] \in Written \cup {NoName}
      BY <1>4, <2>3, IdIs
    <3>2. c = Candidate(Behind(dir, <<"_design", Encode(id[2])>>), t.db, Place("designdoc", id, NoName))
      BY <1>3, <2>2, <2>3, <3>1 DEF EncodeDocID
    <3>3. Encode(id[2]) \notin {NoName, ".", ".."}
      <4>1. Encode(id[2]) \in Segments \cup {NoName}
        BY <1>8, <3>1
      <4>2. Last(c.input.segs) = Encode(id[2])
        BY <3>2, <4>1, LastOfTwo, WordsOfDesigns DEF Candidate, Plain
      <4> QED BY <4>2 DEF Reserved
    <3>4. Leads(base, c)
      BY <1>2, <1>4, <1>9, <2>3, <3>2, <3>3, LeadsToDesign
    <3> QED BY <1>1, <3>4 DEF Leads, LeadsTo, What
  <2>4. CASE id[1] # "_design/"
    <3>1. NameOf(id) \in Written \cup {NoName} /\ NameOf(id) \notin DOMAIN Designed
      BY <1>4, <2>4, IdIs
    <3>2. c = Candidate(Behind(dir, <<Encode(NameOf(id))>>), t.db, Place("document", id, NoName))
      BY <1>3, <2>2, <2>4, <3>1 DEF EncodeDocID
    <3>3. Last(c.input.segs) = Encode(NameOf(id))
      BY <1>8, <3>1, <3>2, LastIs DEF Candidate
    <3>4. c.what.kind = "document"
      BY <3>2 DEF Candidate, Place
    <3>5. Encode(NameOf(id)) \notin {NoName, ".", "..", "_design", "_partition"}
      BY <3>3, <3>4 DEF Reserved
    <3>6. Leads(base, c)
      BY <1>2, <1>4, <1>9, <2>4, <3>2, <3>5, LeadsToDocument
    <3> QED BY <1>1, <3>6 DEF Leads, LeadsTo, What
  <2> QED BY <2>3, <2>4
<1>10. CASE t.kind = "partition"
  <2>1. t.part = id[1] /\ t.part # NoPart /\ id[1] # "_design/"
    <3>1. /\ path \in Seq(Segments) /\ Well(path) /\ Len(path) = 3
          /\ t.part = Decode(path[3]) /\ t.part # NoPart
      BY <1>7, <1>10 DEF IsAt
    <3>2. path \in Seq(Segments) /\ Well(path) /\ 3 \in 1..Len(path)
      BY <3>1
    <3>3. path[3] \in Segments \ Malformed
      BY <3>2 DEF Well
    <3>4. t.part \in Written
      BY <3>1, <3>3 DEF Written
    <3> QED BY <1>3, <3>1, <3>4, NamesAssumption
  <2>2. Short(t, id) = id[2]
    BY <2>1 DEF Short, TrimPartition
  <2>3. id[2] \in Written \cup {NoName} /\ id[2] \notin DOMAIN Designed
    BY <1>4, <1>5, <1>10, IdIs DEF Disguised
  <2>4. c = Candidate(Behind(dir, <<Encode(id[2])>>), t.db, Place("document", id, NoName))
    BY <1>3, <2>1, <2>2, <2>3 DEF EncodeDocID
  <2>5. Last(c.input.segs) = Encode(id[2])
    BY <1>8, <2>3, <2>4, LastIs DEF Candidate
  <2>6. c.what.kind = "document"
    BY <2>4 DEF Candidate, Place
  <2>7. Encode(id[2]) \notin {NoName, ".", "..", "_design"}
    BY <2>5, <2>6 DEF Reserved
  <2>8. Leads(base, c)
    BY <1>2, <1>4, <1>5, <1>10, <2>1, <2>4, <2>7, LeadsIntoPartition
  <2> QED BY <1>1, <2>8 DEF Leads, LeadsTo, What
<1> QED
  BY <1>9, <1>10

(* And so each database. *)
LEMMA DatabasesLead ==
  ASSUME Known, NEW dir \in [abs : BOOLEAN, segs : Seq(Segments)], ~StepsOut(dir),
         Resolve(cwd, dir).kind = "server",
         NEW c \in Databases(dir), ~Reserved(c)
  PROVE  LeadsTo(c)
<1>1. PICK base \in Seq(Segments) : base = cwd
  BY DEF Known, Standing
<1>2. ~Leaves(base, dir) /\ Resolve(base, dir).kind = "server"
  BY <1>1 DEF StepsOut, Leaves
<1>3. PICK d \in IF names = NotLoaded THEN DOMAIN dbs[host] ELSE names :
        c = Candidate(Behind(dir, <<Encode(d)>>), d, Place("database", NoID, NoName))
  BY DEF Databases
<1>4. d \in Written
  BY <1>3 DEF Known, Carried, Standing, Connected
<1>5. Encode(d) \in Segments
  BY <1>4, EscapeAssumption
<1>6. Last(c.input.segs) = Encode(d)
  BY <1>3, <1>5, LastIs DEF Candidate
<1>7. Leads(base, c)
  BY <1>2, <1>3, <1>4, <1>6, LeadsToDatabase DEF Reserved
<1> QED
  BY <1>1, <1>7 DEF Leads, LeadsTo, What

LEMMA KnownLeads == Known => CandidatesLead
<1> SUFFICES ASSUME Known, NEW dir \in Dirs, NEW c \in CompletePath(dir),
                    ~StepsOut(dir), ~EndsIn(dir, DOMAIN Suffixed), ~Bare(dir, c),
                    ~Twice(c.what.id), ~Disguised(dir, c.what.id), ~Reserved(c)
             PROVE  LeadsTo(c)
  BY DEF CandidatesLead
<1>1. dir \in [abs : BOOLEAN, segs : Seq(Segments)]
  BY NamesAssumption
<1>2. CASE EndsIn(dir, DOMAIN IndexKind)
  <2>1. c \in MembersOf(dir, ResolveDesignDoc(Cut(dir, <<>>)), IndexKind[Last(dir.segs)])
    BY <1>2 DEF CompletePath
  <2> QED BY <1>1, <1>2, <2>1, MembersLead
<1>3. CASE ~EndsIn(dir, DOMAIN IndexKind)
  <2>1. PICK r : r = Resolve(cwd, dir)
    OBVIOUS
  <2>2. PICK t : t = IF r.kind = "none" THEN ResolveDesignDoc(dir) ELSE r
    OBVIOUS
  <2>3. c \in CASE t.kind = "server"                    -> Databases(dir)
                [] t.kind \in {"database", "partition"} -> Documents(dir, t)
                [] OTHER                                -> MembersOf(dir, t, "view")
    BY <1>3, <2>1, <2>2 DEF CompletePath
  <2>4. r.kind = "none" => t.kind \in {"designdoc", "none"}
    <3> SUFFICES ASSUME r.kind = "none" PROVE t.kind \in {"designdoc", "none"}
      OBVIOUS
    <3>1. PICK probe : probe = Resolve(cwd, Behind(dir, <<"_view", "x">>))
      OBVIOUS
    <3>2. t = IF probe.kind = "view" THEN [probe EXCEPT !.kind = "designdoc"]
              ELSE [r EXCEPT !.kind = "none"]
      BY <2>1, <2>2, <3>1 DEF ResolveDesignDoc
    <3>3. Form(probe) /\ Form(r)
      BY <2>1, <3>1, FormOf
    <3>4. /\ [probe EXCEPT !.kind = "designdoc"].kind = "designdoc"
          /\ [r EXCEPT !.kind = "none"].kind = "none"
      BY <3>3 DEF Form
    <3> QED BY <3>2, <3>4
  <2>5. CASE t.kind = "server"
    <3>1. t = r /\ c \in Databases(dir)
      BY <2>2, <2>3, <2>4, <2>5
    <3> QED BY <1>1, <2>1, <2>5, <3>1, DatabasesLead
  <2>6. CASE t.kind \in {"database", "partition"}
    <3>1. t = r /\ c \in Documents(dir, t)
      BY <2>2, <2>3, <2>4, <2>6
    <3> QED BY <1>1, <2>1, <2>6, <3>1, DocumentsLead
  <2>7. CASE t.kind \notin {"server", "database", "partition"}
    <3>1. c \in MembersOf(dir, t, "view")
      BY <2>3, <2>7
    <3>2. c.what.kind = "view"
      <4>1. \E m : c = Candidate(Behind(dir, <<Encode(m[2])>>), t.db, Place("view", t.id, m[2]))
        BY <3>1 DEF MembersOf
      <4>2. PICK w : c = Candidate(w.input, w.db, Place("view", t.id, w.what.name))
        BY <4>1 DEF Candidate, Place
      <4> QED BY <4>2 DEF Candidate, Place
    <3>3. ~EndsIn(dir, {"_view"})
      BY <1>3 DEF EndsIn, IndexKind
    <3> QED BY <3>2, <3>3 DEF Bare
  <2> QED BY <2>5, <2>6, <2>7
<1> QED
  BY <1>2, <1>3

(* What Tab offers leads to what it stands for, whatever the servers hold, from
   wherever the prompt stands and behind whatever has been typed, with the six
   exceptions the property names. *)
THEOREM CandidatesLeadThere == Spec => []CandidatesLead
<1>1. Init => Known
  BY KnownInitially DEF Init
<1>2. Known /\ [Next]_vars => Known'
  <2> SUFFICES ASSUME Known, [Next]_vars PROVE Known'
    OBVIOUS
  <2>1. [BrowseNext]_browseVars
    BY DEF Next, vars
  <2> QED
    BY <2>1, KnownStep
<1>3. Known => CandidatesLead
  BY KnownLeads
<1> QED
  BY <1>1, <1>2, <1>3, PTL DEF Spec

-----------------------------------------------------------------------------
(* Listings.                                                               *)

Rows == [key : Nat, id : Nat]

(* Any two of these rows come one before the other. *)
Ordered(rs) == \A r, s \in rs : r # s => Before(r, s) \/ Before(s, r)

LEMMA BeforeIsStrict ==
  ASSUME NEW r \in Rows, NEW s \in Rows, NEW t \in Rows
  PROVE  /\ ~Before(r, r)
         /\ Before(r, s) /\ Before(s, t) => Before(r, t)
         /\ ~(Before(r, s) /\ Before(s, r))
BY DEF Before, ByKey, Rows

(* Finitely many rows have a last one ... *)
LEMMA LastRow ==
  ASSUME NEW rs \in SUBSET Rows, IsFiniteSet(rs), rs # {}, Ordered(rs)
  PROVE  \E r \in rs : \A s \in rs : s # r => Before(s, r)
<1> DEFINE After(r) == {s \in rs : Before(r, s)}
           T == {After(r) : r \in rs}
<1>1. IsWellFoundedOn(StrictSubsetOrdering(rs), SUBSET rs)
  BY FS_StrictSubsetOrderingWellFounded, FS_FiniteSubsetsOfFinite
<1>2. T \subseteq SUBSET rs /\ T # {}
  OBVIOUS
<1>3. PICK t \in T : \A u \in T : <<u, t>> \notin StrictSubsetOrdering(rs)
  <2> HIDE DEF T
  <2> QED BY <1>1, <1>2, WFMin
<1>4. PICK r \in rs : t = After(r)
  OBVIOUS
<1>5. ASSUME NEW s \in rs, Before(r, s) PROVE FALSE
  <2>1. After(s) \subseteq After(r) /\ s \in After(r) /\ s \notin After(s)
    BY <1>5, BeforeIsStrict
  <2>2. After(s) \in T /\ After(r) \in SUBSET rs /\ After(s) \in SUBSET rs
    OBVIOUS
  <2>3. <<After(s), After(r)>> \in StrictSubsetOrdering(rs)
    <3> HIDE DEF After
    <3> QED BY <2>1, <2>2 DEF StrictSubsetOrdering
  <2> QED BY <1>3, <1>4, <2>2, <2>3
<1> QED
  BY <1>5 DEF Ordered

InOrderOf(s, rs) ==
  /\ s \in [1..Cardinality(rs) -> rs]
  /\ \A m, n \in DOMAIN s : m < n => Before(s[m], s[n])

(* ... and so an order to list them in. *)
LEMMA HasOrder ==
  ASSUME NEW rs \in SUBSET Rows, IsFiniteSet(rs), Ordered(rs)
  PROVE  \E s : InOrderOf(s, rs)
<1> DEFINE T == {us \in SUBSET rs : ~ \E s : InOrderOf(s, us)}
<1> SUFFICES ASSUME T # {} PROVE FALSE
  OBVIOUS
<1>1. IsWellFoundedOn(StrictSubsetOrdering(rs), SUBSET rs)
  BY FS_StrictSubsetOrderingWellFounded, FS_FiniteSubsetsOfFinite
<1>2. PICK us \in T : \A u \in T : <<u, us>> \notin StrictSubsetOrdering(rs)
  <2>1. T \subseteq SUBSET rs
    OBVIOUS
  <2> HIDE DEF T
  <2> QED BY <1>1, <2>1, WFMin
<1>3. us \in SUBSET Rows /\ IsFiniteSet(us) /\ Ordered(us) /\ us \in SUBSET rs
  <2>1. us \in SUBSET rs
    OBVIOUS
  <2> QED BY <2>1, FS_Subset DEF Ordered
<1>4. us # {}
  <2>1. InOrderOf([n \in 1..0 |-> 0], {})
    BY FS_EmptySet DEF InOrderOf
  <2> QED BY <2>1
<1>5. PICK final \in us : \A s \in us : s # final => Before(s, final)
  BY <1>3, <1>4, LastRow
<1> DEFINE vs == us \ {final}
<1>6. PICK s : InOrderOf(s, vs)
  <2>1. vs \in SUBSET rs /\ vs # us /\ vs \subseteq us
    BY <1>3
  <2>2. <<vs, us>> \in StrictSubsetOrdering(rs)
    <3> HIDE DEF vs
    <3> QED BY <1>3, <2>1 DEF StrictSubsetOrdering
  <2>3. vs \notin T
    <3> HIDE DEF T, vs
    <3> QED BY <1>2, <2>2
  <2> QED BY <2>1, <2>3
<1>7. /\ Cardinality(us) \in Nat \ {0} /\ Cardinality(vs) = Cardinality(us) - 1
  <2>1. Cardinality(vs) = Cardinality(us) - 1
    BY <1>3, FS_RemoveElement
  <2>2. Cardinality(us) \in Nat /\ Cardinality(us) # 0
    BY <1>3, <1>4, FS_CardinalityType, FS_EmptySet
  <2> QED BY <2>1, <2>2
<1>8. PICK n \in Nat : n = Cardinality(us) - 1
  BY <1>7
<1> DEFINE t == [m \in 1..(n + 1) |-> IF m = n + 1 THEN final ELSE s[m]]
<1>9. /\ s \in [1..n -> vs] /\ \A m, k \in 1..n : m < k => Before(s[m], s[k])
  BY <1>6, <1>7, <1>8 DEF InOrderOf
<1>10. t \in [1..(n + 1) -> us]
  BY <1>9
<1>11. ASSUME NEW m \in 1..(n + 1), NEW k \in 1..(n + 1), m < k
       PROVE  Before(t[m], t[k])
  <2>1. m \in 1..n /\ m # n + 1
    BY <1>11
  <2>2. t[m] = s[m] /\ s[m] \in vs
    BY <1>9, <2>1
  <2>3. CASE k = n + 1
    BY <1>5, <2>2, <2>3
  <2>4. CASE k # n + 1
    <3>1. k \in 1..n /\ t[k] = s[k]
      BY <2>4
    <3> HIDE DEF t
    <3> QED BY <1>9, <1>11, <2>1, <2>2, <3>1
  <2> QED BY <2>3, <2>4
<1>12. InOrderOf(t, us)
  <2>1. Cardinality(us) = n + 1
    BY <1>7, <1>8
  <2> HIDE DEF t
  <2> QED BY <1>10, <1>11, <2>1 DEF InOrderOf
<1> QED
  BY <1>12

(* What the server lists is all there is, each row once and in order. *)
LEMMA SortedIs ==
  ASSUME NEW rs \in SUBSET Rows, IsFiniteSet(rs), Ordered(rs)
  PROVE  /\ Len(Sorted(rs)) \in Nat
         /\ Sorted(rs) \in [1..Len(Sorted(rs)) -> rs]
         /\ Sorted(rs) \in Seq(Rows)
         /\ \A m, n \in 1..Len(Sorted(rs)) : m < n => Before(Sorted(rs)[m], Sorted(rs)[n])
         /\ \A r \in rs : \E n \in 1..Len(Sorted(rs)) : Sorted(rs)[n] = r
<1> DEFINE c == Cardinality(rs)
<1>1. PICK s : s = Sorted(rs)
  OBVIOUS
<1>2. InOrderOf(s, rs)
  BY <1>1, HasOrder DEF Sorted, InOrderOf
<1>3. c \in Nat
  BY FS_CardinalityType
<1>4. s \in [1..c -> rs] /\ \A m, n \in 1..c : m < n => Before(s[m], s[n])
  BY <1>2 DEF InOrderOf
<1>5. Len(s) = c /\ s \in Seq(Rows)
  <2> HIDE DEF c
  <2> QED BY <1>3, <1>4
<1>6. \A m, n \in 1..c : m # n => s[m] # s[n]
  <2> SUFFICES ASSUME NEW m \in 1..c, NEW n \in 1..c, m # n, s[m] = s[n] PROVE FALSE
    OBVIOUS
  <2>1. Before(s[m], s[n]) \/ Before(s[n], s[m])
    BY <1>3, <1>4
  <2> QED BY <1>4, <2>1, BeforeIsStrict
<1> DEFINE listed == {s[n] : n \in 1..c}
<1>7. IsFiniteSet(1..c) /\ Cardinality(1..c) = c
  BY <1>3, FS_Interval
<1>8. IsFiniteSet(listed) /\ Cardinality(listed) = c
  <2>1. s \in Bijection(1..c, listed)
    <3>1. s \in [1..c -> listed]
      BY <1>4
    <3> HIDE DEF c, listed
    <3>2. s \in Injection(1..c, listed)
      BY <1>6, <3>1 DEF Injection, IsInjective
    <3>3. s \in Surjection(1..c, listed)
      BY <3>1 DEF Surjection, listed
    <3> QED BY <3>2, <3>3 DEF Bijection
  <2>2. ExistsBijection(1..c, listed)
    BY <2>1 DEF ExistsBijection
  <2> HIDE DEF c, listed
  <2>3. IsFiniteSet(listed) /\ Cardinality(listed) = Cardinality(1..c)
    BY <1>7, <2>2, FS_Bijection
  <2> QED BY <1>7, <2>3
<1>9. listed = rs
  <2>1. listed \in SUBSET rs
    BY <1>4
  <2> HIDE DEF listed
  <2> QED BY <1>8, <2>1, FS_Subset
<1> QED
  BY <1>1, <1>3, <1>4, <1>5, <1>9

(* The row a page starts at has all that was shown before it, but for the rows
   of a view that have its key. *)
Passed(q) ==
  CASE cmd \in {"ls", "all"} -> q.id < hint.id
    [] Bookmarked            -> q = hint \/ ByKey(q, hint)
    [] OTHER                 -> q.key <= hint.key /\ hint.key \in bounds

ListTyped ==
  /\ rows \in [Ids -> Keys \cup {0}] /\ cmd \in Commands
  /\ hint \in Rows /\ shown \in Seq(Rows)
  /\ \A i \in still : i \in Ids /\ rows[i] # 0
  /\ hint # NoRow => hint.id # 0 /\ cmd # "group"

(* What is still to come while a listing goes on: what was there from the first
   page and was not shown. *)
Onward ==
  listing = "paging" =>
    /\ hint = NoRow => shown = <<>>
    /\ hint # NoRow => \A n \in DOMAIN shown : Passed(shown[n])
    /\ \A i \in still :
         (\E n \in DOMAIN shown : shown[n].id = i) \/ Begins(Row(rows[i], i))

ListInv == ListTyped /\ Onward /\ ListedOnce

LEMMA ListInitially == ListInit => ListInv
<1> SUFFICES ASSUME ListInit PROVE ListInv
  OBVIOUS
<1>1. NoRow \in Rows /\ NoRow.key = 0 /\ hint = NoRow /\ shown = <<>> /\ DOMAIN shown = {}
  BY DEF ListInit, NoRow, Rows
<1>2. ListTyped
  BY <1>1 DEF ListInit, ListTyped
<1>3. \A i \in still : Begins(Row(rows[i], i))
  BY <1>1, <1>2, ListingAssumption DEF ListTyped, Begins, FromHint, Row
<1> QED
  BY <1>1, <1>2, <1>3 DEF ListInv, Onward, ListedOnce, ListInit

(* The rows of an answer. *)
Asked == {r \in IF cmd = "group" THEN Groups ELSE Live : Begins(r)}

LEMMA AskedIs ==
  ASSUME ListTyped
  PROVE  /\ Asked \in SUBSET Rows /\ IsFiniteSet(Asked) /\ Ordered(Asked)
         /\ \A r \in Asked : Begins(r) /\ (cmd # "group" => r.id # 0)
         /\ \A i \in still :
              IF cmd = "group" THEN \E r \in Asked : r.key = rows[i]
              ELSE Begins(Row(rows[i], i)) => Row(rows[i], i) \in Asked
<1> DEFINE here == {i \in Ids : rows[i] # 0}
<1>1. /\ IsFiniteSet(Ids) /\ Ids \subseteq Nat /\ 0 \notin Ids /\ Keys \subseteq Nat
      /\ rows \in [Ids -> Keys \cup {0}] /\ \A i \in Ids : rows[i] \in Nat
  <2>1. /\ IsFiniteSet(Ids) /\ Ids \subseteq Nat /\ 0 \notin Ids /\ Keys \subseteq Nat
        /\ rows \in [Ids -> Keys \cup {0}]
    BY ListingAssumption DEF ListTyped
  <2>2. \A i \in Ids : rows[i] \in Keys \cup {0}
    BY <2>1
  <2>3. Keys \cup {0} \subseteq Nat
    BY <2>1
  <2> QED BY <2>1, <2>2, <2>3
<1>2. IsFiniteSet(here)
  BY <1>1, FS_Subset
<1>3. Live = {Row(rows[i], i) : i \in here} /\ Live \in SUBSET Rows
  BY <1>1 DEF Live, Row, Rows
<1>4. IsFiniteSet(Live)
  <2> DEFINE f == [i \in here |-> Row(rows[i], i)]
  <2>1. f \in Surjection(here, Live)
    BY <1>3 DEF Surjection
  <2> HIDE DEF f, here
  <2> QED BY <1>2, <2>1, FS_Surjection
<1>5. Groups \in SUBSET Rows /\ IsFiniteSet(Groups)
  <2> DEFINE f == [r \in Live |-> Row(r.key, 0)]
  <2>1. f \in Surjection(Live, Groups)
    BY DEF Surjection, Groups
  <2>2. IsFiniteSet(Groups)
    <3> HIDE DEF f
    <3> QED BY <1>4, <2>1, FS_Surjection
  <2> QED BY <1>3, <2>2 DEF Groups, Rows, Row
<1>6. Asked \in SUBSET Rows /\ IsFiniteSet(Asked)
  BY <1>3, <1>4, <1>5, FS_Subset DEF Asked
<1>7. ASSUME NEW r \in Asked, NEW s \in Asked, r # s
      PROVE  Before(r, s) \/ Before(s, r)
  <2>1. r \in Rows /\ s \in Rows /\ r.key \in Nat /\ s.key \in Nat /\ r.id \in Nat /\ s.id \in Nat
    BY <1>6 DEF Rows
  <2>2. r.key # s.key \/ r.id # s.id
    BY <1>7, <2>1 DEF Rows
  <2>3. CASE cmd \in {"ls", "all"}
    <3>1. r \in Live /\ s \in Live
      BY <2>3 DEF Asked
    <3>2. r.key = rows[r.id] /\ s.key = rows[s.id]
      BY <1>3, <3>1 DEF Row
    <3> QED BY <2>1, <2>2, <2>3, <3>2 DEF Before
  <2>4. CASE cmd \notin {"ls", "all"}
    BY <2>1, <2>2, <2>4 DEF Before, ByKey
  <2> QED BY <2>3, <2>4
<1>8. ASSUME NEW r \in Asked PROVE Begins(r) /\ (cmd # "group" => r.id # 0)
  <2>1. cmd # "group" => r \in Live
    BY DEF Asked
  <2>2. r \in Live => r.id \in Ids
    BY <1>3 DEF Row
  <2> QED BY <1>1, <2>1, <2>2 DEF Asked
<1>9. ASSUME NEW i \in still
      PROVE  IF cmd = "group" THEN \E r \in Asked : r.key = rows[i]
             ELSE Begins(Row(rows[i], i)) => Row(rows[i], i) \in Asked
  <2>1. i \in here /\ Row(rows[i], i) \in Live
    BY <1>3 DEF ListTyped
  <2>2. CASE cmd = "group"
    <3> DEFINE r == Row(rows[i], 0)
    <3>1. r \in Groups /\ r.key = rows[i]
      BY <2>1 DEF Groups, Row
    <3>2. hint.key = 0
      BY <2>2 DEF ListTyped, NoRow
    <3>3. rows[i] \in Nat
      BY <1>1, <2>1
    <3>4. Begins(r)
      <4> HIDE DEF r
      <4> QED BY <2>2, <3>1, <3>2, <3>3 DEF Begins, Bookmarked
    <3> QED BY <2>2, <3>1, <3>4 DEF Asked
  <2>3. CASE cmd # "group"
    BY <2>1, <2>3 DEF Asked
  <2> QED BY <2>2, <2>3
<1> QED
  BY <1>6, <1>7, <1>8, <1>9 DEF Ordered

(* The end of a page, and where the next one starts: at the row behind it, or
   after the last one of it. *)
LEMMA PageEnds ==
  ASSUME ListTyped, NEW n \in Nat
  PROVE  \E k \in 0..Len(Answer) :
           /\ Served(n) = SubSeq(Answer, 1, k) /\ Len(Served(n)) = k
           /\ \/ Hinted(Answer, n) = NoRow
              \/ /\ Bookmarked /\ k \in 1..Len(Answer)
                 /\ Hinted(Answer, n) = Answer[k]
              \/ /\ cmd \in {"ls", "all", "query"} /\ k + 1 \in 1..Len(Answer)
                 /\ Hinted(Answer, n) = Answer[k + 1]
<1>1. PICK s : s = Answer
  OBVIOUS
<1>2. Len(s) \in Nat /\ s \in [1..Len(s) -> Asked] /\ s \in Seq(Rows)
  BY <1>1, AskedIs, SortedIs DEF Answer, Asked
<1>3. cmd = "group" => \A m \in 1..Len(s) : s[m].id = 0
  BY <1>2 DEF Asked, Groups, Row
<1>4. \A k \in 0..Len(s) : Len(SubSeq(s, 1, k)) = k
  BY <1>2
<1> DEFINE limit == IF Bookmarked /\ n = 0 THEN ServerLimit ELSE n
           end == IF limit = 0 \/ limit > Len(s) THEN Len(s) ELSE limit
<1>5. limit \in Nat /\ end \in 0..Len(s)
  BY <1>2, ListingAssumption
<1>6. PICK k \in 0..Len(s) : k = end
  BY <1>5
<1>a. n > 0 => k = IF n > Len(s) THEN Len(s) ELSE n
  BY <1>6
<1>b. Len(s) \in Nat
  BY <1>2
<1>7. Served(n) = SubSeq(s, 1, k)
  BY <1>1, <1>6 DEF Served, Upto
<1>8. CASE Bookmarked
  <2>1. Hinted(s, n) = IF n > 0 /\ Len(s) >= n THEN s[n] ELSE NoRow
    BY <1>8 DEF Hinted, Bookmark, Bookmarked
  <2>2. n > 0 /\ Len(s) >= n => k = n /\ k \in 1..Len(s)
    BY <1>a, <1>b
  <2> QED BY <1>1, <1>4, <1>7, <1>8, <2>1, <2>2
<1>9. CASE ~Bookmarked /\ ~(n > 0 /\ Len(s) > n)
  <2>1. Hinted(s, n) = NoRow
    BY <1>9 DEF Hinted, NextOf
  <2> QED BY <1>1, <1>4, <1>7, <2>1
<1>10. CASE ~Bookmarked /\ n > 0 /\ Len(s) > n
  <2>1. k = n /\ k + 1 \in 1..Len(s)
    BY <1>a, <1>b, <1>10
  <2>2. cmd = "group" => Hinted(s, n) = NoRow
    BY <1>3, <1>10, <2>1 DEF Hinted, NextOf
  <2>3. cmd # "group" => Hinted(s, n) \in {NoRow, s[n + 1]}
    BY <1>10 DEF Hinted, NextOf
  <2>4. cmd \in {"ls", "all", "query", "group"}
    BY <1>10 DEF ListTyped, Commands, Bookmarked
  <2> QED BY <1>1, <1>4, <1>7, <2>1, <2>2, <2>3, <2>4
<1> QED
  BY <1>8, <1>9, <1>10

(* A page shows what was not shown yet and lies before the next one. *)
LEMMA PageStep ==
  ASSUME ListInv, NEW n \in Nat, Page(n)
  PROVE  ListInv'
<1> USE DEF ListInv
<1>1. PICK s : s = Answer
  OBVIOUS
<1>2. /\ Len(s) \in Nat /\ s \in [1..Len(s) -> Asked] /\ s \in Seq(Rows)
      /\ \A l, m \in 1..Len(s) : l < m => Before(s[l], s[m])
      /\ \A r \in Asked : \E m \in 1..Len(s) : s[m] = r
  <2>1. PICK rs : rs = Asked
    OBVIOUS
  <2>2. rs \in SUBSET Rows /\ IsFiniteSet(rs) /\ Ordered(rs) /\ s = Sorted(rs)
    BY <1>1, <2>1, AskedIs DEF Answer, Asked
  <2>3. /\ Len(s) \in Nat /\ s \in [1..Len(s) -> rs] /\ s \in Seq(Rows)
        /\ \A l, m \in 1..Len(s) : l < m => Before(s[l], s[m])
        /\ \A r \in rs : \E m \in 1..Len(s) : s[m] = r
    BY <2>2, SortedIs
  <2> QED BY <2>1, <2>3
<1>3. PICK k \in 0..Len(s) :
        /\ Served(n) = SubSeq(s, 1, k) /\ Len(Served(n)) = k
        /\ \/ hint' = NoRow
           \/ Bookmarked /\ k \in 1..Len(s) /\ hint' = s[k]
           \/ cmd \in {"ls", "all", "query"} /\ k + 1 \in 1..Len(s) /\ hint' = s[k + 1]
  BY <1>1, PageEnds DEF Page
<1>4. /\ shown \in Seq(Rows) /\ Len(shown) \in Nat
      /\ shown' \in Seq(Rows) /\ Len(shown') = Len(shown) + k
      /\ \A m \in 1..Len(shown) : shown'[m] = shown[m]
      /\ \A m \in 1..Len(shown') : m > Len(shown) =>
           m - Len(shown) \in 1..k /\ shown'[m] = s[m - Len(shown)]
  <2>1. shown \in Seq(Rows) /\ Len(shown) \in Nat
    BY DEF ListTyped
  <2>2. PICK t : t = Served(n)
    OBVIOUS
  <2>3. t \in Seq(Rows) /\ Len(t) = k /\ \A m \in 1..k : t[m] = s[m]
    BY <1>2, <1>3, <2>2
  <2>4. shown' = shown \o t
    BY <2>2 DEF Page
  <2>5. PICK p : p = shown
    OBVIOUS
  <2>6. PICK q : q = shown'
    OBVIOUS
  <2>7. /\ q = p \o t /\ p \in Seq(Rows) /\ Len(p) \in Nat
    BY <2>1, <2>4, <2>5, <2>6
  <2>c. /\ Len(t) = k /\ t \in Seq(Rows)
        /\ \A m \in 1..(Len(p) + k) : m > Len(p) => m - Len(p) \in 1..k
    BY <2>3, <2>7
  <2>d. /\ p \o t \in Seq(Rows) /\ Len(p \o t) = Len(p) + k
        /\ \A m \in 1..(Len(p) + k) :
              (p \o t)[m] = IF m <= Len(p) THEN p[m] ELSE t[m - Len(p)]
    <3>1. p \in Seq(Rows) /\ t \in Seq(Rows) /\ Len(t) = k
      BY <2>7, <2>c
    <3> QED BY <3>1, ConcatProperties
  <2>8. /\ q \in Seq(Rows) /\ Len(q) = Len(p) + k
        /\ \A m \in 1..Len(p) : q[m] = p[m]
        /\ \A m \in 1..Len(q) : m > Len(p) => m - Len(p) \in 1..k /\ q[m] = t[m - Len(p)]
    BY <2>7, <2>c, <2>d
  <2>9. \A m \in 1..Len(q) : m > Len(p) => q[m] = s[m - Len(p)]
    <3> SUFFICES ASSUME NEW m \in 1..Len(q), m > Len(p) PROVE q[m] = s[m - Len(p)]
      OBVIOUS
    <3>1. m - Len(p) \in 1..k /\ q[m] = t[m - Len(p)]
      BY <2>8
    <3> QED BY <2>3, <3>1
  <2> QED BY <2>5, <2>6, <2>7, <2>8, <2>9
<1>5. /\ cmd' = cmd /\ rows' = rows /\ still' = still /\ listing = "paging" /\ hint \in Rows
      /\ NoRow \in Rows /\ cmd \in Commands
  BY DEF Page, ListTyped, NoRow, Rows
<1>6. \A m \in 1..Len(s) : s[m] \in Asked /\ s[m] \in Rows /\ Begins(s[m])
                            /\ (cmd # "group" => s[m].id # 0)
  BY <1>2, AskedIs
<1>7. hint' # NoRow => cmd # "group" /\ hint'.id # 0 /\ hint' \in Rows /\ Begins(hint')
  <2>1. hint' # NoRow => cmd # "group" /\ \E m \in 1..Len(s) : hint' = s[m]
    BY <1>3, <1>5 DEF Bookmarked
  <2> QED BY <1>6, <2>1
<1>8. ListTyped'
  BY <1>4, <1>5, <1>7 DEF ListTyped
<1>9. ASSUME NEW q \in Rows, NEW r \in Rows, hint # NoRow, Passed(q), Begins(r), cmd # "group"
      PROVE  /\ cmd \in {"ls", "all"} => q.id < r.id
             /\ Bookmarked => ByKey(q, r)
             /\ cmd = "query" => q.key <= r.key /\ (q.key = r.key => q.key \in bounds)
  BY <1>5, <1>9 DEF Passed, Begins, FromHint, ByKey, Bookmarked, Rows
<1> DEFINE Listed(l, m) ==
             \/ shown'[l] # shown'[m] /\ (cmd \in {"ls", "all"} => shown'[l].id < shown'[m].id)
             \/ cmd \in {"find", "search", "query"} /\ shown'[l].id \notin still
             \/ cmd = "query" /\ shown'[l].key \in bounds'
<1>10. ASSUME NEW l \in 1..Len(shown'), NEW m \in 1..Len(shown'), l < m
       PROVE  Listed(l, m)
  <2>1. CASE m <= Len(shown)
    <3>1. l \in DOMAIN shown /\ m \in DOMAIN shown
      BY <1>4, <1>10, <2>1
    <3>2. shown'[l] = shown[l] /\ shown'[m] = shown[m]
      BY <1>4, <3>1
    <3>3. bounds \subseteq bounds'
      BY DEF Page
    <3> QED BY <1>10, <3>1, <3>2, <3>3 DEF ListedOnce
  <2>2. CASE l <= Len(shown) /\ m > Len(shown)
    <3>1. PICK i \in 1..Len(s) : shown'[m] = s[i]
      <4>1. m - Len(shown) \in 1..k /\ shown'[m] = s[m - Len(shown)]
        BY <1>4, <2>2
      <4>2. 1..k \subseteq 1..Len(s)
        BY <1>2
      <4> QED BY <4>1, <4>2
    <3>2. l \in DOMAIN shown /\ shown'[l] = shown[l] /\ shown[l] \in Rows
      BY <1>4, <2>2
    <3>3. hint # NoRow /\ Passed(shown[l]) /\ cmd # "group"
      <4>1. shown # <<>>
        BY <3>2
      <4> QED BY <1>5, <3>2, <4>1 DEF Onward, ListTyped
    <3>4. PICK q \in Rows, r \in Rows : q = shown[l] /\ r = s[i]
      BY <1>6, <3>1, <3>2
    <3>5. /\ cmd \in {"ls", "all"} => q.id < r.id
          /\ Bookmarked => ByKey(q, r)
          /\ cmd = "query" => q.key <= r.key /\ (q.key = r.key => q.key \in bounds)
      BY <1>6, <1>9, <3>1, <3>3, <3>4
    <3>6. cmd = "query" /\ q = r => q.key \in bounds'
      BY <3>5 DEF Page
    <3>7. Bookmarked => q # r
      BY <3>4, <3>5 DEF ByKey, Rows
    <3>8. cmd \in {"ls", "all"} => q # r
      BY <3>4, <3>5 DEF Rows
    <3>9. cmd \in {"ls", "all", "query"} \/ Bookmarked
      BY <1>5, <3>3 DEF Commands, Bookmarked
    <3> QED BY <3>1, <3>2, <3>4, <3>5, <3>6, <3>7, <3>8, <3>9 DEF Bookmarked
  <2>3. CASE l > Len(shown)
    <3>1. PICK i \in 1..Len(s), j \in 1..Len(s) : i < j /\ shown'[l] = s[i] /\ shown'[m] = s[j]
      <4>1. l - Len(shown) \in 1..k /\ m - Len(shown) \in 1..k /\ l - Len(shown) < m - Len(shown)
            /\ shown'[l] = s[l - Len(shown)] /\ shown'[m] = s[m - Len(shown)]
        BY <1>4, <1>10, <2>3
      <4> QED BY <1>2, <4>1
    <3>2. Before(s[i], s[j]) /\ s[i] \in Rows /\ s[j] \in Rows
      BY <1>2, <1>6, <3>1
    <3>3. s[i] # s[j] /\ (cmd \in {"ls", "all"} => s[i].id < s[j].id)
      BY <3>2, BeforeIsStrict DEF Before
    <3> QED BY <3>1, <3>3
  <2> QED BY <1>4, <2>1, <2>2, <2>3
<1>11. ASSUME hint' # NoRow, NEW l \in 1..Len(shown')
       PROVE  Passed(shown[l])'
  <2>1. PICK q \in Rows : q = shown'[l]
    BY <1>4
  <2>2. PICK h \in Rows : h = hint' /\ Begins(h)
    BY <1>7, <1>11
  <2>3. cmd # "group" /\ (cmd = "query" => h.key \in bounds')
    BY <1>5, <1>7, <1>11, <2>2 DEF Page
  <2>4. /\ cmd \in {"ls", "all"} => q.id < h.id
        /\ Bookmarked => q = h \/ ByKey(q, h)
        /\ cmd = "query" => q.key <= h.key
    <3>1. CASE l <= Len(shown)
      <4>1. l \in DOMAIN shown /\ q = shown[l] /\ shown # <<>>
        BY <1>4, <1>11, <2>1, <3>1
      <4>2. hint # NoRow /\ Passed(q)
        BY <1>5, <4>1 DEF Onward
      <4> QED BY <1>9, <2>2, <2>3, <4>2
    <3>2. CASE l > Len(shown)
      <4>1. PICK i \in 1..k : q = s[i]
        BY <1>4, <1>11, <2>1, <3>2
      <4>2. CASE Bookmarked /\ k \in 1..Len(s) /\ h = s[k]
        <5>1. i = k \/ (i < k /\ Before(s[i], s[k]))
          BY <1>2, <4>1, <4>2
        <5> QED BY <4>1, <4>2, <5>1 DEF Before, Bookmarked
      <4>3. CASE cmd \in {"ls", "all", "query"} /\ k + 1 \in 1..Len(s) /\ h = s[k + 1]
        <5>1. i < k + 1 /\ i \in 1..Len(s)
          BY <1>2, <4>1, <4>3
        <5>2. Before(q, h)
          BY <1>2, <4>1, <4>3, <5>1
        <5> QED BY <4>3, <5>2, <2>1, <2>2 DEF Before, ByKey, Bookmarked, Rows
      <4> QED BY <1>3, <1>11, <2>2, <4>2, <4>3
    <3> QED BY <1>4, <3>1, <3>2
  <2>5. CASE cmd \in {"ls", "all"}
    BY <1>5, <2>1, <2>2, <2>4, <2>5 DEF Passed, Bookmarked
  <2>6. CASE Bookmarked
    BY <1>5, <2>1, <2>2, <2>4, <2>6 DEF Passed, Bookmarked, ByKey
  <2>7. CASE cmd = "query"
    BY <1>5, <2>1, <2>2, <2>3, <2>4, <2>7 DEF Passed, Bookmarked
  <2> QED BY <1>5, <2>3, <2>5, <2>6, <2>7 DEF Commands, Bookmarked
<1>12. ASSUME NEW i \in still
       PROVE  \/ \E m \in 1..Len(shown') :
                   IF cmd = "group" THEN shown'[m].key = rows[i] ELSE shown'[m].id = i
              \/ listing' = "cut"
              \/ hint' # NoRow /\ Begins(Row(rows[i], i))'
  <2>1. CASE \E m \in DOMAIN shown : shown[m].id = i /\ cmd # "group"
    BY <1>4, <2>1
  <2>2. CASE ~ \E m \in DOMAIN shown : shown[m].id = i /\ cmd # "group"
    <3>1. PICK r \in Asked : IF cmd = "group" THEN r.key = rows[i] ELSE r = Row(rows[i], i)
      BY <1>5, <2>2, AskedIs DEF Onward
    <3>2. PICK j \in 1..Len(s) : s[j] = r
      BY <1>2
    <3>3. IF cmd = "group" THEN r.key = rows[i] ELSE r.id = i
      BY <3>1 DEF Row
    <3>4. CASE j <= k
      <4>1. Len(shown) + j \in 1..Len(shown') /\ shown'[Len(shown) + j] = s[j]
        <5>1. /\ Len(shown) + j \in 1..Len(shown') /\ Len(shown) + j > Len(shown)
              /\ (Len(shown) + j) - Len(shown) = j
          BY <1>4, <3>4
        <5>2. shown'[Len(shown) + j] = s[(Len(shown) + j) - Len(shown)]
          BY <1>4, <5>1
        <5> QED BY <5>1, <5>2
      <4> QED BY <3>2, <3>3, <4>1
    <3>5. CASE j > k /\ hint' = NoRow
      <4>1. Len(Served(n)) < Len(Answer)
        BY <1>1, <1>2, <1>3, <3>5
      <4>2. listing' = "cut"
        BY <3>5, <4>1 DEF Page
      <4> QED BY <4>2
    <3>6. CASE j > k /\ hint' # NoRow
      <4>1. PICK h \in Rows : h = hint'
        BY <1>7, <3>6
      <4>2. cmd # "group" /\ r = Row(rows[i], i) /\ r \in Rows
        BY <1>6, <1>7, <3>1, <3>2, <3>6
      <4>3. CASE Bookmarked /\ k \in 1..Len(s) /\ h = s[k]
        <5>1. ByKey(h, r)
          BY <1>2, <3>2, <3>6, <4>3 DEF Before, Bookmarked
        <5> QED BY <1>5, <3>6, <4>1, <4>2, <4>3, <5>1 DEF Begins, Bookmarked, ByKey, Row
      <4>4. CASE cmd \in {"ls", "all", "query"} /\ k + 1 \in 1..Len(s) /\ h = s[k + 1]
        <5>1. j = k + 1 \/ k + 1 < j
          BY <3>6
        <5>2. r = h \/ Before(h, r)
          BY <1>2, <3>2, <4>4, <5>1
        <5>3. IF cmd = "query" THEN r.key >= h.key ELSE r.id >= h.id
          BY <4>1, <4>2, <4>4, <5>2 DEF Before, ByKey, Rows
        <5>4. rows'[i] = rows[i]
          BY <1>5
        <5> QED BY <1>5, <3>6, <4>1, <4>2, <4>4, <5>3 DEF Begins, Bookmarked, FromHint, Row
      <4> QED BY <1>3, <3>6, <4>1, <4>3, <4>4
    <3> QED BY <1>2, <3>4, <3>5, <3>6
  <2> QED BY <2>1, <2>2
<1>13. /\ DOMAIN shown' = 1..Len(shown')
       /\ listing' = "paging" => hint' # NoRow
       /\ listing' = "end" => hint' = NoRow
  BY <1>4 DEF Page
<1>14. Onward'
  BY <1>5, <1>7, <1>11, <1>12, <1>13 DEF Onward
<1>15. ListedOnce'
  <2>1. listing' = "end" =>
          \A i \in still' : \E m \in DOMAIN shown' :
            IF cmd' = "group" THEN shown'[m].key = rows'[i] ELSE shown'[m].id = i
    BY <1>5, <1>12, <1>13
  <2>2. \A l, m \in DOMAIN shown' : l < m => Listed(l, m)
    BY <1>10, <1>13
  <2> QED BY <1>5, <2>1, <2>2 DEF ListedOnce
<1> QED
  BY <1>8, <1>14, <1>15

(* What other clients do leaves a listing as it was, but for the document they
   write to. *)
LEMMA PutStep ==
  ASSUME ListInv, NEW i \in Ids, NEW k \in Keys \cup {0}, Put(i, k)
  PROVE  ListInv'
<1> USE DEF ListInv
<1>1. /\ cmd' = cmd /\ hint' = hint /\ shown' = shown /\ bounds' = bounds
      /\ listing' = listing /\ listing = "paging" /\ still' = still \ {i}
      /\ rows' = [rows EXCEPT ![i] = k]
  BY DEF Put
<1>2. rows \in [Ids -> Keys \cup {0}] /\ \A j \in still : j \in Ids /\ rows[j] # 0
  BY DEF ListTyped
<1>3. rows' \in [Ids -> Keys \cup {0}] /\ \A j \in still' : j \in still /\ rows'[j] = rows[j]
  BY <1>1, <1>2
<1>4. ListTyped'
  BY <1>1, <1>2, <1>3 DEF ListTyped
<1>5. \A q : (Passed(q) => Passed(q)') /\ (Begins(q) => Begins(q)')
  BY <1>1 DEF Passed, Begins, FromHint, Bookmarked, ByKey
<1>6. \A j \in still' : Row(rows'[j], j) = Row(rows[j], j)
  BY <1>3
<1>7. Onward'
  BY <1>1, <1>3, <1>5, <1>6 DEF Onward, NoRow
<1>8. ListedOnce'
  BY <1>1, <1>3 DEF ListedOnce
<1> QED
  BY <1>4, <1>7, <1>8

LEMMA ListStep == ListInv /\ [ListNext]_listVars => ListInv'
<1> SUFFICES ASSUME ListInv, [ListNext]_listVars PROVE ListInv'
  OBVIOUS
<1>1. ASSUME NEW i \in Ids, NEW k \in Keys \cup {0}, Put(i, k) PROVE ListInv'
  BY <1>1, PutStep
<1>2. ASSUME UNCHANGED <<rows, cmd, hint, shown, bounds, still>>,
             listing' = listing \/ listing' \in {"failed", "left"}
      PROVE  ListInv'
  BY <1>2 DEF ListInv, ListTyped, Onward, ListedOnce, Passed, Begins, FromHint, Bookmarked,
              ByKey, Row, NoRow
<1>3. CASE Drop \/ Refused \/ Leave \/ UNCHANGED listVars
  BY <1>2, <1>3 DEF Drop, Refused, Leave, listVars
<1>4. ASSUME NEW n \in Limits \cup {PageSize}, Page(n) PROVE ListInv'
  BY <1>4, PageStep, ListingAssumption
<1> QED
  BY <1>1, <1>3, <1>4 DEF ListNext

(* A listing that ends has shown, once, whatever was there all along, for all
   limits, pages, keys and writes by others. *)
THEOREM EachListedOnce == Spec => []ListedOnce
<1>1. Init => ListInv
  BY ListInitially DEF Init
<1>2. ListInv /\ [Next]_vars => ListInv'
  <2> SUFFICES ASSUME ListInv, [Next]_vars PROVE ListInv'
    OBVIOUS
  <2>1. [ListNext]_listVars
    BY DEF Next, vars
  <2> QED
    BY <2>1, ListStep
<1>3. ListInv => ListedOnce
  BY DEF ListInv
<1> QED
  BY <1>1, <1>2, <1>3, PTL DEF Spec
=============================================================================
