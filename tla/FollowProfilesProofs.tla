------------------------ MODULE FollowProfilesProofs -----------------------
(***************************************************************************)
(* Proofs about TailFollow: every change of a follow is shown once, in     *)
(* order, however often the feed drops, for any number of documents, of    *)
(* writes and of lines in flight.  And about Profiles: a connection is the *)
(* one that was asked for, and a profile saved from it leads back to it,   *)
(* for any processes, servers, credentials, commands and environments.     *)
(***************************************************************************)
EXTENDS TailFollow, Profiles, SequenceTheorems, FiniteSetTheorems, TLAPS

Places == {"info", "open", "reading", "handing", "returned", "sleeping", "ended"}

Types ==
  /\ latest \in [Docs -> Nat] /\ updateSeq \in Nat
  /\ pc \in Places
  /\ start \in Nat /\ since \in Nat /\ sent \in Nat /\ row \in Nat
  /\ wire \in Seq(Nat) /\ shown \in Seq(Nat)

(* Where the follow stands: nothing is newer than the database's sequence, and
   the feed would resume between where it began and there. *)
Standing ==
  /\ \A d \in Docs : latest[d] =< updateSeq
  /\ pc = "info" => shown = <<>> /\ start = since
  /\ start =< since /\ since =< updateSeq

(* A connection that is open sends what comes after the last change handed over;
   one that has gone leaves nothing. *)
Connected == pc \in {"reading", "handing"}
InHand == pc = "handing"

(* What is under way, the change in hand first, is in order, after the last one
   handed over and up to the last one sent. *)
OnTheWay ==
  /\ Connected => since =< sent /\ sent =< updateSeq
  /\ InHand => since < row /\ row =< sent
  /\ Connected => \A k \in 1..Len(wire) :
       since < wire[k] /\ wire[k] =< sent /\ (InHand => row < wire[k])
  /\ Connected => \A j, k \in 1..Len(wire) : j < k => wire[j] < wire[k]

(* Nothing is skipped: up to the last change sent, each is shown, on its way, or
   was a line that could not be read. *)
Accounted(n) == n \in ToSet(shown) \/ n \in garbled

NothingSkipped ==
  /\ pc # "info" => \A d \in Docs :
       start < latest[d] /\ latest[d] =< since => Accounted(latest[d])
  /\ Connected => \A d \in Docs :
       since < latest[d] /\ latest[d] =< sent =>
         \/ Accounted(latest[d])
         \/ InHand /\ latest[d] = row
         \/ \E k \in 1..Len(wire) : wire[k] = latest[d]

ShownInOrder ==
  /\ \A k \in 1..Len(shown) : start < shown[k] /\ shown[k] =< since
  /\ \A j, k \in 1..Len(shown) : j < k => shown[j] < shown[k]

Inv == Types /\ Standing /\ OnTheWay /\ NothingSkipped /\ ShownInOrder
-----------------------------------------------------------------------------
(* Sequences.                                                              *)

LEMMA Appended ==
  ASSUME NEW s \in Seq(Nat), NEW x \in Nat
  PROVE  /\ Append(s, x) \in Seq(Nat) /\ Len(Append(s, x)) = Len(s) + 1
         /\ \A k \in 1..Len(s) : Append(s, x)[k] = s[k]
         /\ Append(s, x)[Len(s) + 1] = x
         /\ ToSet(Append(s, x)) = ToSet(s) \cup {x}
<1>1. /\ Append(s, x) \in Seq(Nat) /\ Len(Append(s, x)) = Len(s) + 1
      /\ \A k \in 1..Len(s) : Append(s, x)[k] = s[k]
      /\ Append(s, x)[Len(s) + 1] = x
  BY AppendProperties
<1>2. DOMAIN s = 1..Len(s) /\ DOMAIN Append(s, x) = 1..(Len(s) + 1) /\ Len(s) \in Nat
  BY <1>1, LenProperties
<1> QED
  BY <1>1, <1>2 DEF ToSet

LEMMA Taken ==
  ASSUME NEW s \in Seq(Nat), s # <<>>
  PROVE  /\ Len(s) \in Nat \ {0}
         /\ Head(s) \in Nat /\ Head(s) = s[1]
         /\ Tail(s) \in Seq(Nat) /\ Len(Tail(s)) = Len(s) - 1
         /\ \A k \in 1..(Len(s) - 1) : Tail(s)[k] = s[k + 1]
<1>1. Len(s) \in Nat /\ Len(s) # 0
  BY EmptySeq, LenProperties
<1> QED
  BY <1>1, HeadTailProperties

LEMMA InDatabase ==
  ASSUME Inv
  PROVE  \A d \in Docs : latest[d] \in Nat /\ latest[d] =< updateSeq
BY DEF Inv, Types, Standing

-----------------------------------------------------------------------------

invVars == <<latest, updateSeq, pc, start, since, sent, wire, row, shown, garbled>>

LEMMA Unchanged == Inv /\ UNCHANGED invVars => Inv'
BY DEF invVars, Inv, Types, Standing, OnTheWay, NothingSkipped, ShownInOrder,
       Connected, InHand, Accounted

(* A connection that goes takes what was on its way with it; nothing else is
   lost, and the feed would resume where it would have. *)
LEMMA Gone ==
  ASSUME Inv, pc # "info", pc' \in Places \ {"info", "reading", "handing"},
         wire' = <<>> \/ wire' = wire,
         UNCHANGED <<latest, updateSeq, start, since, sent, row, shown, garbled>>
  PROVE  Inv'
<1>1. wire' \in Seq(Nat)
  BY EmptySeq DEF Inv, Types
<1>2. ~Connected' /\ ~InHand' /\ pc' # "info"
  BY DEF Connected, InHand
<1>3. Types' /\ Standing' /\ OnTheWay'
  BY <1>1, <1>2 DEF Inv, Types, Standing, OnTheWay
<1>4. NothingSkipped' /\ ShownInOrder'
  BY <1>2 DEF Inv, NothingSkipped, ShownInOrder, Accounted
<1> QED
  BY <1>3, <1>4 DEF Inv

LEMMA Initially == Init => Inv
<1> SUFFICES ASSUME Init PROVE Inv
  OBVIOUS
<1>1. <<>> \in Seq(Nat) /\ Len(<<>>) = 0
  BY EmptySeq
<1>2. 1..0 = {}
  OBVIOUS
<1> QED
  BY <1>1, <1>2 DEF Init, Inv, Types, Places, Standing, OnTheWay, NothingSkipped,
     ShownInOrder, Connected, InHand

-----------------------------------------------------------------------------
(* The database and the server.                                            *)

LEMMA WriteKeeps == ASSUME Inv, NEW d \in Docs, Write(d) PROVE Inv'
<1>1. /\ updateSeq' = updateSeq + 1 /\ latest' = [latest EXCEPT ![d] = updateSeq + 1]
      /\ UNCHANGED <<pc, start, since, sent, wire, row, shown, garbled>>
  BY DEF Write
<1>2. \A e \in Docs : latest'[e] = IF e = d THEN updateSeq + 1 ELSE latest[e]
  BY <1>1 DEF Inv, Types
<1>3. Types' /\ Standing'
  BY <1>1, <1>2 DEF Inv, Types, Standing
<1>4. OnTheWay' /\ ShownInOrder'
  <2>1. Connected' = Connected /\ InHand' = InHand
    BY <1>1 DEF Connected, InHand
  <2>2. Connected => since =< sent /\ sent =< updateSeq'
    BY <1>1 DEF Inv, Types, OnTheWay
  <2>3. OnTheWay'
    BY <1>1, <2>1, <2>2 DEF Inv, OnTheWay
  <2>4. ShownInOrder'
    BY <1>1 DEF Inv, ShownInOrder
  <2> QED
    BY <2>3, <2>4
<1>5. NothingSkipped'
  <2>1. /\ Connected' = Connected /\ InHand' = InHand /\ \A n : Accounted(n)' = Accounted(n)
        /\ since \in Nat /\ sent \in Nat /\ updateSeq \in Nat /\ since =< updateSeq
        /\ Connected => sent =< updateSeq
    BY <1>1 DEF Connected, InHand, Accounted, Inv, Types, Standing, OnTheWay
  <2>2. \A e \in Docs : latest'[e] =< since => latest'[e] = latest[e]
    BY <1>2, <2>1
  <2>3. \A e \in Docs : Connected /\ latest'[e] =< sent => latest'[e] = latest[e]
    BY <1>2, <2>1
  <2>4. \A e \in Docs : pc # "info" /\ start < latest'[e] /\ latest'[e] =< since
                            => Accounted(latest'[e])
    BY <2>2 DEF Inv, NothingSkipped
  <2>5. \A e \in Docs : Connected /\ since < latest'[e] /\ latest'[e] =< sent =>
          \/ Accounted(latest'[e])
          \/ InHand /\ latest'[e] = row
          \/ \E k \in 1..Len(wire) : wire[k] = latest'[e]
    BY <2>3 DEF Inv, NothingSkipped
  <2> QED
    BY <1>1, <2>1, <2>4, <2>5 DEF NothingSkipped, Accounted
<1> QED
  BY <1>3, <1>4, <1>5 DEF Inv

LEMMA SendKeeps == ASSUME Inv, Send PROVE Inv'
<1>1. PICK d \in After(sent) :
        /\ \A e \in After(sent) : latest[d] =< latest[e]
        /\ wire' = Append(wire, latest[d]) /\ sent' = latest[d]
  BY DEF Send
<1>2. /\ d \in Docs /\ latest[d] \in Nat /\ latest[d] > sent /\ latest[d] =< updateSeq
      /\ wire \in Seq(Nat) /\ Len(wire) \in Nat /\ sent \in Nat /\ since \in Nat /\ row \in Nat
  BY <1>1, InDatabase, LenProperties DEF After, Inv, Types
<1>3. /\ Connected /\ Connected' /\ InHand' = InHand
      /\ UNCHANGED <<latest, updateSeq, pc, start, since, row, shown, garbled>>
  BY DEF Send, server, Connected, InHand
<1>4. /\ wire' \in Seq(Nat) /\ Len(wire') = Len(wire) + 1
      /\ \A k \in 1..Len(wire) : wire'[k] = wire[k]
      /\ wire'[Len(wire) + 1] = latest[d]
  BY <1>1, <1>2, Appended
<1>5. Types' /\ Standing' /\ ShownInOrder'
  BY <1>1, <1>2, <1>3, <1>4 DEF Inv, Types, Standing, ShownInOrder
<1>6. OnTheWay'
  <2>1. /\ since =< sent /\ (InHand => since < row /\ row =< sent)
        /\ \A k \in 1..Len(wire) :
             wire[k] \in Nat /\ since < wire[k] /\ wire[k] =< sent /\ (InHand => row < wire[k])
        /\ \A j, k \in 1..Len(wire) : j < k => wire[j] < wire[k]
    BY <1>2, <1>3, ElementOfSeq DEF Inv, OnTheWay
  <2>2. \A k \in 1..(Len(wire) + 1) : k \in 1..Len(wire) \/ k = Len(wire) + 1
    BY <1>2
  <2>3. \A k \in 1..Len(wire') :
          since < wire'[k] /\ wire'[k] =< sent' /\ (InHand => row < wire'[k])
    BY <1>1, <1>2, <1>4, <2>1, <2>2
  <2>4. ASSUME NEW j \in 1..Len(wire'), NEW k \in 1..Len(wire'), j < k
        PROVE  wire'[j] < wire'[k]
    <3>1. j \in 1..Len(wire) /\ wire'[j] = wire[j]
      BY <1>2, <1>4, <2>4, SMTT(30)
    <3>2. CASE k \in 1..Len(wire)
      BY <1>4, <2>1, <2>4, <3>1, <3>2
    <3>3. CASE k = Len(wire) + 1
      BY <1>2, <1>4, <2>1, <3>1, <3>3, SMTT(30)
    <3> QED
      BY <1>4, <2>2, <3>2, <3>3
  <2> QED
    BY <1>1, <1>2, <1>3, <2>1, <2>3, <2>4 DEF OnTheWay
<1>7. NothingSkipped'
  <2>1. ASSUME NEW e \in Docs, since < latest[e], latest[e] =< latest[d]
        PROVE  \/ Accounted(latest[e])
               \/ InHand /\ latest[e] = row
               \/ \E k \in 1..Len(wire') : wire'[k] = latest[e]
    <3>1. CASE latest[e] =< sent
      BY <1>2, <1>3, <1>4, <2>1, <3>1 DEF Inv, NothingSkipped
    <3>2. CASE latest[e] > sent
      <4>1. latest[e] = latest[d]
        BY <1>1, <1>2, <2>1, <3>2, InDatabase DEF After
      <4> QED
        BY <1>2, <1>4, <4>1
    <3> QED
      BY <1>2, <3>1, <3>2, InDatabase
  <2> QED
    BY <1>1, <1>3, <2>1 DEF Inv, NothingSkipped, Accounted
<1> QED
  BY <1>5, <1>6, <1>7 DEF Inv
-----------------------------------------------------------------------------
(* The goroutine.                                                          *)

LEMMA InfoKeeps == ASSUME Inv, Info PROVE Inv'
<1>1. CASE deleted \/ interrupt
  <2>1. /\ pc = "info" /\ pc' = "ended" /\ UNCHANGED <<start, since>>
        /\ UNCHANGED <<latest, updateSeq, sent, wire, row, shown, garbled>>
    BY <1>1 DEF Info, server
  <2>2. shown = <<>> /\ start = since /\ 1..0 = {} /\ Len(<<>>) = 0
    BY <2>1, EmptySeq DEF Inv, Standing
  <2>3. Types' /\ Standing' /\ OnTheWay' /\ ShownInOrder'
    BY <2>1, <2>2 DEF Inv, Types, Places, Standing, OnTheWay, ShownInOrder, Connected, InHand
  <2>4. \A d \in Docs : ~(start < latest[d] /\ latest[d] =< since)
    BY <2>2, InDatabase DEF Inv, Types
  <2> QED
    BY <2>1, <2>3, <2>4 DEF Inv, NothingSkipped, Connected
<1>2. CASE ~(deleted \/ interrupt)
  <2>1. /\ pc = "info" /\ pc' = "open" /\ start' = updateSeq /\ since' = updateSeq
        /\ UNCHANGED <<latest, updateSeq, sent, wire, row, shown, garbled>>
    BY <1>2 DEF Info, server
  <2>2. shown = <<>> /\ 1..0 = {} /\ Len(<<>>) = 0
    BY <2>1, EmptySeq DEF Inv, Standing
  <2> QED
    BY <2>1, <2>2 DEF Inv, Types, Places, Standing, OnTheWay, NothingSkipped,
       ShownInOrder, Connected, InHand
<1> QED
  BY <1>1, <1>2

LEMMA OpenKeeps == ASSUME Inv, Open PROVE Inv'
<1>1. /\ pc = "open" /\ pc' = "reading" /\ sent' = since /\ wire' = <<>>
      /\ UNCHANGED <<latest, updateSeq, start, since, row, shown, garbled>>
  BY DEF Open, Resume, server
<1>2. <<>> \in Seq(Nat) /\ Len(<<>>) = 0 /\ 1..0 = {}
  BY EmptySeq
<1>3. Types' /\ Standing' /\ ShownInOrder'
  BY <1>1, <1>2 DEF Inv, Types, Places, Standing, ShownInOrder
<1>4. OnTheWay'
  BY <1>1, <1>2 DEF Inv, Types, Standing, OnTheWay, Connected, InHand
<1>5. NothingSkipped'
  BY <1>1, <1>2, InDatabase DEF Inv, Types, NothingSkipped, Accounted, Connected
<1> QED
  BY <1>3, <1>4, <1>5 DEF Inv

LEMMA FeedEndsKeeps ==
  ASSUME Inv, NEW e, FeedEnds(e), pc \in {"open", "reading", "handing"}
  PROVE  Inv'
BY Gone DEF FeedEnds, server, Places

LEMMA ReadKeeps == ASSUME Inv, Read PROVE Inv'
<1>1. /\ pc = "reading" /\ wire # <<>> /\ pc' = "handing"
      /\ row' = Head(wire) /\ wire' = Tail(wire)
      /\ UNCHANGED <<latest, updateSeq, start, since, sent, shown, garbled>>
  BY DEF Read, server
<1>2. wire \in Seq(Nat) /\ since \in Nat /\ sent \in Nat
  BY DEF Inv, Types
<1>3. /\ Len(wire) \in Nat \ {0} /\ row' \in Nat /\ row' = wire[1]
      /\ wire' \in Seq(Nat) /\ Len(wire') = Len(wire) - 1
      /\ \A k \in 1..(Len(wire) - 1) : wire'[k] = wire[k + 1]
  BY <1>1, <1>2, Taken
<1>4. Types' /\ Standing' /\ ShownInOrder'
  BY <1>1, <1>3 DEF Inv, Types, Places, Standing, ShownInOrder
<1>5. /\ since =< sent /\ sent =< updateSeq
      /\ \A k \in 1..Len(wire) : since < wire[k] /\ wire[k] =< sent
      /\ \A j, k \in 1..Len(wire) : j < k => wire[j] < wire[k]
  BY <1>1 DEF Inv, OnTheWay, Connected
<1>6. OnTheWay'
  <2>1. since < row' /\ row' =< sent
    BY <1>3, <1>5
  <2>2. ASSUME NEW k \in 1..Len(wire')
        PROVE  since < wire'[k] /\ wire'[k] =< sent /\ row' < wire'[k]
    <3>1. k \in 1..(Len(wire) - 1) /\ k + 1 \in 1..Len(wire) /\ 1 \in 1..Len(wire) /\ 1 < k + 1
      BY <1>3
    <3> QED
      BY <1>3, <1>5, <3>1
  <2>3. ASSUME NEW j \in 1..Len(wire'), NEW k \in 1..Len(wire'), j < k
        PROVE  wire'[j] < wire'[k]
    <3>1. /\ j \in 1..(Len(wire) - 1) /\ j + 1 \in 1..Len(wire)
          /\ k \in 1..(Len(wire) - 1) /\ k + 1 \in 1..Len(wire) /\ j + 1 < k + 1
      BY <1>3, <2>3
    <3> QED
      BY <1>3, <1>5, <3>1
  <2> QED
    BY <1>1, <1>5, <2>1, <2>2, <2>3 DEF OnTheWay, Connected, InHand
<1>7. NothingSkipped'
  <2>1. ASSUME NEW d \in Docs, since < latest[d], latest[d] =< sent
        PROVE  \/ Accounted(latest[d])
               \/ latest[d] = row'
               \/ \E k \in 1..Len(wire') : wire'[k] = latest[d]
    <3>1. Accounted(latest[d]) \/ \E k \in 1..Len(wire) : wire[k] = latest[d]
      BY <1>1, <2>1 DEF Inv, NothingSkipped, Connected, InHand
    <3>2. ASSUME NEW k \in 1..Len(wire), wire[k] = latest[d], k # 1
          PROVE  \E j \in 1..Len(wire') : wire'[j] = latest[d]
      <4>1. k - 1 \in 1..Len(wire') /\ (k - 1) + 1 = k
        BY <1>3, <3>2
      <4>2. wire'[k - 1] = wire[k]
        BY <1>3, <4>1
      <4> QED
        BY <3>2, <4>1, <4>2
    <3> QED
      BY <1>3, <3>1, <3>2
  <2> QED
    BY <1>1, <2>1 DEF Inv, NothingSkipped, Accounted, Connected, InHand
<1> QED
  BY <1>4, <1>6, <1>7 DEF Inv

LEMMA PassOverKeeps == ASSUME Inv, PassOver PROVE Inv'
<1>1. /\ pc = "reading" /\ wire # <<>> /\ wire' = Tail(wire)
      /\ garbled' = garbled \cup {Head(wire)}
      /\ UNCHANGED <<latest, updateSeq, pc, start, since, sent, row, shown>>
  BY DEF PassOver, server
<1>2. wire \in Seq(Nat) /\ since \in Nat /\ sent \in Nat
  BY DEF Inv, Types
<1>3. /\ Len(wire) \in Nat \ {0} /\ Head(wire) = wire[1]
      /\ wire' \in Seq(Nat) /\ Len(wire') = Len(wire) - 1
      /\ \A k \in 1..(Len(wire) - 1) : wire'[k] = wire[k + 1]
  BY <1>1, <1>2, Taken
<1>4. Types' /\ Standing' /\ ShownInOrder'
  BY <1>1, <1>3 DEF Inv, Types, Standing, ShownInOrder
<1>5. /\ since =< sent /\ sent =< updateSeq
      /\ \A k \in 1..Len(wire) : since < wire[k] /\ wire[k] =< sent
      /\ \A j, k \in 1..Len(wire) : j < k => wire[j] < wire[k]
  BY <1>1 DEF Inv, OnTheWay, Connected
<1>6. OnTheWay'
  <2>2. ASSUME NEW k \in 1..Len(wire') PROVE since < wire'[k] /\ wire'[k] =< sent
    <3>1. k \in 1..(Len(wire) - 1) /\ k + 1 \in 1..Len(wire)
      BY <1>3
    <3> QED
      BY <1>3, <1>5, <3>1
  <2>3. ASSUME NEW j \in 1..Len(wire'), NEW k \in 1..Len(wire'), j < k
        PROVE  wire'[j] < wire'[k]
    <3>1. /\ j \in 1..(Len(wire) - 1) /\ j + 1 \in 1..Len(wire)
          /\ k \in 1..(Len(wire) - 1) /\ k + 1 \in 1..Len(wire) /\ j + 1 < k + 1
      BY <1>3, <2>3
    <3> QED
      BY <1>3, <1>5, <3>1
  <2> QED
    BY <1>1, <1>5, <2>2, <2>3 DEF OnTheWay, Connected, InHand
<1>7. NothingSkipped'
  <2>1. ASSUME NEW d \in Docs, since < latest[d], latest[d] =< sent
        PROVE  \/ Accounted(latest[d]) \/ latest[d] = wire[1]
               \/ \E k \in 1..Len(wire') : wire'[k] = latest[d]
    <3>1. Accounted(latest[d]) \/ \E k \in 1..Len(wire) : wire[k] = latest[d]
      BY <1>1, <2>1 DEF Inv, NothingSkipped, Connected, InHand
    <3>2. ASSUME NEW k \in 1..Len(wire), wire[k] = latest[d], k # 1
          PROVE  \E j \in 1..Len(wire') : wire'[j] = latest[d]
      <4>1. k - 1 \in 1..Len(wire') /\ (k - 1) + 1 = k
        BY <1>3, <3>2
      <4>2. wire'[k - 1] = wire[k]
        BY <1>3, <4>1
      <4> QED
        BY <3>2, <4>1, <4>2
    <3> QED
      BY <1>3, <3>1, <3>2
  <2> QED
    BY <1>1, <1>3, <2>1 DEF Inv, NothingSkipped, Accounted, Connected, InHand
<1> QED
  BY <1>4, <1>6, <1>7 DEF Inv

(* The change handed over is the last one shown, and the one to resume after. *)
LEMMA HandOverKeeps == ASSUME Inv, HandOver PROVE Inv'
<1>1. /\ pc = "handing" /\ pc' = "reading" /\ shown' = Append(shown, row)
      /\ since' = row /\ row' = 0
      /\ UNCHANGED <<latest, updateSeq, start, sent, wire, garbled>>
  BY DEF HandOver, server
<1>2. /\ shown \in Seq(Nat) /\ Len(shown) \in Nat /\ wire \in Seq(Nat) /\ Len(wire) \in Nat
      /\ row \in Nat /\ since \in Nat /\ start \in Nat /\ sent \in Nat /\ updateSeq \in Nat
  BY LenProperties DEF Inv, Types
<1>3. /\ shown' \in Seq(Nat) /\ Len(shown') = Len(shown) + 1
      /\ \A k \in 1..Len(shown) : shown'[k] = shown[k] /\ shown[k] \in Nat
      /\ shown'[Len(shown) + 1] = row
      /\ ToSet(shown') = ToSet(shown) \cup {row}
  BY <1>1, <1>2, Appended, ElementOfSeq
<1>4. /\ since < row /\ row =< sent /\ sent =< updateSeq /\ start =< since
      /\ \A k \in 1..Len(wire) : wire[k] =< sent /\ row < wire[k]
      /\ \A j, k \in 1..Len(wire) : j < k => wire[j] < wire[k]
  BY <1>1 DEF Inv, OnTheWay, Standing, Connected, InHand
<1>5. Types' /\ Standing'
  BY <1>1, <1>2, <1>3, <1>4 DEF Inv, Types, Places, Standing
<1>6. OnTheWay'
  BY <1>1, <1>2, <1>4 DEF OnTheWay, Connected, InHand
<1>7. NothingSkipped'
  <2>1. ASSUME NEW d \in Docs, start < latest[d], latest[d] =< sent
        PROVE  \/ Accounted(latest[d]) \/ latest[d] = row
               \/ \E k \in 1..Len(wire) : wire[k] = latest[d]
    <3>1. CASE latest[d] =< since
      BY <1>1, <2>1, <3>1 DEF Inv, NothingSkipped
    <3>2. CASE since < latest[d]
      BY <1>1, <2>1, <3>2 DEF Inv, NothingSkipped, Connected
    <3> QED
      BY <1>2, <3>1, <3>2, InDatabase
  <2>2. ASSUME NEW d \in Docs, start < latest[d], latest[d] =< row
        PROVE  Accounted(latest[d]) \/ latest[d] = row
    <3>1. latest[d] \in Nat /\ latest[d] =< sent
      BY <1>2, <1>4, <2>2, InDatabase
    <3>2. ASSUME NEW k \in 1..Len(wire) PROVE wire[k] # latest[d]
      <4>1. wire[k] \in Nat /\ row < wire[k]
        BY <1>2, <1>4, ElementOfSeq
      <4> QED
        BY <1>2, <2>2, <3>1, <4>1
    <3> QED
      BY <2>1, <2>2, <3>1, <3>2
  <2>3. ASSUME NEW d \in Docs, row < latest[d], latest[d] =< sent
        PROVE  \/ Accounted(latest[d])
               \/ \E k \in 1..Len(wire) : wire[k] = latest[d]
    <3>1. latest[d] \in Nat
      BY InDatabase
    <3>2. start < latest[d] /\ latest[d] # row
      BY <1>2, <1>4, <2>3, <3>1
    <3> QED
      BY <2>1, <2>3, <3>2
  <2> QED
    BY <1>1, <1>3, <2>2, <2>3 DEF NothingSkipped, Accounted, Connected, InHand
<1>8. ShownInOrder'
  <2>1. /\ \A k \in 1..Len(shown) : start < shown[k] /\ shown[k] =< since
        /\ \A j, k \in 1..Len(shown) : j < k => shown[j] < shown[k]
    BY DEF Inv, ShownInOrder
  <2>2. \A k \in 1..Len(shown') : k \in 1..Len(shown) \/ k = Len(shown) + 1
    BY <1>2, <1>3
  <2>3. ASSUME NEW k \in 1..Len(shown') PROVE start < shown'[k] /\ shown'[k] =< row
    <3>1. CASE k \in 1..Len(shown)
      <4>1. shown'[k] = shown[k] /\ shown[k] \in Nat /\ start < shown[k] /\ shown[k] =< since
        BY <1>3, <2>1, <3>1
      <4> QED
        BY <1>2, <1>4, <4>1
    <3>2. CASE k = Len(shown) + 1
      BY <1>2, <1>3, <1>4, <3>2
    <3> QED
      BY <2>2, <3>1, <3>2
  <2>4. ASSUME NEW j \in 1..Len(shown'), NEW k \in 1..Len(shown'), j < k
        PROVE  shown'[j] < shown'[k]
    <3>1. j \in 1..Len(shown) /\ shown'[j] = shown[j]
      BY <1>2, <1>3, <2>4, SMTT(30)
    <3>2. CASE k \in 1..Len(shown)
      BY <1>3, <2>1, <2>4, <3>1, <3>2
    <3>3. CASE k = Len(shown) + 1
      BY <1>2, <1>3, <1>4, <2>1, <3>1, <3>3, SMTT(30)
    <3> QED
      BY <2>2, <3>2, <3>3
  <2> QED
    BY <1>1, <2>3, <2>4 DEF ShownInOrder
<1> QED
  BY <1>5, <1>6, <1>7, <1>8 DEF Inv

LEMMA Steps == Inv /\ [Next]_vars => Inv'
<1> SUFFICES ASSUME Inv, [Next]_vars PROVE Inv'
  OBVIOUS
<1>1. ASSUME NEW d \in Docs, Write(d) PROVE Inv'
  BY <1>1, WriteKeeps
<1>2. CASE Send
  BY <1>2, SendKeeps
<1>3. CASE Info
  BY <1>3, InfoKeeps
<1>4. CASE Open
  BY <1>4, OpenKeeps
<1>5. CASE Read
  BY <1>5, ReadKeeps
<1>6. CASE PassOver
  BY <1>6, PassOverKeeps
<1>7. CASE HandOver
  BY <1>7, HandOverKeeps
<1>8. CASE Drop \/ NotFound \/ Refuse \/ CancelRead \/ CancelHandOver
  BY <1>8, FeedEndsKeeps DEF Drop, NotFound, Refuse, CancelRead, CancelHandOver
<1>9. CASE Retry \/ Awake \/ Report
  <2>1. /\ pc # "info" /\ pc' \in Places \ {"info", "reading", "handing"} /\ wire' = wire
        /\ UNCHANGED <<latest, updateSeq, start, since, sent, row, shown, garbled>>
    BY <1>9 DEF Retry, Awake, Report, Places, server
  <2> QED
    BY <2>1, Gone
<1>10. CASE DeleteDatabase \/ Interrupt \/ Rendered \/ Leave \/ Ended
  <2>1. UNCHANGED invVars
    BY <1>10 DEF DeleteDatabase, Interrupt, Rendered, Leave, Ended, server, invVars
  <2> QED
    BY <2>1, Unchanged
<1>11. CASE UNCHANGED vars
  <2>1. UNCHANGED invVars
    BY <1>11 DEF vars, invVars
  <2> QED
    BY <2>1, Unchanged
<1> QED
  BY <1>1, <1>2, <1>3, <1>4, <1>5, <1>6, <1>7, <1>8, <1>9, <1>10, <1>11
     DEF Next, Goroutine

(* A follow shows each change once and in the order of the database, and where
   it would resume nothing before is missing, whatever drops when: for any
   documents, any number of writes, drops and unreadable lines, and any number
   of lines the server is ahead. *)
THEOREM FollowShowsOnceInOrder == Spec => []OnceInOrder
<1>1. Inv => OnceInOrder
  <2> SUFFICES ASSUME Inv PROVE OnceInOrder
    OBVIOUS
  <2>1. Len(shown) \in Nat
    BY LenProperties DEF Inv, Types
  <2>2. \A k \in 1..(Len(shown) - 1) : shown[k] < shown[k + 1]
    BY <2>1 DEF Inv, ShownInOrder
  <2> QED
    BY <2>1, <2>2 DEF Inv, ShownInOrder, NothingSkipped, Accounted, OnceInOrder
<1> QED
  BY Initially, Steps, <1>1, PTL DEF Spec

(***************************************************************************)
(* Profiles.                                                               *)
(***************************************************************************)
ProfileSteps == {"idle", "secret", "ask", "login", "attached", "store", "set", "write", "forget"}
Identities == Users \cup {"service", "nobody"}
Job == [cmd : Maybe(Command), env : Maybe(Env), prof : Maybe(Profile), name : Maybe(Names),
        secret : Maybe(Secrets), bare : BOOLEAN, userOnly : BOOLEAN, guided : BOOLEAN,
        who : Maybe(Identities)]
Origin == [server : Servers, who : Identities]

ProfilesTypes ==
  /\ file \in File /\ ring \in [Names -> Maybe(Secrets)]
  /\ at \in [Procs -> ProfileSteps] /\ job \in [Procs -> Job] /\ copy \in [Procs -> File]
  /\ overlap \in BOOLEAN /\ kept \in [Names -> Maybe(Origin)]

(* What a command has in hand at each of its steps. *)
Holding(where, j) ==
  /\ where \in {"secret", "ask", "login", "attached", "store", "set"} => j.prof \in Profile
  /\ where # "idle" => j.cmd \in Command
  /\ where \in {"secret", "ask", "attached"} => j.cmd.op = "connect"
  /\ where = "attached" => j.who # None
  /\ where = "login" => j.cmd.op \in {"connect", "add"}
  /\ where \in {"secret", "ask"} => j.env \in Env /\ ~j.guided
  /\ where = "login" /\ j.cmd.op = "add" => j.name \in Names
  /\ where \in {"store", "set", "write", "forget"} => j.name \in Names
  /\ where \in {"store", "set"} => j.cmd.op \in {"connect", "add"}
  /\ where = "write" /\ j.cmd.op \in {"connect", "add"} => j.prof \in Profile
  /\ where = "write" /\ j.cmd.op = "remove" => j.who = None
  /\ where = "forget" => j.cmd.op = "remove"

(* An identity is one the server takes the command's own credentials for. *)
Proven(where, j) ==
  j.who # None => /\ where \in {"attached", "store", "set", "write"}
                  /\ j.prof \in Profile
                  /\ j.who = Attempt(j.prof, j.secret, j.prof.hash)
                  /\ j.prof.auth = "proxy" => j.prof.hash # None

(* What a connection is aimed at does not change on the way to the server, nor does
   the user that its URL names, unless by a proxy. *)
TrueTo(j, read) ==
  LET u == Named(j.cmd) IN
  /\ j.prof.url.server = Asked(j, read).server
  /\ u # None /\ u \notin Names /\ u.user # None =>
       /\ ~j.bare
       /\ j.prof.url.user \in {None, u.user}
       /\ j.prof.auth # "proxy" => j.prof.user = u.user
Aimed(where, j, read) ==
  where \in {"secret", "ask", "login", "attached"} /\ j.cmd.op = "connect" /\ ~j.guided
    => TrueTo(j, read)

DefaultIsThere(f) == f.default # None => f.default \in Saved(f)

(* Two commands at once cost what is known of the profiles; otherwise at most one is
   under way. *)
Alone ==
  /\ overlap => \A n \in Names : kept[n] = None
  /\ ~overlap => \A p, q \in Procs : Busy(p) /\ Busy(q) => p = q

(* What a profile and the secret of its name connect to. *)
Leads(prof, secret) ==
  [server |-> prof.url.server, who |-> Who(prof, IF prof.auth = "none" THEN None ELSE secret)]

LeadsBack ==
  \A n \in Names : kept[n] # None =>
    n \in Saved(file) /\ kept[n] = Leads(file.profiles[n], ring[n])

(* A command that is alone holds the file as it is until it has changed it, and then
   the file with its own change. *)
SetReady(p) ==
  LET j == job[p] IN
  /\ copy[p] = SetProfile(file, j.name, Stored(j.prof, j.secret))
  /\ Moved(j.prof, j.secret) # None /\ Stored(j.prof, j.secret).auth # "none"
       => ring[j.name] = Moved(j.prof, j.secret)
OwnChange(p) ==
  LET j == job[p] IN
  ~overlap =>
    /\ at[p] = "set" => copy[p] = file
    /\ at[p] = "write" /\ j.cmd.op \in {"connect", "add"} => SetReady(p)
    /\ at[p] = "write" /\ j.cmd.op = "remove" => copy[p] = RemoveProfile(file, j.name)
    /\ at[p] = "write" /\ j.cmd.op = "default" => copy[p].profiles = file.profiles
    /\ at[p] = "forget" => kept[j.name] = None

Sound(p) ==
  /\ Holding(at[p], job[p]) /\ Proven(at[p], job[p]) /\ Aimed(at[p], job[p], copy[p])
  /\ DefaultIsThere(copy[p]) /\ OwnChange(p)

ProfilesInv ==
  /\ ProfilesTypes
  /\ DefaultIsThere(file) /\ Alone /\ LeadsBack
  /\ \A p \in Procs : Sound(p)
-----------------------------------------------------------------------------
(* What the operators give.                                                *)

LEMMA NamedType ==
  ASSUME NEW c \in Command
  PROVE  Named(c) \in Maybe(Names \cup Address)
BY DEF Named, Command, Maybe

LEMMA AttemptType ==
  ASSUME NEW p \in Profile, NEW secret, NEW hash
  PROVE  Attempt(p, secret, hash) \in Maybe(Identities)
<1>1. p.user \in Maybe(Users) /\ p.url.user \in Maybe(Users) /\ p.auth \in Kinds
  BY DEF Profile, Address
<1>2. CASE p.auth = "session"
  BY <1>1, <1>2 DEF Attempt, Maybe, Identities
<1>3. CASE p.auth = "jwt"
  <2>1. CASE \E u \in Users : Accepts(p.url.server, "jwt", u, secret)
    <3>1. (CHOOSE u \in Users : Accepts(p.url.server, "jwt", u, secret)) \in Users
      BY <2>1
    <3>2. Attempt(p, secret, hash) = CHOOSE u \in Users : Accepts(p.url.server, "jwt", u, secret)
      BY <1>3, <2>1 DEF Attempt
    <3> QED BY <3>1, <3>2 DEF Maybe, Identities
  <2>2. CASE ~\E u \in Users : Accepts(p.url.server, "jwt", u, secret)
    BY <1>3, <2>2 DEF Attempt, Maybe
  <2> QED BY <2>1, <2>2
<1>4. CASE p.auth = "proxy"
  BY <1>1, <1>4 DEF Attempt, Maybe, Identities
<1>5. CASE p.auth = "iam"
  BY <1>1, <1>5 DEF Attempt, Maybe, Identities
<1>6. CASE p.auth = "none"
  BY <1>1, <1>6 DEF Attempt, Maybe, Identities
<1> QED BY <1>1, <1>2, <1>3, <1>4, <1>5, <1>6 DEF Kinds

LEMMA HashType ==
  ASSUME NEW p \in Profile, NEW secret
  PROVE  /\ Hash(p, secret) \in {"sha1", "sha256", None}
         /\ p.auth = "proxy" => Hash(p, secret) # None
<1>1. p.hash \in {"sha1", "sha256", None}
  BY DEF Profile
<1> QED BY <1>1, ProfilesAssumption DEF Hash

LEMMA StoredType ==
  ASSUME NEW p \in Profile, NEW secret
  PROVE  Stored(p, secret) \in Profile
<1>1. /\ p.url \in Address /\ p.auth \in Kinds /\ p.user \in Maybe(Users)
      /\ p.hash \in {"sha1", "sha256", None}
  BY DEF Profile
<1>2. Clean(p.url) \in Address /\ p.url.user \in Maybe(Users)
  BY <1>1 DEF Clean, Url, Address, Maybe
<1>3. /\ Stored(p, secret).url = Clean(p.url)
      /\ Stored(p, secret).auth = IF secret = None /\ p.url.secret # None /\ p.auth = "none"
                                  THEN "session" ELSE p.auth
      /\ Stored(p, secret).hash = p.hash
  BY DEF Stored, Profile
<1> QED BY <1>1, <1>2 DEF Stored, Profile, Kinds, Maybe

(* A profile that a command has settled on. *)
LEMMA AppliedType ==
  ASSUME NEW e \in Env, NEW p \in Profile
  PROVE  /\ Applied(e, p) \in Profile
         /\ Applied(e, p).url = IF e.url # None THEN e.url ELSE p.url
         /\ Applied(e, p).user = IF e.user # None THEN e.user ELSE p.user
<1>1. /\ p.url \in Address /\ p.auth \in Kinds /\ p.user \in Maybe(Users)
      /\ e.url \in Maybe(Address) /\ e.user \in Maybe(Users)
  BY DEF Profile, Env
<1>2. EnvKind(e, p.auth) \in Kinds
  BY <1>1 DEF EnvKind, Kinds
<1> QED BY <1>1, <1>2 DEF Applied, Profile, Maybe

LEMMA EnvForType ==
  ASSUME NEW e \in Env, NEW target
  PROVE  /\ EnvFor(e, target) \in Env
         /\ target # None => EnvFor(e, target).url = None
         /\ target = None => EnvFor(e, target) = e
         /\ EnvFor(e, target).user = e.user
BY DEF EnvFor, Env, Maybe

LEMMA FallbackType ==
  ASSUME NEW e \in Env, NEW f \in File
  PROVE  Fallback(e, f) \in Maybe(Names)
<1>1. e.profile \in Maybe(Names) /\ f.default \in Maybe(Names)
  BY DEF Env, File
<1>2. Cardinality(Saved(f)) = 1 => (CHOOSE n \in Names : n \in Saved(f)) \in Names
  <2> SUFFICES ASSUME Cardinality(Saved(f)) = 1
      PROVE  \E n \in Names : n \in Saved(f)
    OBVIOUS
  <2>1. Saved(f) # {}
    BY FS_EmptySet
  <2> QED BY <2>1 DEF Saved
<1> QED BY <1>1, <1>2 DEF Fallback, Maybe

LEMMA ForUrlType ==
  ASSUME NEW u \in Address
  PROVE  /\ ForUrl(u) \in Profile
         /\ ForUrl(u).url.server = u.server
         /\ ForUrl(u).url.user \in {None, u.user}
         /\ ForUrl(u).user = u.user
<1>1. /\ u.server \in Servers /\ u.user \in Maybe(Users) /\ u.secret \in Maybe(Secrets)
  BY DEF Address
<1> QED BY <1>1 DEF ForUrl, Prof, Clean, Url, Profile, Address, Kinds, Maybe

LEMMA BaseType ==
  ASSUME NEW target \in Maybe(Names \cup Address), NEW e \in Env, NEW f \in File,
         Base(target, e, f) # None
  PROVE  /\ Base(target, e, f) \in Profile
         /\ target \in Names => Base(target, e, f) = f.profiles[target]
         /\ target \notin Names /\ target # None => Base(target, e, f) = ForUrl(target)
         /\ target = None /\ e.url = None =>
              Base(target, e, f) = f.profiles[NameOf(target, e, f)]
<1>1. \A n \in Names : f.profiles[n] \in Maybe(Profile)
  BY DEF File
<1>2. e.url \in Maybe(Address)
  BY DEF Env
<1>3. Fallback(e, f) \in Maybe(Names)
  BY FallbackType
<1>4. None \notin Names
  BY ProfilesAssumption
<1>5. CASE target \in Names
  <2>1. NameOf(target, e, f) = target
    BY <1>4, <1>5 DEF NameOf
  <2>2. Base(target, e, f) = f.profiles[target]
    BY <1>4, <1>5, <2>1 DEF Base
  <2> QED BY <1>1, <1>4, <1>5, <2>2 DEF Maybe
<1>6. CASE target = None
  <2>1. NameOf(target, e, f) = Fallback(e, f)
    BY <1>4, <1>6 DEF NameOf
  <2>2. CASE Fallback(e, f) # None
    <3>1. Base(target, e, f) = f.profiles[Fallback(e, f)]
      BY <1>6, <2>1, <2>2 DEF Base
    <3> QED BY <1>1, <1>3, <1>4, <1>6, <2>1, <2>2, <3>1 DEF Maybe
  <2>3. CASE Fallback(e, f) = None
    <3>1. e.url # None /\ Base(target, e, f) = Prof(e.url, "session", None)
      BY <1>6, <2>1, <2>3 DEF Base
    <3>2. Prof(e.url, "session", None) \in Profile
      BY <1>2, <3>1 DEF Prof, Profile, Kinds, Maybe
    <3> QED BY <1>4, <1>6, <3>1, <3>2
  <2> QED BY <2>2, <2>3
<1>7. CASE target \notin Names /\ target # None
  <2>1. Base(target, e, f) = ForUrl(target)
    BY <1>7 DEF Base
  <2>2. target \in Address
    BY <1>7 DEF Maybe
  <2> QED BY <1>7, <2>1, <2>2, ForUrlType
<1> QED BY <1>5, <1>6, <1>7

LEMMA UserOfType ==
  ASSUME NEW target \in Maybe(Names \cup Address), NEW e \in Env, NEW p \in Profile
  PROVE  /\ UserOf(p, target, e) \in Maybe(Users)
         /\ target \notin Names /\ target # None /\ target.user # None /\ e.user # None =>
              UserOf(p, target, e) = target.user
         /\ e.user = None => UserOf(p, target, e) = p.user
<1>1. p.user \in Maybe(Users) /\ p.url.user \in Maybe(Users)
  BY DEF Profile, Address
<1>2. target \notin Names /\ target # None => target.user \in Maybe(Users)
  BY DEF Address, Maybe
<1> QED BY <1>1, <1>2 DEF UserOf

(* What a command opens.                                                   *)
Opens(c, env, f, o) ==
  /\ o \in Job /\ o.prof \in Profile /\ o.cmd = c /\ o.env \in Env
  /\ o.who = None /\ ~o.guided
  /\ TrueTo(o, f)

LEMMA OpenedIsTrue ==
  ASSUME NEW c \in Command, NEW env \in Env, NEW f \in File, Opened(c, env, f) # None
  PROVE  Opens(c, env, f, Opened(c, env, f))
<1> DEFINE target == Named(c)
           e == EnvFor(env, target)
           base == Base(target, env, f)
           p == Applied(e, base)
           user == UserOf(p, target, e)
           auth == IF c.kind # None THEN c.kind ELSE p.auth
           prof == [p EXCEPT !.user = user, !.auth = auth]
           o == Opened(c, env, f)
           bare == Bare(target, e, c.kind)
           only == target # None /\ target \notin Names /\ UserOnly(target)
<1>1. target \in Maybe(Names \cup Address)
  BY NamedType
<1>2. /\ e \in Env /\ e.user = env.user
      /\ target # None => e.url = None
      /\ target = None => e = env
  BY EnvForType
<1>3. base # None
  BY DEF Opened
<1>4. /\ base \in Profile
      /\ target \in Names => base = f.profiles[target]
      /\ target \notin Names /\ target # None => base = ForUrl(target)
      /\ target = None /\ env.url = None => base = f.profiles[NameOf(target, env, f)]
  BY <1>1, <1>3, BaseType
<1>5. /\ p \in Profile
      /\ p.url = IF e.url # None THEN e.url ELSE base.url
      /\ p.user = IF e.user # None THEN e.user ELSE base.user
  BY <1>2, <1>4, AppliedType
<1>6. /\ user \in Maybe(Users)
      /\ target \notin Names /\ target # None /\ target.user # None /\ e.user # None => user = target.user
      /\ e.user = None => user = p.user
  BY <1>1, <1>2, <1>5, UserOfType
<1>7. c.kind \in Maybe(Kinds) /\ p.auth \in Kinds
  BY <1>5 DEF Command, Profile
<1>8. /\ prof \in Profile /\ prof.url = p.url /\ prof.user = user /\ prof.auth = auth
  BY <1>5, <1>6, <1>7 DEF Profile, Maybe
<1>9. o = [cmd |-> c, env |-> e, prof |-> prof, name |-> NameOf(target, env, f), secret |-> None,
           bare |-> bare, userOnly |-> only, guided |-> FALSE, who |-> None]
  BY <1>3 DEF Opened, NoJob
<1>10. NameOf(target, env, f) \in Maybe(Names)
  <2>1. Fallback(env, f) \in Maybe(Names)
    BY FallbackType
  <2> QED BY <2>1 DEF NameOf, Maybe
<1>11. bare \in BOOLEAN /\ only \in BOOLEAN
  BY DEF Bare, UserOnly
<1>12. o \in Job
  BY <1>2, <1>8, <1>9, <1>10, <1>11 DEF Job, Maybe
<1>13. o.cmd = c /\ o.env = e /\ o.prof = prof /\ o.name = NameOf(target, env, f) /\ o.bare = bare
  BY <1>9
<1>14. o.who = None /\ ~o.guided
  BY <1>9
<1>15. o.prof.url.server = Asked(o, f).server
  <2>1. CASE target \in Names
    <3>1. Asked(o, f) = f.profiles[target].url
      BY <1>13, <2>1 DEF Asked
    <3>2. target # None
      BY <2>1, ProfilesAssumption
    <3> QED BY <1>2, <1>4, <1>5, <1>8, <1>13, <2>1, <3>1, <3>2
  <2>2. CASE target \notin Names /\ target # None
    <3>1. Asked(o, f) = target
      BY <1>13, <2>2 DEF Asked
    <3>2. target \in Address
      BY <1>1, <2>2 DEF Maybe
    <3>3. base.url.server = target.server
      BY <1>4, <2>2, <3>2, ForUrlType
    <3> QED BY <1>2, <1>5, <1>8, <1>13, <2>2, <3>1, <3>3
  <2>3. CASE target = None /\ env.url # None
    <3>1. Asked(o, f) = env.url
      BY <1>2, <1>13, <2>3, ProfilesAssumption DEF Asked
    <3> QED BY <1>2, <1>5, <1>8, <1>13, <2>3, <3>1
  <2>4. CASE target = None /\ env.url = None
    <3>1. Asked(o, f) = f.profiles[NameOf(target, env, f)].url
      BY <1>2, <1>13, <2>4, ProfilesAssumption DEF Asked
    <3> QED BY <1>2, <1>4, <1>5, <1>8, <1>13, <2>4, <3>1
  <2> QED BY <2>1, <2>2, <2>3, <2>4
<1>16. ASSUME target # None, target \notin Names, target.user # None
       PROVE  ~bare /\ prof.url.user \in {None, target.user} /\ prof.user = target.user
  <2>1. target \in Address
    BY <1>1, <1>16 DEF Maybe
  <2>2. base.url.user \in {None, target.user} /\ base.user = target.user
    BY <1>4, <1>16, <2>1, ForUrlType
  <2>3. ~bare
    BY <1>16 DEF Bare
  <2>4. prof.url.user \in {None, target.user}
    BY <1>2, <1>5, <1>8, <1>16, <2>2
  <2>5. prof.user = target.user
    BY <1>5, <1>6, <1>8, <1>16, <2>2
  <2> QED BY <2>3, <2>4, <2>5
<1>17. TrueTo(o, f)
  BY <1>13, <1>15, <1>16 DEF TrueTo
<1> QED BY <1>2, <1>8, <1>12, <1>13, <1>14, <1>17 DEF Opens

(* A profile that is opened by its name, with nothing exported, is itself. *)
LEMMA OpenedByName ==
  ASSUME NEW f \in File, NEW n \in Saved(f)
  PROVE  Opened([Plain EXCEPT !.arg = n], NoEnv, f).prof = f.profiles[n]
<1> DEFINE c == [Plain EXCEPT !.arg = n]
           base == f.profiles[n]
<1>1. n \in Names /\ base # None /\ base \in Profile
  BY DEF Saved, File, Maybe
<1>2. n # None
  BY <1>1, ProfilesAssumption
<1>3. Named(c) = n /\ c.kind = None
  BY DEF Named, Plain
<1>4. EnvFor(NoEnv, n) = NoEnv
  BY DEF EnvFor, NoEnv
<1>5. Base(n, NoEnv, f) = base
  BY <1>1, <1>2 DEF Base, NameOf
<1>6. Applied(NoEnv, base) = base
  <2>1. EnvKind(NoEnv, base.auth) = base.auth
    BY DEF EnvKind, NoEnv
  <2> QED BY <1>1, <2>1 DEF Applied, NoEnv, Profile
<1>7. UserOf(base, n, NoEnv) = base.user
  BY DEF UserOf, NoEnv
<1>8. Opened(c, NoEnv, f).prof = [base EXCEPT !.user = base.user, !.auth = base.auth]
  BY <1>1, <1>3, <1>4, <1>5, <1>6, <1>7 DEF Opened, NoJob
<1> QED BY <1>1, <1>8 DEF Profile

(* What is asked keeps a connection true to its aim.                       *)
LEMMA AskKindIsTrue ==
  ASSUME NEW j \in Job, j.prof \in Profile,
         NEW a \in [user : Maybe(Users), secret : Maybe(Secrets)]
  PROVE  LET k == AskKind(j, a) IN
         /\ k \in Job /\ k.prof \in Profile
         /\ k.cmd = j.cmd /\ k.env = j.env /\ k.name = j.name /\ k.who = j.who
         /\ k.guided = j.guided /\ k.bare = j.bare
         /\ k.prof.url = j.prof.url /\ k.prof.auth = j.prof.auth
         /\ j.prof.auth \notin {"session", "proxy"} => k.prof.user = j.prof.user
<1> DEFINE user == IF j.prof.auth \in {"session", "proxy"} THEN a.user ELSE j.prof.user
           secret == IF j.prof.auth = "none" THEN j.secret ELSE a.secret
           prof == [j.prof EXCEPT !.user = user]
<1>1. user \in Maybe(Users) /\ secret \in Maybe(Secrets)
  BY DEF Profile, Job
<1>2. prof \in Profile /\ prof.url = j.prof.url /\ prof.auth = j.prof.auth /\ prof.user = user
  BY <1>1 DEF Profile
<1>3. AskKind(j, a) = [j EXCEPT !.secret = secret, !.prof = prof]
  BY DEF AskKind, Job
<1> HIDE DEF secret, prof
<1>4. AskKind(j, a) \in Job
  BY <1>1, <1>2, <1>3 DEF Job, Maybe
<1>5. AskKind(j, a).prof = prof
  BY <1>3 DEF Job
<1>6. LET k == AskKind(j, a) IN
      /\ k.cmd = j.cmd /\ k.env = j.env /\ k.name = j.name /\ k.who = j.who
      /\ k.guided = j.guided /\ k.bare = j.bare
  BY <1>3 DEF Job
<1> QED BY <1>2, <1>4, <1>5, <1>6

LEMMA FallBackIsTrue ==
  ASSUME NEW j \in Job, j.prof \in Profile
  PROVE  LET k == FallBack(j) IN
         /\ k \in Job /\ k.prof \in Profile
         /\ k.cmd = j.cmd /\ k.env = j.env /\ k.name = j.name /\ k.who = j.who
         /\ k.guided = j.guided /\ k.bare = j.bare
         /\ k.prof.url = j.prof.url /\ k.prof.user = j.prof.user
         /\ k.prof.auth = j.prof.auth \/ (j.prof.auth = "session" /\ k.prof.auth = "none")
<1>1. CASE j.secret = None /\ j.userOnly /\ j.prof.auth = "session"
  <2> DEFINE prof == [j.prof EXCEPT !.auth = "none"]
  <2>1. /\ prof \in Profile /\ prof.url = j.prof.url /\ prof.user = j.prof.user
        /\ prof.auth = "none"
    BY DEF Profile, Kinds
  <2>2. FallBack(j) = [j EXCEPT !.prof = prof]
    BY <1>1 DEF FallBack, Job
  <2> HIDE DEF prof
  <2>3. FallBack(j) \in Job /\ FallBack(j).prof = prof
    BY <2>1, <2>2 DEF Job, Maybe
  <2>4. LET k == FallBack(j) IN
        /\ k.cmd = j.cmd /\ k.env = j.env /\ k.name = j.name /\ k.who = j.who
        /\ k.guided = j.guided /\ k.bare = j.bare
    BY <2>2 DEF Job
  <2> QED BY <1>1, <2>1, <2>3, <2>4
<1>2. CASE ~(j.secret = None /\ j.userOnly /\ j.prof.auth = "session")
  <2>1. FallBack(j) = j
    BY <1>2 DEF FallBack
  <2> QED BY <2>1
<1> QED BY <1>1, <1>2

LEMMA AnswersAreTrue ==
  ASSUME NEW j \in Job, j.prof \in Profile, NEW f,
         NEW a \in [user : Maybe(Users), secret : Maybe(Secrets)],
         j.who = None, ~j.guided, TrueTo(j, f)
  PROVE  LET k == Answered(j, a) IN
         /\ k \in Job /\ k.prof \in Profile /\ k.cmd = j.cmd /\ k.who = None /\ ~k.guided
         /\ TrueTo(k, f)
<1> DEFINE k == Answered(j, a)
           same == /\ k \in Job /\ k.prof \in Profile
                   /\ k.cmd = j.cmd /\ k.env = j.env /\ k.name = j.name /\ k.who = j.who
                   /\ k.guided = j.guided /\ k.bare = j.bare /\ k.prof.url = j.prof.url
<1>1. a.user \in Maybe(Users) /\ a.secret \in Maybe(Secrets)
  OBVIOUS
<1>2. same /\ (\/ k.prof.user = j.prof.user /\ (j.prof.auth = "proxy" => k.prof.auth = "proxy")
               \/ j.prof.auth = "proxy" /\ k.prof.auth = "proxy"
               \/ j.bare)
  <2>1. CASE Question(j) = "nothing"
    <3>1. k = FallBack(j)
      BY <2>1 DEF Answered
    <3> QED BY <3>1, FallBackIsTrue
  <2>2. CASE Question(j) = "password"
    <3> DEFINE m == [j EXCEPT !.secret = a.secret]
    <3>1. k = FallBack(m)
      BY <2>2 DEF Answered
    <3>2. m \in Job /\ m.prof = j.prof
      BY <1>1 DEF Job
    <3>3. /\ m.cmd = j.cmd /\ m.env = j.env /\ m.name = j.name /\ m.who = j.who
          /\ m.guided = j.guided /\ m.bare = j.bare
      BY DEF Job
    <3> HIDE DEF m
    <3> QED BY <3>1, <3>2, <3>3, FallBackIsTrue
  <2>3. CASE Question(j) = "kind"
    <3>1. k = AskKind(j, a)
      BY <2>3 DEF Answered
    <3>2. j.prof.auth \in {"proxy", "iam"}
      BY <2>3 DEF Question
    <3> QED BY <3>1, <3>2, AskKindIsTrue
  <2>4. CASE Question(j) = "login" /\ a.secret = None
    <3>1. k = j
      BY <2>4 DEF Answered
    <3> QED BY <3>1
  <2>5. CASE Question(j) = "login" /\ a.secret # None
    <3> DEFINE prof == [j.prof EXCEPT !.auth = "session", !.user = a.user]
    <3>1. prof \in Profile /\ prof.url = j.prof.url
      BY <1>1 DEF Profile, Kinds
    <3>2. k = [j EXCEPT !.secret = a.secret, !.prof = prof]
      BY <2>5 DEF Answered, Job
    <3>3. j.bare
      BY <2>5 DEF Question
    <3> HIDE DEF prof
    <3>4. k \in Job /\ k.prof = prof
      BY <1>1, <3>1, <3>2 DEF Job, Maybe
    <3>5. /\ k.cmd = j.cmd /\ k.env = j.env /\ k.name = j.name /\ k.who = j.who
          /\ k.guided = j.guided /\ k.bare = j.bare
      BY <3>2 DEF Job
    <3> QED BY <3>1, <3>3, <3>4, <3>5
  <2>6. Question(j) \in {"nothing", "password", "kind", "login"}
    BY DEF Question
  <2> QED BY <2>1, <2>2, <2>3, <2>4, <2>5, <2>6
<1>3. Asked(k, f) = Asked(j, f) /\ Named(k.cmd) = Named(j.cmd)
  BY <1>2 DEF Asked
<1> HIDE DEF k
<1>4. TrueTo(k, f)
  BY <1>2, <1>3 DEF TrueTo
<1> QED BY <1>2, <1>4 DEF k

(* Proving changes nothing but who it is and the digest that worked.       *)
LEMMA ProvenAtLogin ==
  ASSUME NEW j \in Job, j.prof \in Profile, Who(j.prof, j.secret) # None
  PROVE  LET k == [j EXCEPT !.who = Who(j.prof, j.secret), !.prof.hash = Hash(j.prof, j.secret)] IN
         /\ k \in Job /\ k.prof \in Profile
         /\ k.cmd = j.cmd /\ k.env = j.env /\ k.name = j.name /\ k.guided = j.guided
         /\ k.bare = j.bare /\ k.prof.url = j.prof.url /\ k.prof.user = j.prof.user
         /\ k.prof.auth = j.prof.auth
         /\ k.who = Who(j.prof, j.secret)
         /\ k.who = Attempt(k.prof, k.secret, k.prof.hash)
         /\ k.prof.auth = "proxy" => k.prof.hash # None
<1> DEFINE who == Who(j.prof, j.secret)
           hash == Hash(j.prof, j.secret)
           prof == [j.prof EXCEPT !.hash = hash]
           k == [j EXCEPT !.who = who, !.prof.hash = hash]
<1>1. who \in Maybe(Identities)
  BY AttemptType DEF Who
<1>2. hash \in {"sha1", "sha256", None} /\ (j.prof.auth = "proxy" => hash # None)
  BY HashType
<1>3. who = Attempt(j.prof, j.secret, hash)
  BY DEF Who
<1> HIDE DEF who, hash
<1>4. /\ prof \in Profile /\ prof.url = j.prof.url /\ prof.auth = j.prof.auth
      /\ prof.user = j.prof.user /\ prof.hash = hash
  BY <1>2 DEF Profile
<1>5. k = [j EXCEPT !.who = who, !.prof = prof]
  BY DEF Job
<1> HIDE DEF prof, k
<1>6. k \in Job
  BY <1>1, <1>4, <1>5 DEF Job, Maybe
<1>7. Attempt(prof, j.secret, hash) = Attempt(j.prof, j.secret, hash)
  BY <1>4 DEF Attempt
<1>8. /\ k.prof = prof /\ k.who = who /\ k.secret = j.secret
      /\ k.cmd = j.cmd /\ k.env = j.env /\ k.name = j.name /\ k.guided = j.guided
      /\ k.bare = j.bare
  BY <1>5 DEF Job
<1> QED BY <1>2, <1>3, <1>4, <1>6, <1>7, <1>8 DEF k, who, hash

(* What is saved from a connection that did not go astray leads back to it. *)
LEMMA StoredLeadsBack ==
  ASSUME NEW p \in Profile, NEW secret \in Maybe(Secrets), NEW held,
         Attempt(p, secret, p.hash) # None, p.auth = "proxy" => p.hash # None,
         ~Astray(p, secret),
         Moved(p, secret) # None /\ Stored(p, secret).auth # "none" => held = Moved(p, secret)
  PROVE  Leads(Stored(p, secret), held) = [server |-> p.url.server, who |-> Attempt(p, secret, p.hash)]
<1> DEFINE q == Stored(p, secret)
           who == Attempt(p, secret, p.hash)
           s == p.url.server
<1>1. /\ p.user \in Maybe(Users) /\ p.url.user \in Maybe(Users) /\ p.auth \in Kinds
      /\ p.url.secret \in Maybe(Secrets) /\ s \in Servers
  BY DEF Profile, Address
<1>2. /\ q.url = Url(s, None, None) /\ q.hash = p.hash
      /\ q.auth = IF secret = None /\ p.url.secret # None /\ p.auth = "none" THEN "session" ELSE p.auth
      /\ q.user = IF q.auth = "none" THEN None ELSE IF p.user = None THEN p.url.user ELSE p.user
  BY DEF Stored, Profile, Clean
<1>3. /\ q.url.server = s /\ q.url.user = None /\ q.url.secret = None
  BY <1>2 DEF Url
<1>4. ASSUME NEW kind, NEW user, NEW given, Accepts(s, kind, user, given)
      PROVE  given \in Secrets /\ given # None /\ (kind = "session" => user \in Users)
  <2>1. [kind |-> kind, user |-> user, secret |-> given] \in Creds[s]
    BY <1>4 DEF Accepts
  <2> QED BY <1>1, <2>1, ProfilesAssumption
<1>5. None \notin Users /\ None \notin Secrets
  BY ProfilesAssumption
<1> HIDE DEF q, s
<1>6. SUFFICES Who(q, IF q.auth = "none" THEN None ELSE held) = who
  BY <1>3 DEF Leads, q, s
<1>7. CASE p.auth = "session"
  <2>1. Accepts(s, "session", p.user, secret) /\ who = p.user
    BY <1>7 DEF Attempt, s
  <2>2. secret # None /\ p.user # None
    BY <1>4, <1>5, <2>1
  <2>3. q.auth = "session" /\ q.user = p.user
    BY <1>2, <1>7, <2>2
  <2>4. held = secret
    BY <2>2, <2>3 DEF Moved, q
  <2> QED BY <1>3, <2>1, <2>3, <2>4 DEF Who, Attempt
<1>8. CASE p.auth = "jwt"
  <2>1. /\ \E u \in Users : Accepts(s, "jwt", u, secret)
        /\ who = CHOOSE u \in Users : Accepts(s, "jwt", u, secret)
    BY <1>8 DEF Attempt, s
  <2>2. secret # None
    BY <1>4, <1>5, <2>1
  <2>3. q.auth = "jwt"
    BY <1>2, <1>8
  <2>4. held = secret
    BY <2>2, <2>3 DEF Moved, q
  <2> QED BY <1>3, <2>1, <2>3, <2>4 DEF Who, Attempt
<1>9. CASE p.auth = "proxy"
  <2>1. /\ p.user # None /\ Accepts(s, "proxy", None, secret) /\ who = p.user
        /\ p.hash = "sha1" \/ s \notin Sha1Only
    BY <1>9 DEF Attempt, s
  <2>2. secret # None
    BY <1>4, <1>5, <2>1
  <2>3. q.auth = "proxy" /\ q.user = p.user
    BY <1>2, <1>9, <2>1
  <2>4. held = secret
    BY <2>2, <2>3 DEF Moved, q
  <2>5. Hash(q, held) = p.hash
    BY <1>2, <1>9 DEF Hash
  <2> QED BY <1>3, <2>1, <2>3, <2>4, <2>5 DEF Who, Attempt
<1>10. CASE p.auth = "iam"
  <2>1. Accepts(s, "iam", None, secret) /\ who = "service"
    BY <1>10 DEF Attempt, s
  <2>2. secret # None
    BY <1>4, <1>5, <2>1
  <2>3. q.auth = "iam"
    BY <1>2, <1>10
  <2>4. held = secret
    BY <2>2, <2>3 DEF Moved, q
  <2> QED BY <1>3, <2>1, <2>3, <2>4 DEF Who, Attempt
<1>11. CASE p.auth = "none" /\ p.url.user = None /\ p.url.secret = None
  <2>1. who = "nobody"
    BY <1>11 DEF Attempt
  <2>2. q.auth = "none"
    BY <1>2, <1>11
  <2> QED BY <1>3, <2>1, <2>2 DEF Who, Attempt
<1>12. CASE p.auth = "none" /\ ~(p.url.user = None /\ p.url.secret = None)
  <2>1. Accepts(s, "session", p.url.user, p.url.secret) /\ who = p.url.user
    BY <1>12 DEF Attempt, s
  <2>2. p.url.secret # None /\ p.url.user # None
    BY <1>4, <1>5, <2>1
  <2>3. secret = None /\ p.user \in {None, p.url.user}
    BY <1>12, <2>2 DEF Astray
  <2>4. q.auth = "session" /\ q.user = p.url.user
    BY <1>2, <1>12, <2>2, <2>3
  <2>5. held = p.url.secret
    BY <2>2, <2>3, <2>4 DEF Moved, q
  <2> QED BY <1>3, <2>1, <2>4, <2>5 DEF Who, Attempt
<1> QED BY <1>1, <1>7, <1>8, <1>9, <1>10, <1>11, <1>12 DEF Kinds
-----------------------------------------------------------------------------
(* The file.                                                               *)

LEMMA SetShape ==
  ASSUME NEW f \in File, NEW n \in Names, NEW p \in Profile, DefaultIsThere(f)
  PROVE  LET g == SetProfile(f, n, p) IN
         /\ g \in File /\ DefaultIsThere(g) /\ g.profiles[n] = p
         /\ \A m \in Names : m # n => g.profiles[m] = f.profiles[m]
<1>1. f.profiles \in [Names -> Maybe(Profile)] /\ f.default \in Maybe(Names)
  BY DEF File
<1>2. p # None /\ p \in Maybe(Profile)
  BY ProfilesAssumption DEF Maybe
<1> DEFINE g == SetProfile(f, n, p)
<1>3. g.profiles = [f.profiles EXCEPT ![n] = p]
  BY DEF SetProfile
<1>4. g.default = IF f.default = None THEN n ELSE f.default
  BY DEF SetProfile
<1>5. g = [profiles |-> g.profiles, default |-> g.default]
  BY DEF SetProfile
<1> HIDE DEF g
<1>6. g \in File
  BY <1>1, <1>2, <1>3, <1>4, <1>5 DEF File, Maybe
<1>7. DefaultIsThere(g)
  BY <1>1, <1>2, <1>3, <1>4 DEF DefaultIsThere, Saved, Maybe
<1> QED BY <1>1, <1>3, <1>6, <1>7 DEF g

LEMMA RemoveShape ==
  ASSUME NEW f \in File, NEW n \in Names, DefaultIsThere(f)
  PROVE  LET g == RemoveProfile(f, n) IN
         /\ g \in File /\ DefaultIsThere(g)
         /\ \A m \in Names : m # n => g.profiles[m] = f.profiles[m]
<1>1. f.profiles \in [Names -> Maybe(Profile)] /\ f.default \in Maybe(Names)
  BY DEF File
<1> DEFINE g == RemoveProfile(f, n)
<1>2. g.profiles = [f.profiles EXCEPT ![n] = None]
  BY DEF RemoveProfile
<1>3. g.default = IF f.default = n THEN None ELSE f.default
  BY DEF RemoveProfile
<1>4. g = [profiles |-> g.profiles, default |-> g.default]
  BY DEF RemoveProfile
<1> HIDE DEF g
<1>5. g \in File
  BY <1>1, <1>2, <1>3, <1>4 DEF File, Maybe
<1>6. DefaultIsThere(g)
  BY <1>1, <1>2, <1>3 DEF DefaultIsThere, Saved, Maybe
<1> QED BY <1>1, <1>2, <1>5, <1>6 DEF g

LEMMA EmptyShape == EmptyFile \in File /\ DefaultIsThere(EmptyFile) /\ NoJob \in Job
BY DEF EmptyFile, File, DefaultIsThere, NoJob, Job, Maybe

(* A process that another one's step leaves as it was.                     *)
LEMMA ElsewhereSound ==
  ASSUME ProfilesInv, NEW q \in Procs, UNCHANGED <<at[q], job[q], copy[q]>>, Busy(q) => overlap'
  PROVE  Sound(q)'
<1>1. Sound(q)
  BY DEF ProfilesInv
<1>2. /\ Holding(at[q], job[q])' /\ Proven(at[q], job[q])' /\ Aimed(at[q], job[q], copy[q])'
      /\ DefaultIsThere(copy[q])'
  BY <1>1 DEF Sound
<1>3. OwnChange(q)'
  BY DEF OwnChange, Busy
<1> QED BY <1>2, <1>3 DEF Sound

(* A step within a command.                                                *)
LEMMA CommandProgressed ==
  ASSUME ProfilesInv, NEW p \in Procs, Busy(p),
         NEW where \in ProfileSteps \ {"idle"}, NEW j \in Job, NEW c \in File,
         at' = [at EXCEPT ![p] = where], job' = [job EXCEPT ![p] = j],
         copy' = [copy EXCEPT ![p] = c], overlap' = overlap,
         file' \in File, ring' \in [Names -> Maybe(Secrets)], kept' \in [Names -> Maybe(Origin)],
         DefaultIsThere(file'), overlap => \A n \in Names : kept'[n] = None, LeadsBack',
         Holding(where, j), Proven(where, j), Aimed(where, j, c), DefaultIsThere(c), OwnChange(p)'
  PROVE  ProfilesInv'
<1>1. /\ at \in [Procs -> ProfileSteps] /\ job \in [Procs -> Job] /\ copy \in [Procs -> File]
      /\ overlap \in BOOLEAN /\ Alone
  BY DEF ProfilesInv, ProfilesTypes
<1>2. ProfilesTypes'
  BY <1>1 DEF ProfilesTypes
<1>3. at'[p] = where /\ job'[p] = j /\ copy'[p] = c
  BY <1>1
<1>4. Sound(p)'
  BY <1>3 DEF Sound
<1>5. ASSUME NEW q \in Procs, q # p PROVE Sound(q)'
  <2>1. UNCHANGED <<at[q], job[q], copy[q]>>
    BY <1>1, <1>5
  <2>2. Busy(q) => overlap'
    BY <1>1, <1>5 DEF Alone
  <2> QED BY <2>1, <2>2, ElsewhereSound
<1>6. \A q \in Procs : Busy(q)' <=> Busy(q)
  BY <1>1, <1>3 DEF Busy
<1>7. Alone'
  BY <1>1, <1>6 DEF Alone
<1>8. DefaultIsThere(file)'
  OBVIOUS
<1> QED BY <1>2, <1>4, <1>5, <1>7, <1>8 DEF ProfilesInv

(* The end of a command.                                                   *)
LEMMA CommandEnded ==
  ASSUME ProfilesInv, NEW p \in Procs, Busy(p), End(p),
         file' \in File, ring' \in [Names -> Maybe(Secrets)], kept' \in [Names -> Maybe(Origin)],
         DefaultIsThere(file'), overlap => \A n \in Names : kept'[n] = None, LeadsBack'
  PROVE  ProfilesInv'
<1>1. /\ at \in [Procs -> ProfileSteps] /\ job \in [Procs -> Job] /\ copy \in [Procs -> File]
      /\ overlap \in BOOLEAN /\ Alone
  BY DEF ProfilesInv, ProfilesTypes
<1>2. /\ at' = [at EXCEPT ![p] = "idle"] /\ job' = [job EXCEPT ![p] = NoJob]
      /\ copy' = [copy EXCEPT ![p] = EmptyFile] /\ overlap' = (overlap /\ Others(p))
  BY DEF End, Goto
<1>3. overlap' \in BOOLEAN /\ (overlap' => overlap) /\ (~overlap' => ~overlap \/ ~Others(p))
  BY <1>1, <1>2 DEF Others
<1>4. ProfilesTypes'
  BY <1>1, <1>2, <1>3, EmptyShape DEF ProfilesTypes, ProfileSteps
<1>5. at'[p] = "idle" /\ job'[p] = NoJob /\ copy'[p] = EmptyFile
  BY <1>1, <1>2
<1>6. Sound(p)'
  BY <1>5, EmptyShape DEF Sound, Holding, Proven, Aimed, OwnChange, NoJob
<1>7. ASSUME NEW q \in Procs, q # p PROVE Sound(q)'
  <2>1. UNCHANGED <<at[q], job[q], copy[q]>>
    BY <1>1, <1>2, <1>7
  <2>2. Busy(q) => Others(p)
    BY <1>7 DEF Others
  <2>3. Busy(q) => overlap'
    BY <1>1, <1>2, <1>7, <2>2 DEF Alone
  <2> QED BY <2>1, <2>3, ElsewhereSound
<1>8. \A q \in Procs : Busy(q)' => Busy(q) /\ q # p
  BY <1>1, <1>2 DEF Busy
<1>9. Alone'
  <2>1. overlap' => \A n \in Names : kept'[n] = None
    BY <1>3
  <2>2. ASSUME ~overlap', NEW q \in Procs, NEW r \in Procs, Busy(q)', Busy(r)' PROVE q = r
    <3>1. Busy(q) /\ q # p /\ Busy(r)
      BY <1>8, <2>2
    <3>2. Others(p)
      BY <3>1 DEF Others
    <3> QED BY <1>1, <1>3, <2>2, <3>1, <3>2 DEF Alone
  <2> QED BY <2>1, <2>2 DEF Alone
<1>10. DefaultIsThere(file)'
  OBVIOUS
<1> QED BY <1>4, <1>6, <1>7, <1>9, <1>10 DEF ProfilesInv

(* The start of a command.                                                 *)
LEMMA CommandBegun ==
  ASSUME ProfilesInv, NEW p \in Procs, Ready(p),
         NEW where \in {"secret", "login", "store", "write"}, NEW j \in Job, NEW c \in File,
         Started(p, where, j, c), DefaultIsThere(c),
         Holding(where, j), j.who = None, Aimed(where, j, c),
         where = "write" => \/ j.cmd.op = "remove" /\ c = RemoveProfile(file, j.name)
                            \/ j.cmd.op = "default" /\ c.profiles = file.profiles
  PROVE  ProfilesInv'
<1>1. /\ at \in [Procs -> ProfileSteps] /\ job \in [Procs -> Job] /\ copy \in [Procs -> File]
      /\ overlap \in BOOLEAN /\ Alone /\ kept \in [Names -> Maybe(Origin)] /\ LeadsBack
      /\ file \in File /\ ring \in [Names -> Maybe(Secrets)] /\ DefaultIsThere(file)
  BY DEF ProfilesInv, ProfilesTypes
<1>2. /\ at' = [at EXCEPT ![p] = where] /\ job' = [job EXCEPT ![p] = j]
      /\ copy' = [copy EXCEPT ![p] = c] /\ file' = file /\ ring' = ring
      /\ overlap' = (overlap \/ Others(p))
      /\ kept' = IF overlap \/ Others(p) THEN [n \in Names |-> None] ELSE kept
  BY DEF Started, Goto, Forfeit
<1>3. overlap' \in BOOLEAN /\ (overlap => overlap') /\ (Others(p) => overlap')
  BY <1>1, <1>2 DEF Others
<1>4. ProfilesTypes'
  BY <1>1, <1>2, <1>3 DEF ProfilesTypes, ProfileSteps, Maybe
<1>5. at'[p] = where /\ job'[p] = j /\ copy'[p] = c
  BY <1>1, <1>2
<1>6. Proven(where, j)
  BY DEF Proven
<1>7. OwnChange(p)'
  BY <1>2, <1>5 DEF OwnChange
<1>8. Sound(p)'
  BY <1>5, <1>6, <1>7 DEF Sound
<1>9. ASSUME NEW q \in Procs, q # p PROVE Sound(q)'
  <2>1. UNCHANGED <<at[q], job[q], copy[q]>>
    BY <1>1, <1>2, <1>9
  <2>2. Busy(q) => overlap'
    BY <1>3, <1>9 DEF Others
  <2> QED BY <2>1, <2>2, ElsewhereSound
<1>10. \A q \in Procs : q # p => (Busy(q)' <=> Busy(q))
  BY <1>1, <1>2 DEF Busy
<1>11. Alone'
  <2>1. ASSUME overlap', NEW n \in Names PROVE kept'[n] = None
    BY <1>2, <2>1
  <2>2. ASSUME ~overlap', NEW q \in Procs, Busy(q)' PROVE q = p
    BY <1>3, <1>10, <2>2 DEF Others
  <2> QED BY <2>1, <2>2 DEF Alone
<1>12. LeadsBack'
  BY <1>1, <1>2 DEF LeadsBack
<1>13. DefaultIsThere(file)'
  BY <1>1, <1>2
<1> QED BY <1>4, <1>8, <1>9, <1>11, <1>12, <1>13 DEF ProfilesInv
-----------------------------------------------------------------------------
(* Every step keeps the invariant.                                         *)

LEMMA CommandShape ==
  ASSUME NEW p \in Procs, NEW c \in Commands[p]
  PROVE  c \in Command /\ (c.op = "add" => c.as \in Names /\ c.arg \in Address)
BY ProfilesAssumption

LEMMA ProfileShapes ==
  ASSUME ProfilesInv, NEW p \in Procs
  PROVE  /\ file \in File /\ ring \in [Names -> Maybe(Secrets)] /\ kept \in [Names -> Maybe(Origin)]
         /\ at[p] \in ProfileSteps /\ job[p] \in Job /\ copy[p] \in File /\ overlap \in BOOLEAN
         /\ DefaultIsThere(file) /\ LeadsBack /\ (overlap => \A n \in Names : kept[n] = None)
         /\ Sound(p)
BY DEF ProfilesInv, ProfilesTypes, Alone

LEMMA ConnectHolds ==
  ASSUME ProfilesInv, NEW p \in Procs, Connect(p)
  PROVE  ProfilesInv'
<1>1. PICK c \in Commands[p], e \in Envs :
        /\ c.op = "connect" /\ Opened(c, e, file) # None
        /\ Started(p, "secret", Opened(c, e, file), file)
  BY DEF Connect
<1>2. c \in Command /\ e \in Env /\ file \in File /\ DefaultIsThere(file)
  BY CommandShape, ProfileShapes, ProfilesAssumption
<1> DEFINE o == Opened(c, e, file)
<1>3. Opens(c, e, file, o)
  BY <1>1, <1>2, OpenedIsTrue
<1> HIDE DEF o
<1>4. Holding("secret", o) /\ o.who = None /\ Aimed("secret", o, file) /\ o \in Job
  BY <1>1, <1>2, <1>3 DEF Opens, Holding, Aimed
<1>5. Ready(p) /\ Started(p, "secret", o, file)
  BY <1>1 DEF Connect, o
<1> HIDE DEF ProfilesInv
<1> QED BY <1>2, <1>4, <1>5, CommandBegun

LEMMA PromptHolds ==
  ASSUME ProfilesInv, NEW p \in Procs, PromptForProfile(p)
  PROVE  ProfilesInv'
<1>1. PICK c \in Commands[p], g \in Guided, a \in Answers :
        /\ WalkThrough(c)
        /\ Started(p, "login",
             AskKind([NoJob EXCEPT !.cmd = c, !.name = g.name, !.guided = TRUE,
                                   !.prof = Prof(g.url, g.kind, None)], a), file)
  BY DEF PromptForProfile
<1>2. /\ c \in Command /\ c.op = "connect" /\ file \in File /\ DefaultIsThere(file)
      /\ g \in [url : Address, kind : Kinds, name : Names]
      /\ a \in [user : Maybe(Users), secret : Maybe(Secrets)]
  BY <1>1, CommandShape, ProfileShapes, ProfilesAssumption DEF WalkThrough
<1> DEFINE prof == Prof(g.url, g.kind, None)
           j == [NoJob EXCEPT !.cmd = c, !.name = g.name, !.guided = TRUE, !.prof = prof]
           k == AskKind(j, a)
<1>3. prof \in Profile
  BY <1>2 DEF Prof, Profile, Maybe
<1> HIDE DEF prof
<1>4. j \in Job /\ j.prof = prof /\ j.cmd = c /\ j.guided /\ j.who = None
  BY <1>2, <1>3 DEF NoJob, Job, Maybe
<1> HIDE DEF j
<1>5. k \in Job /\ k.prof \in Profile /\ k.cmd = c /\ k.guided = j.guided /\ k.who = None
  BY <1>2, <1>3, <1>4, AskKindIsTrue
<1>6. Started(p, "login", k, file) /\ Ready(p)
  BY <1>1 DEF PromptForProfile, j, prof
<1> HIDE DEF k
<1>7. Holding("login", k) /\ Aimed("login", k, file)
  BY <1>2, <1>4, <1>5 DEF Holding, Aimed
<1> HIDE DEF ProfilesInv
<1> QED BY <1>2, <1>5, <1>6, <1>7, CommandBegun

LEMMA AddHolds ==
  ASSUME ProfilesInv, NEW p \in Procs, ProfileToAdd(p)
  PROVE  ProfilesInv'
<1>1. PICK c \in Commands[p], a \in Answers :
        LET kind == AddKind(c)
            j    == [NoJob EXCEPT !.cmd = c, !.name = c.as, !.prof = Prof(c.arg, kind, None)]
        IN /\ c.op = "add"
           /\ \/ Started(p, "login", AskKind(j, a), file)
              \/ Started(p, "store", j, file)
              \/ Started(p, "store", [j EXCEPT !.prof.auth = "none"], file)
  <2>1. PICK c \in Commands[p], a \in Answers :
          LET kind == AddKind(c)
              j    == [NoJob EXCEPT !.cmd = c, !.name = c.as, !.prof = Prof(c.arg, kind, None)]
          IN /\ c.op = "add"
             /\ CASE AddAsks(c) /\ kind # "none" /\ (kind # "session" \/ a.secret # None)
                       -> Started(p, "login", AskKind(j, a), file)
                  [] ~AddAsks(c) /\ ~(c.anon /\ kind = "session")
                       -> Started(p, "store", j, file)
                  [] OTHER
                       -> Started(p, "store", [j EXCEPT !.prof.auth = "none"], file)
    BY DEF ProfileToAdd
  <2> QED BY <2>1
<1>2. /\ c \in Command /\ c.op = "add" /\ c.as \in Names /\ c.arg \in Address
      /\ file \in File /\ DefaultIsThere(file)
      /\ a \in [user : Maybe(Users), secret : Maybe(Secrets)]
  BY <1>1, CommandShape, ProfileShapes, ProfilesAssumption
<1> DEFINE prof == Prof(c.arg, AddKind(c), None)
           j == [NoJob EXCEPT !.cmd = c, !.name = c.as, !.prof = prof]
           free == [prof EXCEPT !.auth = "none"]
           open == [j EXCEPT !.prof.auth = "none"]
<1>3. AddKind(c) \in Kinds
  BY <1>2 DEF AddKind, Command, Kinds, Maybe
<1>4. prof \in Profile
  BY <1>2, <1>3 DEF Prof, Profile, Maybe
<1>5. free \in Profile
  BY <1>4 DEF Profile, Kinds
<1> HIDE DEF prof
<1>6. j \in Job /\ j.prof = prof /\ j.cmd = c /\ j.name = c.as /\ j.who = None
  BY <1>2, <1>4 DEF NoJob, Job, Maybe
<1>7. open = [j EXCEPT !.prof = free]
  BY <1>6 DEF Job
<1>8. \/ Started(p, "login", AskKind(j, a), file)
      \/ Started(p, "store", j, file)
      \/ Started(p, "store", open, file)
  BY <1>1 DEF prof
<1> HIDE DEF j, free, open
<1>9. open \in Job /\ open.prof = free /\ open.cmd = c /\ open.name = c.as /\ open.who = None
  BY <1>5, <1>6, <1>7 DEF Job, Maybe
<1>10. Ready(p)
  BY DEF ProfileToAdd
<1>11. CASE Started(p, "login", AskKind(j, a), file)
  <2> DEFINE k == AskKind(j, a)
  <2>1. k \in Job /\ k.prof \in Profile /\ k.cmd = c /\ k.who = None /\ k.name = c.as
    BY <1>2, <1>4, <1>6, AskKindIsTrue
  <2>2. Started(p, "login", k, file)
    BY <1>11
  <2> HIDE DEF k
  <2>3. Holding("login", k) /\ Aimed("login", k, file)
    BY <1>2, <2>1 DEF Holding, Aimed
  <2> HIDE DEF ProfilesInv
  <2> QED BY <1>2, <1>10, <2>1, <2>2, <2>3, CommandBegun
<1>12. CASE Started(p, "store", j, file)
  <2>1. Holding("store", j) /\ Aimed("store", j, file)
    BY <1>2, <1>4, <1>6 DEF Holding, Aimed
  <2> HIDE DEF ProfilesInv
  <2> QED BY <1>2, <1>6, <1>10, <1>12, <2>1, CommandBegun
<1>13. CASE Started(p, "store", open, file)
  <2>1. Holding("store", open) /\ Aimed("store", open, file)
    BY <1>2, <1>5, <1>9 DEF Holding, Aimed
  <2> HIDE DEF ProfilesInv
  <2> QED BY <1>2, <1>9, <1>10, <1>13, <2>1, CommandBegun
<1> QED BY <1>8, <1>11, <1>12, <1>13

LEMMA RemoveDefaultHolds ==
  ASSUME ProfilesInv, NEW p \in Procs, RemoveDefault(p)
  PROVE  ProfilesInv'
<1>1. PICK c \in Commands[p] :
        /\ c.op \in {"remove", "default"} /\ c.as \in Saved(file)
        /\ Started(p, "write", [NoJob EXCEPT !.cmd = c, !.name = c.as],
                   IF c.op = "remove" THEN RemoveProfile(file, c.as)
                   ELSE [file EXCEPT !.default = c.as])
  BY DEF RemoveDefault
<1> DEFINE j == [NoJob EXCEPT !.cmd = c, !.name = c.as]
           changed == IF c.op = "remove" THEN RemoveProfile(file, c.as)
                      ELSE [file EXCEPT !.default = c.as]
<1>2. c \in Command /\ c.as \in Names /\ file \in File /\ DefaultIsThere(file)
  BY <1>1, CommandShape, ProfileShapes DEF Saved
<1>3. j \in Job /\ j.cmd = c /\ j.name = c.as /\ j.who = None
  BY <1>2 DEF NoJob, Job, Maybe
<1>4. /\ changed \in File /\ DefaultIsThere(changed)
      /\ \/ c.op = "remove" /\ changed = RemoveProfile(file, c.as)
         \/ c.op = "default" /\ changed.profiles = file.profiles
  <2>1. CASE c.op = "remove"
    <3>1. changed = RemoveProfile(file, c.as)
      BY <2>1
    <3> QED BY <1>2, <2>1, <3>1, RemoveShape
  <2>2. CASE c.op = "default"
    <3>1. changed = [file EXCEPT !.default = c.as]
      BY <2>2
    <3>2. changed \in File /\ changed.profiles = file.profiles /\ changed.default = c.as
      BY <1>2, <3>1 DEF File, Maybe
    <3>3. DefaultIsThere(changed)
      BY <1>1, <3>2 DEF DefaultIsThere, Saved
    <3> QED BY <2>2, <3>2, <3>3
  <2> QED BY <1>1, <2>1, <2>2
<1>5. Started(p, "write", j, changed) /\ Ready(p)
  BY <1>1 DEF RemoveDefault
<1> HIDE DEF j, changed
<1>6. Holding("write", j) /\ Aimed("write", j, changed)
  BY <1>1, <1>2, <1>3 DEF Holding, Aimed
<1> HIDE DEF ProfilesInv
<1> QED BY <1>3, <1>4, <1>5, <1>6, CommandBegun
(* A step that leaves what is shared alone. *)
LEMMA CommandAlone ==
  ASSUME ProfilesInv, NEW p \in Procs, Busy(p),
         NEW where \in {"ask", "login", "attached", "store", "set"}, NEW j \in Job, NEW c \in File,
         at' = [at EXCEPT ![p] = where], job' = [job EXCEPT ![p] = j],
         copy' = [copy EXCEPT ![p] = c], UNCHANGED <<file, ring, kept, overlap>>,
         Holding(where, j), Proven(where, j), Aimed(where, j, c), DefaultIsThere(c),
         where = "set" => c = file
  PROVE  ProfilesInv'
<1>1. /\ file \in File /\ ring \in [Names -> Maybe(Secrets)] /\ kept \in [Names -> Maybe(Origin)]
      /\ DefaultIsThere(file) /\ LeadsBack /\ (overlap => \A n \in Names : kept[n] = None)
  BY ProfileShapes
<1>2. at'[p] = where /\ job'[p] = j /\ copy'[p] = c
  BY DEF ProfilesInv, ProfilesTypes
<1>3. OwnChange(p)'
  BY <1>2 DEF OwnChange
<1>4. LeadsBack'
  BY <1>1 DEF LeadsBack
<1>5. where \in ProfileSteps \ {"idle"}
  BY DEF ProfileSteps
<1> HIDE DEF ProfilesInv
<1> QED BY <1>1, <1>3, <1>4, <1>5, CommandProgressed

LEMMA ReadSecretHolds ==
  ASSUME ProfilesInv, NEW p \in Procs, ReadSecret(p)
  PROVE  ProfilesInv'
<1> DEFINE s == EnvSecret(job[p].env, job[p].prof.auth)
           secret == IF s # None THEN s
                     ELSE IF job[p].prof.auth # "none" /\ job[p].name # None THEN ring[job[p].name]
                     ELSE None
           k == [job[p] EXCEPT !.secret = secret]
<1>1. ring \in [Names -> Maybe(Secrets)] /\ job[p] \in Job /\ copy[p] \in File /\ Sound(p)
  BY ProfileShapes
<1>2. at[p] = "secret"
  BY DEF ReadSecret
<1>3. /\ job[p].prof \in Profile /\ job[p].env \in Env /\ job[p].cmd \in Command
      /\ ~job[p].guided
      /\ job[p].cmd.op = "connect"
      /\ job[p].who = None /\ Aimed("secret", job[p], copy[p]) /\ DefaultIsThere(copy[p])
  BY <1>1, <1>2 DEF Sound, Holding, Proven
<1>4. s \in Maybe(Secrets)
  BY <1>3 DEF EnvSecret, Env, Maybe
<1>5. secret \in Maybe(Secrets)
  BY <1>1, <1>4 DEF Job, Maybe
<1>6. /\ at' = [at EXCEPT ![p] = "ask"] /\ job' = [job EXCEPT ![p] = k]
      /\ copy' = copy /\ file' = file /\ ring' = ring /\ kept' = kept /\ overlap' = overlap
  BY DEF ReadSecret, Goto, ProfilesInv, ProfilesTypes
<1> HIDE DEF s, secret
<1>7. k \in Job
  BY <1>1, <1>5 DEF Job
<1>8. /\ k.prof = job[p].prof /\ k.cmd = job[p].cmd /\ k.env = job[p].env /\ k.who = job[p].who
      /\ k.name = job[p].name /\ k.bare = job[p].bare /\ k.guided = job[p].guided
  BY <1>1 DEF Job
<1> HIDE DEF k
<1>9. Holding("ask", k) /\ Proven("ask", k)
  BY <1>3, <1>8 DEF Holding, Proven
<1>10. Aimed("ask", k, copy[p])
  BY <1>3, <1>8 DEF Aimed, TrueTo, Asked
<1>11. copy' = [copy EXCEPT ![p] = copy[p]]
  BY <1>6 DEF ProfilesInv, ProfilesTypes
<1>12. Busy(p) /\ UNCHANGED <<file, ring, kept, overlap>>
  BY <1>2, <1>6 DEF Busy
<1> HIDE DEF ProfilesInv
<1> QED BY <1>1, <1>3, <1>6, <1>7, <1>9, <1>10, <1>11, <1>12, CommandAlone

LEMMA AskHolds ==
  ASSUME ProfilesInv, NEW p \in Procs, Ask(p)
  PROVE  ProfilesInv'
<1>1. PICK a \in Answers : job' = [job EXCEPT ![p] = Answered(job[p], a)]
  BY DEF Ask
<1>2. job[p] \in Job /\ copy[p] \in File /\ Sound(p)
  BY ProfileShapes
<1>3. at[p] = "ask" /\ at' = [at EXCEPT ![p] = "login"] /\ UNCHANGED <<file, ring, copy, kept, overlap>>
  BY DEF Ask, Goto
<1>4. /\ job[p].prof \in Profile /\ job[p].cmd \in Command /\ job[p].cmd.op = "connect"
      /\ ~job[p].guided /\ job[p].who = None
      /\ Aimed("ask", job[p], copy[p]) /\ DefaultIsThere(copy[p])
  BY <1>2, <1>3 DEF Sound, Holding, Proven
<1>5. a \in [user : Maybe(Users), secret : Maybe(Secrets)]
  BY ProfilesAssumption
<1> DEFINE k == Answered(job[p], a)
<1>6. TrueTo(job[p], copy[p])
  BY <1>4 DEF Aimed
<1>7. /\ k \in Job /\ k.prof \in Profile /\ k.cmd = job[p].cmd /\ k.who = None /\ ~k.guided
      /\ TrueTo(k, copy[p])
  BY <1>2, <1>4, <1>5, <1>6, AnswersAreTrue
<1>8. job' = [job EXCEPT ![p] = k]
  BY <1>1
<1> HIDE DEF k
<1>9. Holding("login", k) /\ Proven("login", k) /\ Aimed("login", k, copy[p])
  BY <1>4, <1>7 DEF Holding, Proven, Aimed
<1>10. copy' = [copy EXCEPT ![p] = copy[p]]
  BY <1>3 DEF ProfilesInv, ProfilesTypes
<1>11. Busy(p) /\ UNCHANGED <<file, ring, kept, overlap>>
  BY <1>3 DEF Busy
<1> HIDE DEF ProfilesInv
<1> QED BY <1>2, <1>3, <1>4, <1>7, <1>8, <1>9, <1>10, <1>11, CommandAlone

LEMMA VerifyLoginHolds ==
  ASSUME ProfilesInv, NEW p \in Procs, VerifyLogin(p)
  PROVE  ProfilesInv'
<1> DEFINE j == job[p]
           k == [j EXCEPT !.who = Who(j.prof, j.secret), !.prof.hash = Hash(j.prof, j.secret)]
           where == IF j.cmd.op = "add" THEN "store" ELSE "attached"
<1>1. job[p] \in Job /\ copy[p] \in File /\ Sound(p)
  BY ProfileShapes
<1>2. /\ at[p] = "login" /\ Who(j.prof, j.secret) # None
      /\ job' = [job EXCEPT ![p] = k] /\ at' = [at EXCEPT ![p] = where]
      /\ UNCHANGED <<file, ring, copy, kept, overlap>>
  BY DEF VerifyLogin, Goto
<1>3. /\ j.prof \in Profile /\ j.cmd \in Command /\ j.cmd.op \in {"connect", "add"}
      /\ Aimed("login", j, copy[p]) /\ DefaultIsThere(copy[p])
      /\ j.cmd.op = "add" => j.name \in Names
  BY <1>1, <1>2 DEF Sound, Holding
<1>4. /\ k \in Job /\ k.prof \in Profile
      /\ k.cmd = j.cmd /\ k.env = j.env /\ k.name = j.name /\ k.guided = j.guided
      /\ k.bare = j.bare /\ k.prof.url = j.prof.url /\ k.prof.user = j.prof.user
      /\ k.prof.auth = j.prof.auth
      /\ k.who # None
      /\ k.who = Attempt(k.prof, k.secret, k.prof.hash)
      /\ k.prof.auth = "proxy" => k.prof.hash # None
  BY <1>1, <1>2, <1>3, ProvenAtLogin
<1>5. /\ where \in {"attached", "store"}
      /\ where = "store" <=> j.cmd.op = "add"
  OBVIOUS
<1> HIDE DEF j, k, where
<1>6. Holding(where, k)
  BY <1>3, <1>4, <1>5 DEF Holding
<1>7. Proven(where, k)
  BY <1>4, <1>5 DEF Proven
<1>8. Aimed(where, k, copy[p])
  <2>1. Asked(k, copy[p]) = Asked(j, copy[p])
    BY <1>4 DEF Asked
  <2> QED BY <1>3, <1>4, <1>5, <2>1 DEF Aimed, TrueTo
<1>9. copy' = [copy EXCEPT ![p] = copy[p]]
  BY <1>2 DEF ProfilesInv, ProfilesTypes
<1>10. Busy(p) /\ UNCHANGED <<file, ring, kept, overlap>>
  BY <1>2 DEF Busy
<1>11. DefaultIsThere(copy[p]) /\ where \in {"ask", "login", "attached", "store", "set"} /\ where # "set"
  BY <1>3, <1>5
<1>12. k \in Job /\ copy[p] \in File
  BY <1>1, <1>4
<1> HIDE DEF ProfilesInv
<1> QED BY <1>2, <1>6, <1>7, <1>8, <1>9, <1>10, <1>11, <1>12, CommandAlone

LEMMA SaveConnectionHolds ==
  ASSUME ProfilesInv, NEW p \in Procs, SaveConnection(p)
  PROVE  ProfilesInv'
<1> DEFINE name == IF job[p].cmd.as # None THEN job[p].cmd.as
                   ELSE IF job[p].name # None THEN job[p].name
                   ELSE HostName[job[p].prof.url.server]
           k == [job[p] EXCEPT !.name = name]
<1>1. job[p] \in Job /\ copy[p] \in File /\ Sound(p)
  BY ProfileShapes
<1>2. /\ at[p] = "attached" /\ at' = [at EXCEPT ![p] = "store"]
      /\ job' = [job EXCEPT ![p] = k] /\ UNCHANGED <<file, ring, copy, kept, overlap>>
  BY DEF SaveConnection, Goto, ProfilesInv, ProfilesTypes
<1>3. /\ job[p].prof \in Profile /\ job[p].cmd \in Command /\ job[p].cmd.op = "connect"
      /\ Proven("attached", job[p]) /\ DefaultIsThere(copy[p])
  BY <1>1, <1>2 DEF Sound, Holding
<1>4. name \in Names
  <2>1. /\ job[p].cmd.as \in Maybe(Names) /\ job[p].name \in Maybe(Names)
        /\ job[p].prof.url.server \in Servers
    BY <1>1, <1>3 DEF Command, Job, Profile, Address
  <2> QED BY <2>1, ProfilesAssumption DEF Maybe
<1> HIDE DEF name
<1>5. k \in Job
  BY <1>1, <1>4 DEF Job, Maybe
<1>6. /\ k.name = name /\ k.prof = job[p].prof /\ k.cmd = job[p].cmd /\ k.who = job[p].who
      /\ k.secret = job[p].secret
  BY <1>1 DEF Job
<1> HIDE DEF k
<1>7. Holding("store", k) /\ Proven("store", k) /\ Aimed("store", k, copy[p])
  BY <1>3, <1>4, <1>6 DEF Holding, Proven, Aimed
<1>8. copy' = [copy EXCEPT ![p] = copy[p]]
  BY <1>2 DEF ProfilesInv, ProfilesTypes
<1>9. Busy(p) /\ UNCHANGED <<file, ring, kept, overlap>>
  BY <1>2 DEF Busy
<1> HIDE DEF ProfilesInv
<1> QED BY <1>1, <1>2, <1>3, <1>5, <1>7, <1>8, <1>9, CommandAlone

LEMMA StoreProfileHolds ==
  ASSUME ProfilesInv, NEW p \in Procs, StoreProfile(p)
  PROVE  ProfilesInv'
<1>1. job[p] \in Job /\ file \in File /\ DefaultIsThere(file) /\ Sound(p)
  BY ProfileShapes
<1>2. /\ at[p] = "store" /\ at' = [at EXCEPT ![p] = "set"]
      /\ copy' = [copy EXCEPT ![p] = file] /\ UNCHANGED <<file, ring, job, kept, overlap>>
  BY DEF StoreProfile, Goto
<1>3. Holding("set", job[p]) /\ Proven("set", job[p]) /\ Aimed("set", job[p], file)
  BY <1>1, <1>2 DEF Sound, Holding, Proven, Aimed
<1>4. job' = [job EXCEPT ![p] = job[p]]
  BY <1>2 DEF ProfilesInv, ProfilesTypes
<1>5. Busy(p) /\ UNCHANGED <<file, ring, kept, overlap>>
  BY <1>2 DEF Busy
<1> HIDE DEF ProfilesInv
<1> QED BY <1>1, <1>2, <1>3, <1>4, <1>5, CommandAlone

LEMMA SetSecretHolds ==
  ASSUME ProfilesInv, NEW p \in Procs, SetSecret(p)
  PROVE  ProfilesInv'
<1> DEFINE j == job[p]
           stored == Stored(j.prof, j.secret)
           secret == Moved(j.prof, j.secret)
           changed == SetProfile(copy[p], j.name, stored)
<1>1. /\ file \in File /\ ring \in [Names -> Maybe(Secrets)] /\ kept \in [Names -> Maybe(Origin)]
      /\ j \in Job /\ copy[p] \in File /\ overlap \in BOOLEAN
      /\ DefaultIsThere(file) /\ LeadsBack /\ (overlap => \A n \in Names : kept[n] = None)
      /\ Sound(p)
  BY ProfileShapes
<1>2. /\ at[p] = "set" /\ at' = [at EXCEPT ![p] = "write"]
      /\ ring' = IF secret # None /\ stored.auth # "none" THEN [ring EXCEPT ![j.name] = secret] ELSE ring
      /\ kept' = [kept EXCEPT ![j.name] = None]
      /\ copy' = [copy EXCEPT ![p] = changed]
      /\ file' = file /\ job' = job /\ overlap' = overlap
  BY DEF SetSecret, Goto, ProfilesInv, ProfilesTypes
<1>3. /\ j.prof \in Profile /\ j.cmd \in Command /\ j.name \in Names
      /\ j.cmd.op \in {"connect", "add"} /\ Proven("set", j)
      /\ DefaultIsThere(copy[p]) /\ (~overlap => copy[p] = file)
  BY <1>1, <1>2 DEF Sound, Holding, OwnChange
<1>4. stored \in Profile
  BY <1>3, StoredType
<1>5. secret \in Maybe(Secrets)
  BY <1>1, <1>3 DEF Moved, Job, Profile, Address
<1>6. changed \in File /\ DefaultIsThere(changed)
  BY <1>1, <1>3, <1>4, SetShape
<1> HIDE DEF stored, secret, changed
<1>7. /\ ring' \in [Names -> Maybe(Secrets)] /\ kept' \in [Names -> Maybe(Origin)]
      /\ kept'[j.name] = None
      /\ \A n \in Names : n # j.name => kept'[n] = kept[n] /\ ring'[n] = ring[n]
  BY <1>1, <1>2, <1>3, <1>5 DEF Maybe
<1>8. LeadsBack'
  BY <1>1, <1>2, <1>7 DEF LeadsBack
<1>9. overlap => \A n \in Names : kept'[n] = None
  BY <1>1, <1>7
<1>10. Holding("write", j) /\ Proven("write", j) /\ Aimed("write", j, changed)
  BY <1>3 DEF Holding, Proven, Aimed
<1>11. at'[p] = "write" /\ copy'[p] = changed
  BY <1>2 DEF ProfilesInv, ProfilesTypes
<1>12. ASSUME ~overlap PROVE SetReady(p)'
  <2>1. copy'[p] = SetProfile(file', j.name, stored)
    BY <1>2, <1>3, <1>11, <1>12 DEF changed
  <2>2. secret # None /\ stored.auth # "none" => ring'[j.name] = secret
    BY <1>1, <1>2, <1>3
  <2>3. job'[p] = j
    BY <1>2
  <2> QED BY <2>1, <2>2, <2>3 DEF SetReady, stored, secret
<1>13. OwnChange(p)'
  <2>1. job'[p].cmd.op \in {"connect", "add"}
    BY <1>2, <1>3
  <2> QED BY <1>2, <1>11, <1>12, <2>1 DEF OwnChange
<1>14. job' = [job EXCEPT ![p] = j]
  BY <1>2 DEF ProfilesInv, ProfilesTypes
<1>15. Busy(p) /\ "write" \in ProfileSteps \ {"idle"}
  BY <1>2 DEF Busy, ProfileSteps
<1>16. file' \in File /\ DefaultIsThere(file')
  BY <1>1, <1>2
<1> HIDE DEF ProfilesInv, j
<1> QED BY <1>1, <1>2, <1>6, <1>7, <1>8, <1>9, <1>10, <1>13, <1>14, <1>15, <1>16, CommandProgressed

(* What is kept of a profile when the file that holds it is written. *)
LEMMA SavedFromLeadsBack ==
  ASSUME NEW j \in Job, NEW where, Proven(where, j), NEW held,
         Moved(j.prof, j.secret) # None /\ Stored(j.prof, j.secret).auth # "none"
           => held = Moved(j.prof, j.secret),
         SavedFrom(j) # None
  PROVE  SavedFrom(j) = Leads(Stored(j.prof, j.secret), held)
<1>1. /\ j.who # None /\ ~Astray(j.prof, j.secret)
      /\ SavedFrom(j) = [server |-> j.prof.url.server, who |-> j.who]
  BY DEF SavedFrom
<1>2. /\ j.prof \in Profile /\ j.who = Attempt(j.prof, j.secret, j.prof.hash)
      /\ j.prof.auth = "proxy" => j.prof.hash # None
  BY <1>1 DEF Proven
<1>3. j.secret \in Maybe(Secrets)
  BY DEF Job
<1>4. Leads(Stored(j.prof, j.secret), held)
        = [server |-> j.prof.url.server, who |-> Attempt(j.prof, j.secret, j.prof.hash)]
  BY <1>1, <1>2, <1>3, StoredLeadsBack
<1> QED BY <1>1, <1>2, <1>4

LEMMA SavedFromType ==
  ASSUME NEW j \in Job, NEW where, Proven(where, j)
  PROVE  SavedFrom(j) \in Maybe(Origin)
<1>1. CASE j.who = None
  BY <1>1 DEF SavedFrom, Maybe
<1>2. CASE j.who # None
  <2>1. j.prof.url.server \in Servers /\ j.who \in Identities
    BY <1>2 DEF Proven, Job, Maybe, Profile, Address
  <2> QED BY <2>1 DEF SavedFrom, Maybe, Origin
<1> QED BY <1>1, <1>2

LEMMA SaveHolds ==
  ASSUME ProfilesInv, NEW p \in Procs, Save(p)
  PROVE  ProfilesInv'
<1> DEFINE j == job[p]
           stored == Stored(j.prof, j.secret)
<1>1. /\ file \in File /\ ring \in [Names -> Maybe(Secrets)] /\ kept \in [Names -> Maybe(Origin)]
      /\ j \in Job /\ copy[p] \in File /\ overlap \in BOOLEAN
      /\ DefaultIsThere(file) /\ LeadsBack /\ (overlap => \A n \in Names : kept[n] = None)
      /\ Sound(p)
  BY ProfileShapes
<1>2. /\ at[p] = "write" /\ file' = copy[p] /\ ring' = ring
      /\ kept' = IF overlap \/ j.cmd.op = "default" THEN kept
                 ELSE [kept EXCEPT ![j.name] = SavedFrom(j)]
  BY DEF Save
<1>3. /\ j.cmd \in Command /\ j.name \in Names /\ Proven("write", j)
      /\ DefaultIsThere(copy[p]) /\ OwnChange(p)
      /\ (j.cmd.op \in {"connect", "add"} => j.prof \in Profile)
      /\ (j.cmd.op = "remove" => j.who = None)
  BY <1>1, <1>2 DEF Sound, Holding
<1>4. j.cmd.op \in {"connect", "add", "remove", "default"}
  BY <1>3 DEF Command
<1>5. SavedFrom(j) \in Maybe(Origin)
  BY <1>1, <1>3, SavedFromType
<1>6. /\ file' \in File /\ ring' \in [Names -> Maybe(Secrets)] /\ kept' \in [Names -> Maybe(Origin)]
      /\ DefaultIsThere(file')
  BY <1>1, <1>2, <1>3, <1>5
<1>7. overlap => \A n \in Names : kept'[n] = None
  BY <1>1, <1>2
<1>8. LeadsBack'
  <2>1. CASE overlap
    BY <1>7, <2>1 DEF LeadsBack
  <2>2. CASE ~overlap /\ j.cmd.op = "default"
    <3>1. file'.profiles = file.profiles /\ kept' = kept
      BY <1>2, <1>3, <2>2 DEF OwnChange
    <3> QED BY <1>1, <1>2, <3>1 DEF LeadsBack, Saved
  <2>3. CASE ~overlap /\ j.cmd.op = "remove"
    <3>1. file' = RemoveProfile(file, j.name) /\ j.who = None
      BY <1>2, <1>3, <2>3 DEF OwnChange
    <3>2. \A m \in Names : m # j.name => file'.profiles[m] = file.profiles[m]
      BY <1>1, <1>3, <3>1, RemoveShape
    <3>3. kept'[j.name] = None /\ \A m \in Names : m # j.name => kept'[m] = kept[m]
      BY <1>1, <1>2, <1>3, <2>3, <3>1 DEF SavedFrom
    <3> QED BY <1>1, <1>2, <3>2, <3>3 DEF LeadsBack, Saved
  <2>4. CASE ~overlap /\ j.cmd.op \in {"connect", "add"}
    <3>1. SetReady(p)
      BY <1>2, <1>3, <2>4 DEF OwnChange
    <3>2. /\ file' = SetProfile(file, j.name, stored)
          /\ Moved(j.prof, j.secret) # None /\ stored.auth # "none"
               => ring[j.name] = Moved(j.prof, j.secret)
      BY <1>2, <3>1 DEF SetReady
    <3>3. stored \in Profile
      BY <1>3, <2>4, StoredType
    <3>4. /\ file'.profiles[j.name] = stored
          /\ \A m \in Names : m # j.name => file'.profiles[m] = file.profiles[m]
      BY <1>1, <1>3, <3>2, <3>3, SetShape
    <3>5. kept'[j.name] = SavedFrom(j) /\ \A m \in Names : m # j.name => kept'[m] = kept[m]
      BY <1>1, <1>2, <1>3, <1>5, <2>4
    <3>6. SavedFrom(j) # None => SavedFrom(j) = Leads(stored, ring[j.name])
      BY <1>1, <1>3, <3>2, SavedFromLeadsBack
    <3>7. stored # None
      BY <3>3, ProfilesAssumption
    <3> HIDE DEF stored
    <3>8. ASSUME NEW n \in Names, kept'[n] # None
          PROVE  n \in Saved(file)' /\ kept'[n] = Leads(file'.profiles[n], ring'[n])
      <4>1. CASE n = j.name
        BY <1>2, <1>3, <3>4, <3>5, <3>6, <3>7, <3>8, <4>1 DEF Saved
      <4>2. CASE n # j.name
        <5>1. kept[n] # None /\ kept'[n] = kept[n] /\ file'.profiles[n] = file.profiles[n] /\ ring'[n] = ring[n]
          BY <1>2, <3>4, <3>5, <3>8, <4>2
        <5>2. file.profiles[n] # None /\ kept[n] = Leads(file.profiles[n], ring[n])
          BY <1>1, <5>1 DEF LeadsBack, Saved
        <5> QED BY <5>1, <5>2 DEF Saved
      <4> QED BY <4>1, <4>2
    <3> QED BY <3>8 DEF LeadsBack
  <2> QED BY <1>1, <1>4, <2>1, <2>2, <2>3, <2>4
<1>9. Busy(p)
  BY <1>2 DEF Busy
<1>10. CASE j.cmd.op # "remove"
  <2>1. End(p)
    BY <1>10 DEF Save
  <2> HIDE DEF ProfilesInv
  <2> QED BY <1>6, <1>7, <1>8, <1>9, <2>1, CommandEnded
<1>11. CASE j.cmd.op = "remove"
  <2>1. /\ at' = [at EXCEPT ![p] = "forget"] /\ job' = job /\ copy' = copy /\ overlap' = overlap
    BY <1>11 DEF Save, Goto
  <2>2. job' = [job EXCEPT ![p] = j] /\ copy' = [copy EXCEPT ![p] = copy[p]] /\ at'[p] = "forget"
    BY <2>1 DEF ProfilesInv, ProfilesTypes
  <2>3. kept'[j.name] = None \/ overlap
    BY <1>1, <1>2, <1>3, <1>11 DEF SavedFrom
  <2>4. OwnChange(p)'
    BY <2>1, <2>2, <2>3 DEF OwnChange
  <2>5. Holding("forget", j) /\ Aimed("forget", j, copy[p])
    BY <1>3, <1>11 DEF Holding, Aimed
  <2>6. Proven("forget", j)
    BY <1>3, <1>11 DEF Proven
  <2>7. "forget" \in ProfileSteps \ {"idle"}
    BY DEF ProfileSteps
  <2> HIDE DEF ProfilesInv, j
  <2> QED BY <1>1, <1>3, <1>6, <1>7, <1>8, <1>9, <2>1, <2>2, <2>4, <2>5, <2>6, <2>7, CommandProgressed
<1> QED BY <1>10, <1>11

LEMMA ForgetHolds ==
  ASSUME ProfilesInv, NEW p \in Procs, Forget(p)
  PROVE  ProfilesInv'
<1>1. /\ file \in File /\ ring \in [Names -> Maybe(Secrets)] /\ kept \in [Names -> Maybe(Origin)]
      /\ overlap \in BOOLEAN
      /\ DefaultIsThere(file) /\ LeadsBack /\ (overlap => \A n \in Names : kept[n] = None)
      /\ Sound(p)
  BY ProfileShapes
<1>2. /\ at[p] = "forget" /\ ring' = [ring EXCEPT ![job[p].name] = None]
      /\ End(p) /\ file' = file /\ kept' = kept
  BY DEF Forget
<1>3. job[p].name \in Names /\ kept[job[p].name] = None
  BY <1>1, <1>2 DEF Sound, Holding, OwnChange
<1>4. /\ ring' \in [Names -> Maybe(Secrets)]
      /\ \A n \in Names : n # job[p].name => ring'[n] = ring[n]
  BY <1>1, <1>2, <1>3 DEF Maybe
<1>5. LeadsBack'
  BY <1>1, <1>2, <1>3, <1>4 DEF LeadsBack
<1>6. Busy(p) /\ file' \in File /\ DefaultIsThere(file') /\ kept' \in [Names -> Maybe(Origin)]
      /\ (overlap => \A n \in Names : kept'[n] = None)
  BY <1>1, <1>2 DEF Busy
<1> HIDE DEF ProfilesInv
<1> QED BY <1>2, <1>4, <1>5, <1>6, CommandEnded

LEMMA StopHolds ==
  ASSUME ProfilesInv, NEW p \in Procs, Stop(p)
  PROVE  ProfilesInv'
<1>1. /\ file \in File /\ ring \in [Names -> Maybe(Secrets)] /\ kept \in [Names -> Maybe(Origin)]
      /\ DefaultIsThere(file) /\ LeadsBack /\ (overlap => \A n \in Names : kept[n] = None)
  BY ProfileShapes
<1>2. Busy(p) /\ End(p) /\ UNCHANGED <<file, ring, kept>>
  BY DEF Stop
<1>3. LeadsBack'
  BY <1>1, <1>2 DEF LeadsBack
<1> HIDE DEF ProfilesInv
<1> QED BY <1>1, <1>2, <1>3, CommandEnded

LEMMA ProfilesInvInit == ProfilesInit => ProfilesInv
<1> SUFFICES ASSUME ProfilesInit PROVE ProfilesInv
  OBVIOUS
<1>1. /\ at = [p \in Procs |-> "idle"] /\ job = [p \in Procs |-> NoJob]
      /\ copy = [p \in Procs |-> EmptyFile] /\ overlap = FALSE /\ kept = [n \in Names |-> None]
  BY DEF ProfilesInit
<1>2. file \in File /\ ring \in [Names -> Maybe(Secrets)] /\ DefaultIsThere(file)
  <2>1. PICK s \in Seeds : file = s.file /\ ring = s.ring
    BY DEF ProfilesInit
  <2>2. /\ s.file \in File /\ s.ring \in [Names -> Maybe(Secrets)]
        /\ s.file.default # None => s.file.profiles[s.file.default] # None
    BY ProfilesAssumption
  <2>3. s.file.default \in Maybe(Names)
    BY <2>2 DEF File
  <2> QED BY <2>1, <2>2, <2>3 DEF DefaultIsThere, Saved, Maybe
<1>3. ProfilesTypes
  BY <1>1, <1>2, EmptyShape DEF ProfilesTypes, ProfileSteps, Maybe
<1>4. Alone /\ LeadsBack
  BY <1>1 DEF Alone, LeadsBack, Busy
<1>5. ASSUME NEW p \in Procs PROVE Sound(p)
  <2>1. at[p] = "idle" /\ job[p] = NoJob /\ copy[p] = EmptyFile
    BY <1>1
  <2> QED BY <2>1, EmptyShape DEF Sound, Holding, Proven, Aimed, OwnChange, NoJob
<1> QED BY <1>2, <1>3, <1>4, <1>5 DEF ProfilesInv

LEMMA ProfilesInvNext == ProfilesInv /\ [ProfilesNext]_profilesVars => ProfilesInv'
<1> SUFFICES ASSUME ProfilesInv, [ProfilesNext]_profilesVars PROVE ProfilesInv'
  OBVIOUS
<1>1. CASE UNCHANGED profilesVars
  BY <1>1 DEF profilesVars, ProfilesInv, ProfilesTypes, Alone, LeadsBack, Sound, OwnChange, SetReady, Busy
<1>2. CASE ProfilesNext
  <2>1. PICK p \in Procs : Step(p)
    BY <1>2 DEF ProfilesNext
  <2> HIDE DEF ProfilesInv
  <2> QED BY <2>1, ConnectHolds, PromptHolds, AddHolds, RemoveDefaultHolds, ReadSecretHolds,
             AskHolds, VerifyLoginHolds, SaveConnectionHolds, StoreProfileHolds,
             SetSecretHolds, SaveHolds, ForgetHolds, StopHolds DEF Step
<1> QED BY <1>1, <1>2

(* The inductive invariant of Profiles: types, what each command has in hand and
   is aimed at, and what the file and the keyring lead to (connect.go,
   config.go). *)
THEOREM ProfilesHold == ProfilesSpec => []ProfilesInv
BY ProfilesInvInit, ProfilesInvNext, PTL DEF ProfilesSpec

(* A connection is to the server it was aimed at, and as the user its URL names or
   as nobody, whatever is exported, asked and answered (openProfileWith: "an
   explicit target wins over the environment"). *)
THEOREM ConnectsWhereAsked == ProfilesSpec => []ConnectsAsAsked
<1>1. ASSUME ProfilesInv PROVE ConnectsAsAsked
  <2> SUFFICES ASSUME NEW p \in Procs, at[p] = "attached", ~job[p].guided
      PROVE  LET j == job[p]
                 u == Named(j.cmd)
             IN /\ j.prof.url.server = Asked(j, copy[p]).server
                /\ u # None /\ u \notin Names /\ j.prof.auth \in {"session", "none"} /\ u.user # None
                     => j.who \in {u.user, "nobody"}
    BY DEF ConnectsAsAsked
  <2>1. Sound(p) /\ job[p] \in Job
    BY <1>1, ProfileShapes
  <2> HIDE DEF ProfilesInv
  <2>2. job[p].cmd.op = "connect" /\ job[p].prof \in Profile /\ TrueTo(job[p], copy[p])
    BY <2>1 DEF Sound, Holding, Aimed
  <2>3. ASSUME Named(job[p].cmd) # None, Named(job[p].cmd) \notin Names, Named(job[p].cmd).user # None,
               job[p].prof.auth \in {"session", "none"}
        PROVE  job[p].who \in {Named(job[p].cmd).user, "nobody"}
    <3> DEFINE u == Named(job[p].cmd)
    <3>1. job[p].prof.user = u.user /\ job[p].prof.url.user \in {None, u.user}
      BY <2>2, <2>3 DEF TrueTo
    <3>2. /\ job[p].who = Attempt(job[p].prof, job[p].secret, job[p].prof.hash)
          /\ job[p].who # None
      BY <2>1 DEF Sound, Holding, Proven
    <3>3. CASE job[p].prof.auth = "session"
      BY <3>1, <3>2, <3>3 DEF Attempt
    <3>4. CASE job[p].prof.auth = "none"
      <4>1. CASE job[p].who = "nobody"
        BY <4>1
      <4>2. CASE job[p].who # "nobody"
        <5> DEFINE url == job[p].prof.url
        <5>1. Accepts(url.server, "session", url.user, url.secret) /\ job[p].who = url.user
          BY <3>2, <3>4, <4>2 DEF Attempt
        <5>2. url.user # None
          BY <3>2, <5>1
        <5> QED BY <3>1, <5>1, <5>2
      <4> QED BY <4>1, <4>2
    <3> QED BY <2>3, <3>3, <3>4
  <2> QED BY <2>2, <2>3 DEF TrueTo
<1> QED BY <1>1, ProfilesHold, PTL

(* A profile saved from a connection that did not go astray leads to the same server
   and the same user ever after, until a command names it or two commands overlap,
   and the default is a profile there is, however many processes write over each
   other (storeProfile: "leaving a profile that reconnects the same way"). *)
THEOREM ProfilesReconnect == ProfilesSpec => []Reconnects
<1>1. ASSUME ProfilesInv PROVE Reconnects
  <2>1. file \in File /\ DefaultIsThere(file) /\ LeadsBack
    BY <1>1 DEF ProfilesInv, ProfilesTypes
  <2>2. ASSUME NEW n \in Names, kept[n] # None
        PROVE  LET j == Opened([Plain EXCEPT !.arg = n], NoEnv, file)
                   s == IF j.prof.auth = "none" THEN None ELSE ring[n]
               IN kept[n] = [server |-> j.prof.url.server, who |-> Who(j.prof, s)]
    <3>1. n \in Saved(file) /\ kept[n] = Leads(file.profiles[n], ring[n])
      BY <2>1, <2>2 DEF LeadsBack
    <3>2. Opened([Plain EXCEPT !.arg = n], NoEnv, file).prof = file.profiles[n]
      BY <2>1, <3>1, OpenedByName
    <3> QED BY <3>1, <3>2 DEF Leads
  <2>3. \A n \in Names : kept[n] # None => n \in Saved(file)
    BY <2>1 DEF LeadsBack
  <2> QED BY <2>1, <2>2, <2>3 DEF Reconnects, DefaultIsThere
<1> QED BY <1>1, ProfilesHold, PTL
=============================================================================
