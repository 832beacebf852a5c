--------------------------- MODULE PipelineProofs ---------------------------
(***************************************************************************)
(* Proofs about Pipeline: what a line writes and what it returns, for any  *)
(* number of stages, any capacity of their channels, any source, and any   *)
(* commands between it and the screen.  And proofs about PipeConsume: what *)
(* put, rm and cat make of a pipeline's values, however they fall into     *)
(* batches, and whoever else writes to the databases.                      *)
(***************************************************************************)
EXTENDS Pipeline, PipeConsume, SequenceTheorems, FiniteSetTheorems,
        WellFoundedInduction, TLAPS

-----------------------------------------------------------------------------
(* What holds of every number, one after the other.                        *)

Less == {p \in Nat \X Nat : p[1] < p[2]}

LEMMA OneByOne ==
  ASSUME NEW T, 0 \in T, \A n \in Nat : n \in T => n + 1 \in T
  PROVE  \A n \in Nat : n \in T
<1>1. SUFFICES ASSUME Nat \ T # {} PROVE FALSE
  OBVIOUS
<1>2. IsWellFoundedOn(Less, Nat)
  BY NatLessThanWellFounded DEF OpToRel, Less
<1>3. PICK x \in Nat \ T : \A y \in Nat \ T : ~ (<<y, x>> \in Less)
  BY <1>1, <1>2, WFMin
<1>4. x # 0
  BY <1>3
<1>5. x - 1 \in Nat /\ <<x - 1, x>> \in Less
  BY <1>3, <1>4 DEF Less
<1>6. x - 1 \in T
  BY <1>3, <1>5
<1> QED
  BY <1>3, <1>5, <1>6

-----------------------------------------------------------------------------
(* FlattenSeq, through the sums of the first elements.                     *)

Sums(s, f) == \A i \in 1..Len(s) : f[i] = IF i = 1 THEN s[i] ELSE f[i - 1] \o s[i]

LEMMA SumsExist ==
  ASSUME NEW V, NEW s \in Seq(Seq(V))
  PROVE  \E f \in [1..Len(s) -> Seq(V)] : Sums(s, f)
<1> DEFINE Part(n, f) ==
             \A i \in 1..n : f[i] = IF i = 1 THEN s[i] ELSE f[i - 1] \o s[i]
           T == {n \in Nat : n =< Len(s) => \E f \in [1..n -> Seq(V)] : Part(n, f)}
<1>1. 0 \in T
  <2>1. [i \in 1..0 |-> <<>>] \in [1..0 -> Seq(V)] /\ Part(0, [i \in 1..0 |-> <<>>])
    OBVIOUS
  <2> QED
    BY <2>1
<1>2. ASSUME NEW n \in Nat, n \in T PROVE n + 1 \in T
  <2>1. SUFFICES ASSUME n + 1 =< Len(s)
                 PROVE  \E f \in [1..(n + 1) -> Seq(V)] : Part(n + 1, f)
    <3> HIDE DEF Part
    <3> QED
      BY n + 1 \in Nat
  <2>2. PICK f \in [1..n -> Seq(V)] : Part(n, f)
    BY <1>2, <2>1
  <2> DEFINE top == IF n = 0 THEN s[1] ELSE f[n] \o s[n + 1]
             g   == [i \in 1..(n + 1) |-> IF i = n + 1 THEN top ELSE f[i]]
  <2>3. s[n + 1] \in Seq(V) /\ (n # 0 => f[n] \in Seq(V))
    BY <2>1
  <2>4. top \in Seq(V)
    BY <2>3
  <2> HIDE DEF top
  <2>5. g \in [1..(n + 1) -> Seq(V)]
    BY <2>4
  <2>6. Part(n + 1, g)
    <3>1. SUFFICES ASSUME NEW i \in 1..(n + 1)
                   PROVE  g[i] = IF i = 1 THEN s[i] ELSE g[i - 1] \o s[i]
      OBVIOUS
    <3>2. CASE i = n + 1
      BY <3>2 DEF top
    <3>3. CASE i \in 1..n
      <4>1. g[i] = f[i] /\ (i # 1 => g[i - 1] = f[i - 1])
        BY <3>3
      <4> QED
        BY <2>2, <3>3, <4>1
    <3> QED
      BY <3>2, <3>3
  <2> QED
    BY <2>5, <2>6
<1>3. Len(s) \in T
  <2> HIDE DEF T
  <2> QED
    BY <1>1, <1>2, OneByOne
<1> QED
  BY <1>3 DEF Sums

LEMMA FlattenIsASum ==
  ASSUME NEW V, NEW s \in Seq(Seq(V)), s # <<>>
  PROVE  \E f : Sums(s, f) /\ FlattenSeq(s) = f[Len(s)]
<1> DEFINE Is(f) == f = [i \in 1..Len(s) |-> IF i = 1 THEN s[i] ELSE f[i - 1] \o s[i]]
<1>1. PICK f \in [1..Len(s) -> Seq(V)] : Sums(s, f)
  BY SumsExist
<1>2. Is(f)
  BY <1>1 DEF Sums
<1>3. Is(CHOOSE g : Is(g))
  BY <1>2
<1>4. Sums(s, CHOOSE g : Is(g))
  BY <1>3 DEF Sums
<1>5. FlattenSeq(s) = (CHOOSE g : Is(g))[Len(s)]
  <2>1. Len(s) # 0
    OBVIOUS
  <2> QED
    BY <2>1 DEF FlattenSeq
<1> HIDE DEF Is
<1> QED
  BY <1>4, <1>5

(* The sums of two sequences agree for as long as these do. *)
LEMMA SumsAgree ==
  ASSUME NEW V, NEW s \in Seq(Seq(V)), NEW t \in Seq(Seq(V)), NEW f, NEW g,
         Sums(s, f), Sums(t, g), NEW n \in Nat, n =< Len(s), n =< Len(t),
         \A i \in 1..n : s[i] = t[i]
  PROVE  \A i \in 1..n : f[i] = g[i] /\ f[i] \in Seq(V)
<1> DEFINE T == {i \in Nat : i \in 1..n => f[i] = g[i] /\ f[i] \in Seq(V)}
<1>1. 0 \in T
  OBVIOUS
<1>2. ASSUME NEW i \in Nat, i \in T PROVE i + 1 \in T
  <2>1. SUFFICES ASSUME i + 1 \in 1..n PROVE f[i + 1] = g[i + 1] /\ f[i + 1] \in Seq(V)
    OBVIOUS
  <2>2. s[i + 1] = t[i + 1] /\ s[i + 1] \in Seq(V)
    BY <2>1
  <2>3. CASE i = 0
    <3>1. f[1] = s[1] /\ g[1] = t[1]
      BY <2>1, <2>3 DEF Sums
    <3> QED
      BY <2>2, <2>3, <3>1
  <2>4. CASE i # 0
    <3>1. i \in 1..n /\ f[i] = g[i] /\ f[i] \in Seq(V)
      BY <1>2, <2>1, <2>4
    <3>2. i + 1 \in 1..Len(s) /\ i + 1 \in 1..Len(t) /\ i + 1 # 1 /\ i + 1 - 1 = i
      BY <2>1, <2>4
    <3>3. f[i + 1] = f[i] \o s[i + 1] /\ g[i + 1] = g[i] \o t[i + 1]
      <4> DEFINE k == i + 1
      <4>1. k \in 1..Len(s) /\ k \in 1..Len(t) /\ k # 1 /\ k - 1 = i
        BY <3>2
      <4> HIDE DEF k
      <4>2. f[k] = f[i] \o s[k] /\ g[k] = g[i] \o t[k]
        BY <4>1 DEF Sums
      <4> QED
        BY <4>2 DEF k
    <3> QED
      BY <2>2, <3>1, <3>3
  <2> QED
    BY <2>3, <2>4
<1>3. \A i \in Nat : i \in T
  <2> HIDE DEF T
  <2> QED
    BY <1>1, <1>2, OneByOne
<1> QED
  BY <1>3

LEMMA Appended ==
  ASSUME NEW S, NEW s \in Seq(S), NEW x \in S
  PROVE  /\ Append(s, x) \in Seq(S) /\ Len(Append(s, x)) = Len(s) + 1 /\ Len(s) \in Nat
         /\ \A i \in 1..Len(s) : Append(s, x)[i] = s[i]
         /\ Append(s, x)[Len(s) + 1] = x
OBVIOUS

LEMMA Flatten ==
  ASSUME NEW V, NEW s \in Seq(Seq(V)), NEW x \in Seq(V)
  PROVE  /\ FlattenSeq(<<>>) = <<>>
         /\ FlattenSeq(s) \in Seq(V)
         /\ FlattenSeq(Append(s, x)) = FlattenSeq(s) \o x
<1>1. FlattenSeq(<<>>) = <<>>
  BY DEF FlattenSeq
<1> DEFINE t == Append(s, x)
<1>2. /\ t \in Seq(Seq(V)) /\ t # <<>> /\ Len(t) = Len(s) + 1 /\ Len(s) \in Nat
      /\ t[Len(s) + 1] = x /\ \A i \in 1..Len(s) : t[i] = s[i]
  <2> DEFINE S == Seq(V)
  <2>1. s \in Seq(S) /\ x \in S
    OBVIOUS
  <2> HIDE DEF S
  <2>2. /\ t \in Seq(S) /\ Len(t) = Len(s) + 1 /\ Len(s) \in Nat
        /\ t[Len(s) + 1] = x /\ \A i \in 1..Len(s) : t[i] = s[i]
    BY <2>1, Appended
  <2>3. t # <<>>
    BY <2>2
  <2> QED
    BY <2>2, <2>3 DEF S
<1> HIDE DEF t
<1>3. PICK g : Sums(t, g) /\ FlattenSeq(t) = g[Len(t)]
  BY <1>2, FlattenIsASum
<1>4. CASE s = <<>>
  <2>1. Len(s) = 0 /\ Len(t) = 1
    BY <1>2, <1>4
  <2>2. g[1] = t[1] /\ t[1] = x
    BY <1>2, <1>3, <2>1 DEF Sums
  <2>3. FlattenSeq(t) = x /\ FlattenSeq(s) = <<>>
    BY <1>1, <1>3, <1>4, <2>1, <2>2
  <2>4. <<>> \o x = x /\ <<>> \in Seq(V)
    OBVIOUS
  <2> QED
    BY <1>1, <2>3, <2>4 DEF t
<1>5. CASE s # <<>>
  <2>1. PICK f : Sums(s, f) /\ FlattenSeq(s) = f[Len(s)]
    BY <1>5, FlattenIsASum
  <2>2. \A i \in 1..Len(s) : f[i] = g[i] /\ f[i] \in Seq(V)
    <3> DEFINE n == Len(s)
    <3>1. n \in Nat /\ n =< Len(s) /\ n =< Len(t) /\ \A i \in 1..n : s[i] = t[i]
      BY <1>2
    <3>2. Sums(t, g) /\ Sums(s, f) /\ t \in Seq(Seq(V))
      BY <1>2, <1>3, <2>1
    <3> HIDE DEF n
    <3>3. \A i \in 1..n : f[i] = g[i] /\ f[i] \in Seq(V)
      BY <3>1, <3>2, SumsAgree
    <3> QED
      BY <3>3 DEF n
  <2>3. Len(s) \in 1..Len(s) /\ Len(t) \in 1..Len(t) /\ Len(t) # 1 /\ Len(t) - 1 = Len(s)
    BY <1>2, <1>5
  <2>4. g[Len(t)] = g[Len(s)] \o x
    BY <1>2, <1>3, <2>3 DEF Sums
  <2> QED
    BY <1>1, <1>3, <2>1, <2>2, <2>3, <2>4 DEF t
<1> QED
  BY <1>4, <1>5

-----------------------------------------------------------------------------
(* What a stage makes of the values it is given.                           *)

Image(i, s) ==
  IF i = 1 THEN s ELSE FlattenSeq([k \in 1..Len(s) |-> Outs[i][s[k]]])

(* s is where t begins. *)
Begins(s, t) == Len(s) =< Len(t) /\ \A k \in 1..Len(s) : s[k] = t[k]

LEMMA Itself == ASSUME NEW V, NEW s \in Seq(V) PROVE Begins(s, s)
BY DEF Begins

LEMMA Extended ==
  ASSUME NEW V, NEW s \in Seq(V), NEW t \in Seq(V)
  PROVE  Begins(s, s \o t)
BY ConcatProperties DEF Begins

LEMMA ImageGrows ==
  ASSUME NEW i \in Stages, NEW s \in Seq(Values), NEW v \in Values
  PROVE  /\ Image(i, <<>>) = <<>> /\ Image(i, s) \in Seq(Values)
         /\ Image(i, Append(s, v)) = Image(i, s) \o (IF i = 1 THEN <<v>> ELSE Outs[i][v])
<1>1. CASE i = 1
  BY <1>1 DEF Image
<1>2. CASE i # 1
  <2> DEFINE S     == Seq(Values)
             Of(t) == [k \in 1..Len(t) |-> Outs[i][t[k]]]
  <2>1. \A w \in Values : Outs[i][w] \in S
    BY <1>2, PipelineAssumption DEF Stages
  <2>2. Outs[i][v] \in Seq(Values)
    BY <2>1
  <2>3. Of(s) \in Seq(Seq(Values)) /\ Of(<<>>) = <<>>
    <3>1. \A k \in 1..Len(s) : Outs[i][s[k]] \in S
      BY <2>1
    <3> HIDE DEF S
    <3>2. Of(s) \in Seq(S)
      BY <3>1, IsASeq
    <3> QED
      BY <3>2 DEF S
  <2>4. Of(Append(s, v)) = Append(Of(s), Outs[i][v])
    <3> HIDE DEF S
    <3>1. /\ Append(s, v) \in Seq(Values) /\ Len(Append(s, v)) = Len(s) + 1 /\ Len(s) \in Nat
          /\ \A k \in 1..Len(s) : Append(s, v)[k] = s[k]
          /\ Append(s, v)[Len(s) + 1] = v
      BY Appended
    <3>2. Outs[i][v] \in S /\ Of(s) \in Seq(S)
      BY <2>2, <2>3 DEF S
    <3>3. /\ Append(Of(s), Outs[i][v]) \in Seq(S)
          /\ Len(Append(Of(s), Outs[i][v])) = Len(Of(s)) + 1
          /\ \A k \in 1..Len(Of(s)) : Append(Of(s), Outs[i][v])[k] = Of(s)[k]
          /\ Append(Of(s), Outs[i][v])[Len(Of(s)) + 1] = Outs[i][v]
      <4> HIDE DEF Of
      <4> QED
        BY <3>2, Appended
    <3>4. Len(Of(s)) = Len(s) /\ \A k \in 1..Len(s) : Of(s)[k] = Outs[i][s[k]]
      BY <3>1, LenProperties, <3>2
    <3>5. Of(Append(s, v)) \in Seq(S) /\ Len(Of(Append(s, v))) = Len(s) + 1
      <4> DEFINE t == Append(s, v)
      <4>1. \A k \in 1..Len(t) : Outs[i][t[k]] \in S
        BY <2>1, <3>1
      <4>2. Len(t) = Len(s) + 1 /\ Len(t) \in Nat
        BY <3>1
      <4> HIDE DEF t
      <4>3. Of(t) \in Seq(S)
        BY <4>1, <4>2, IsASeq
      <4>4. Len(Of(t)) = Len(t)
        BY <4>2, <4>3, LenProperties
      <4> QED
        BY <4>2, <4>3, <4>4 DEF t
    <3>6. \A k \in 1..(Len(s) + 1) : Of(Append(s, v))[k] = Append(Of(s), Outs[i][v])[k]
      BY <3>1, <3>3, <3>4
    <3> HIDE DEF Of
    <3> QED
      BY <3>1, <3>3, <3>4, <3>5, <3>6, SeqEqual
  <2> HIDE DEF Of, S
  <2>5. /\ FlattenSeq(<<>>) = <<>> /\ FlattenSeq(Of(s)) \in Seq(Values)
        /\ FlattenSeq(Append(Of(s), Outs[i][v])) = FlattenSeq(Of(s)) \o Outs[i][v]
    BY <2>2, <2>3, Flatten
  <2>6. \A t : Image(i, t) = FlattenSeq(Of(t))
    BY <1>2 DEF Image, Of
  <2> QED
    BY <1>2, <2>3, <2>4, <2>5, <2>6
<1> QED
  BY <1>1, <1>2

LEMMA ImageTypes ==
  ASSUME NEW i \in Stages, NEW s \in Seq(Values)
  PROVE  Image(i, s) \in Seq(Values)
<1>1. CASE s = <<>>
  <2>1. Image(i, s) = <<>>
    BY <1>1 DEF Image, FlattenSeq
  <2> QED
    BY <2>1
<1>2. CASE s # <<>>
  <2>1. s[1] \in Values
    BY <1>2
  <2> QED
    BY <2>1, ImageGrows
<1> QED
  BY <1>1, <1>2

LEMMA Sliced ==
  ASSUME NEW V, NEW t \in Seq(V), NEW n \in Nat, n =< Len(t)
  PROVE  /\ SubSeq(t, 1, n) \in Seq(V) /\ Len(SubSeq(t, 1, n)) = n
         /\ \A k \in 1..n : SubSeq(t, 1, n)[k] = t[k]
<1>1. \A k \in 1..n : t[k] \in V
  OBVIOUS
<1>2. n \in Int /\ n - 1 + 1 = n /\ \A k \in 1..n : 1 + k - 1 = k
  OBVIOUS
<1>3. /\ SubSeq(t, 1, n) \in Seq(V)
      /\ Len(SubSeq(t, 1, n)) = IF 1 =< n THEN n - 1 + 1 ELSE 0
      /\ \A k \in 1..(n - 1 + 1) : SubSeq(t, 1, n)[k] = t[1 + k - 1]
  BY <1>1, <1>2, SubSeqProperties
<1> QED
  BY <1>2, <1>3

LEMMA OneMore ==
  ASSUME NEW V, NEW t \in Seq(V), NEW n \in Nat, n + 1 =< Len(t)
  PROVE  SubSeq(t, 1, n + 1) = Append(SubSeq(t, 1, n), t[n + 1]) /\ t[n + 1] \in V
<1>1. t[n + 1] \in V
  OBVIOUS
<1>2. /\ SubSeq(t, 1, n) \in Seq(V) /\ Len(SubSeq(t, 1, n)) = n
      /\ \A k \in 1..n : SubSeq(t, 1, n)[k] = t[k]
  BY Sliced
<1>3. /\ SubSeq(t, 1, n + 1) \in Seq(V) /\ Len(SubSeq(t, 1, n + 1)) = n + 1
      /\ \A k \in 1..(n + 1) : SubSeq(t, 1, n + 1)[k] = t[k]
  BY n + 1 \in Nat, Sliced
<1> DEFINE s == Append(SubSeq(t, 1, n), t[n + 1])
<1>4. /\ s \in Seq(V) /\ Len(s) = n + 1 /\ s[n + 1] = t[n + 1]
      /\ \A k \in 1..n : s[k] = SubSeq(t, 1, n)[k]
  BY <1>1, <1>2, Appended
<1> HIDE DEF s
<1>5. \A k \in 1..(n + 1) : SubSeq(t, 1, n + 1)[k] = s[k]
  BY <1>2, <1>3, <1>4
<1>6. SubSeq(t, 1, n + 1) = s
  BY <1>3, <1>4, <1>5, SeqEqual
<1> QED
  BY <1>1, <1>6 DEF s

(* A stage makes the beginning of its output of the beginning of its input. *)
LEMMA ImageInOrder ==
  ASSUME NEW i \in Stages, NEW s \in Seq(Values), NEW t \in Seq(Values), Begins(s, t)
  PROVE  Begins(Image(i, s), Image(i, t))
<1> DEFINE Slice(n) == SubSeq(t, 1, n)
           T == {n \in Nat : n \in Len(s)..Len(t) => Begins(Image(i, s), Image(i, Slice(n)))}
<1>1. \A n \in Nat : n =< Len(t) =>
        /\ Slice(n) \in Seq(Values) /\ Len(Slice(n)) = n
        /\ \A k \in 1..n : Slice(n)[k] = t[k]
  BY Sliced
<1>2. /\ Len(s) \in Nat /\ Len(t) \in Nat /\ Len(s) =< Len(t)
      /\ \A k \in 1..Len(s) : s[k] = t[k]
  BY DEF Begins
<1>3. Slice(Len(s)) = s
  BY <1>1, <1>2, SeqEqual
<1>4. Slice(Len(t)) = t
  BY <1>1, <1>2, SeqEqual
<1>5. Begins(Image(i, s), Image(i, s))
  <2>1. Image(i, s) \in Seq(Values)
    BY ImageTypes
  <2> QED
    BY <2>1, Itself
<1>6. 0 \in T
  <2>1. 0 \in Len(s)..Len(t) => Len(s) = 0
    BY <1>2
  <2> HIDE DEF Slice
  <2> QED
    BY <1>3, <1>5, <2>1
<1>7. ASSUME NEW n \in Nat, n \in T PROVE n + 1 \in T
  <2>1. SUFFICES ASSUME n + 1 \in Len(s)..Len(t)
                 PROVE  Begins(Image(i, s), Image(i, Slice(n + 1)))
    <3> HIDE DEF Slice
    <3> QED
      BY n + 1 \in Nat
  <2>2. CASE n + 1 = Len(s)
    BY <1>3, <1>5, <2>2
  <2>3. CASE n + 1 # Len(s)
    <3>1. n \in Len(s)..Len(t) /\ n + 1 =< Len(t) /\ n =< Len(t)
      BY <1>2, <2>1, <2>3
    <3>2. Begins(Image(i, s), Image(i, Slice(n)))
      BY <1>7, <3>1
    <3>3. Slice(n + 1) = Append(Slice(n), t[n + 1]) /\ t[n + 1] \in Values
      BY <3>1, OneMore
    <3>4. Slice(n) \in Seq(Values)
      BY <1>1, <3>1
    <3> DEFINE more == IF i = 1 THEN <<t[n + 1]>> ELSE Outs[i][t[n + 1]]
    <3>5. more \in Seq(Values)
      BY <3>3, PipelineAssumption DEF Stages
    <3> HIDE DEF Slice, more
    <3>6. /\ Image(i, Slice(n)) \in Seq(Values)
          /\ Image(i, Slice(n + 1)) = Image(i, Slice(n)) \o more
      BY <3>3, <3>4, ImageGrows, ZenonT(60) DEF more
    <3>7. Begins(Image(i, Slice(n)), Image(i, Slice(n + 1)))
      <4>1. Begins(Image(i, Slice(n)), Image(i, Slice(n)) \o more)
        BY <3>5, <3>6, Extended
      <4> QED
        BY <3>6, <4>1
    <3>8. Image(i, s) \in Seq(Values) /\ Image(i, Slice(n + 1)) \in Seq(Values)
      <4>1. Image(i, Slice(n)) \o more \in Seq(Values)
        BY <3>5, <3>6, ConcatProperties
      <4> QED
        BY <3>6, <4>1, ImageTypes
    <3> QED
      BY <3>2, <3>6, <3>7, <3>8 DEF Begins
  <2> QED
    BY <2>2, <2>3
<1>8. \A n \in Nat : n \in T
  <2> HIDE DEF T
  <2> QED
    BY <1>6, <1>7, OneByOne
<1>9. Len(t) \in Len(s)..Len(t) /\ Len(t) \in T
  <2> HIDE DEF T
  <2> QED
    BY <1>2, <1>8
<1>10. Begins(Image(i, s), Image(i, Slice(Len(t))))
  <2> HIDE DEF Slice
  <2> QED
    BY <1>9
<1> QED
  BY <1>4, <1>10

-----------------------------------------------------------------------------
(* What the line makes of its source, stage by stage.                      *)

LEMMA MadeIs ==
  /\ Made \in [Stages -> Seq(Values)] /\ Made[1] = Source
  /\ \A i \in 2..N : Made[i] = Image(i, Made[i - 1])
<1> DEFINE Part(n, f) == \A i \in 1..n : f[i] = IF i = 1 THEN Source ELSE Image(i, f[i - 1])
           T == {n \in Nat : n =< N => \E f \in [1..n -> Seq(Values)] : Part(n, f)}
<1>1. N \in Nat /\ N >= 2 /\ Source \in Seq(Values)
  BY PipelineAssumption
<1>2. 0 \in T
  <2>1. [i \in 1..0 |-> <<>>] \in [1..0 -> Seq(Values)] /\ Part(0, [i \in 1..0 |-> <<>>])
    OBVIOUS
  <2> QED
    BY <2>1
<1>3. ASSUME NEW n \in Nat, n \in T PROVE n + 1 \in T
  <2>1. SUFFICES ASSUME n + 1 =< N
                 PROVE  \E f \in [1..(n + 1) -> Seq(Values)] : Part(n + 1, f)
    <3> HIDE DEF Part
    <3> QED
      BY n + 1 \in Nat
  <2>2. PICK f \in [1..n -> Seq(Values)] : Part(n, f)
    BY <1>1, <1>3, <2>1
  <2> DEFINE top == IF n = 0 THEN Source ELSE Image(n + 1, f[n])
             g   == [i \in 1..(n + 1) |-> IF i = n + 1 THEN top ELSE f[i]]
  <2>3. n + 1 \in Stages /\ (n # 0 => f[n] \in Seq(Values))
    BY <1>1, <2>1 DEF Stages
  <2>4. top \in Seq(Values)
    BY <1>1, <2>3, ImageTypes
  <2> HIDE DEF top
  <2>5. g \in [1..(n + 1) -> Seq(Values)]
    BY <2>4
  <2>6. Part(n + 1, g)
    <3>1. SUFFICES ASSUME NEW i \in 1..(n + 1)
                   PROVE  g[i] = IF i = 1 THEN Source ELSE Image(i, g[i - 1])
      OBVIOUS
    <3>2. CASE i = n + 1
      BY <3>2 DEF top
    <3>3. CASE i \in 1..n
      <4>1. g[i] = f[i] /\ (i # 1 => g[i - 1] = f[i - 1])
        BY <3>3
      <4> QED
        BY <2>2, <3>3, <4>1
    <3> QED
      BY <3>2, <3>3
  <2> QED
    BY <2>5, <2>6
<1>4. N \in T
  <2> HIDE DEF T
  <2> QED
    BY <1>1, <1>2, <1>3, OneByOne
<1>5. PICK f \in [Stages -> Seq(Values)] : Part(N, f)
  BY <1>1, <1>4 DEF Stages
<1> DEFINE Is(g) == g = [i \in Stages |->
             IF i = 1 THEN Source
             ELSE FlattenSeq([k \in 1..Len(g[i - 1]) |-> Outs[i][g[i - 1][k]]])]
<1>6. Is(f)
  BY <1>5 DEF Stages, Image
<1>7. Is(CHOOSE g : Is(g))
  BY <1>6
<1>8. Is(Made)
  BY <1>7 DEF Made
<1> HIDE DEF Is
<1>9. Made = [i \in Stages |-> IF i = 1 THEN Source ELSE Image(i, Made[i - 1])]
  BY <1>8 DEF Is, Image
<1>10. Made[1] = Source /\ \A i \in 2..N : Made[i] = Image(i, Made[i - 1])
  BY <1>1, <1>9 DEF Stages
<1> DEFINE U == {i \in Nat : i \in Stages => Made[i] \in Seq(Values)}
<1>11. 0 \in U
  BY DEF Stages
<1>12. ASSUME NEW n \in Nat, n \in U PROVE n + 1 \in U
  <2>1. SUFFICES ASSUME n + 1 \in Stages PROVE Made[n + 1] \in Seq(Values)
    OBVIOUS
  <2>2. CASE n = 0
    BY <1>1, <1>10, <2>2
  <2>3. CASE n # 0
    <3>1. n \in Stages /\ n + 1 \in 2..N /\ n + 1 - 1 = n
      BY <1>1, <2>1, <2>3 DEF Stages
    <3>2. Made[n] \in Seq(Values)
      BY <1>12, <3>1
    <3>3. Made[n + 1] = Image(n + 1, Made[n])
      BY <1>10, <3>1
    <3> QED
      BY <2>1, <3>2, <3>3, ImageTypes
  <2> QED
    BY <2>2, <2>3
<1>13. \A i \in Nat : i \in U
  <2> HIDE DEF U
  <2> QED
    BY <1>11, <1>12, OneByOne
<1>14. \A i \in Stages : Made[i] \in Seq(Values)
  BY <1>13 DEF Stages
<1> QED
  BY <1>9, <1>10, <1>14

-----------------------------------------------------------------------------
(* The invariant.                                                          *)

Places == {"start", "run", "failing", "recorded", "leaving", "closing", "closed", "gone",
           "finished", "joining"}
Past == Places \ {"start", "run"}

Types ==
  /\ feed \in {"finite", "live"}
  /\ interrupt \in BOOLEAN /\ cancelled \in BOOLEAN /\ early \in BOOLEAN
  /\ pc \in [Stages -> Places]
  /\ err \in [Stages -> {"none", "own", "cancelled"}]
  /\ closed \in [Producers -> BOOLEAN]
  /\ given \in 0..Len(Source) /\ out \in Seq(Values)
  /\ pend \in [Producers -> Seq(Values)] /\ chan \in [Producers -> Seq(Values)]

(* A stage has failed when it says so, and is not off before it has. *)
Said(i) ==
  /\ pc[i] \in {"start", "run"} => err[i] = "none"
  /\ pc[i] \in {"failing", "recorded"} => err[i] # "none"
  /\ fail = None /\ err[i] # "none" => pc[i] = "failing"
  /\ i \in Producers => (closed[i] => pc[i] \in {"closed", "gone"})

Through(i) == pc[i] \in Past /\ err[i] = "none" /\ (i = N => ~early)

(* A stage is through when there is nothing more to come, and it has sent what
   it had. *)
Dry(i) ==
  Through(i) =>
    /\ i # N => pend[i] = <<>>
    /\ IF i = 1 THEN given = Len(Source) /\ feed = "finite"
       ELSE chan[i - 1] = <<>> /\ closed[i - 1]

(* ... and until a failure is on record, so are the stages above it. *)
Chain(i) ==
  fail = None /\ Through(i) => \A k \in 1..(i - 1) : pc[k] \in Past /\ err[k] = "none"

Stage(i) == Said(i) /\ Dry(i) /\ Chain(i)

(* The line is taken down by a failure on record, or by its last stage when that
   has had enough. *)
Ended == pc[N] \in {"joining", "gone"} /\ err[N] = "none"

Causes ==
  /\ fail = None \/ (/\ fail.stage \in Stages
                      /\ fail.why # "none" /\ err[fail.stage] = fail.why)
  /\ cancelled /\ fail = None => Ended
  /\ \A i \in Stages : err[i] = "cancelled" /\ fail = None /\ ~interrupt => Ended /\ early
  /\ fail.why = "cancelled" /\ ~interrupt => Ended /\ early

Returned ==
  /\ pc[N] = "gone" <=> result # Running
  /\ result # Running => /\ \A i \in Stages : pc[i] = "gone"
                         /\ result = IF fail = None \/ Shutdown THEN Ok ELSE fail

Inv == Types /\ (\A i \in Stages : Stage(i)) /\ Causes /\ Returned

LEMMA Numbers ==
  /\ N \in Nat /\ N >= 2 /\ N \in Stages /\ 1 \in Producers /\ N - 1 \in Producers
  /\ Producers \subseteq Stages /\ N \notin Producers
  /\ \A i \in Stages : i \in Nat /\ i # 0 /\ (i # N => i \in Producers)
                       /\ (i # 1 => i - 1 \in Producers)
  /\ \A i \in Producers : i + 1 \in Stages /\ i + 1 # 1 /\ i # N
BY PipelineAssumption DEF Stages, Producers

LEMMA Initially == Init => Inv
<1> SUFFICES ASSUME Init PROVE Inv
  OBVIOUS
<1>1. Types
  <2>1. closed \in [Producers -> BOOLEAN]
    BY DEF Init
  <2>2. given \in 0..Len(Source)
    BY PipelineAssumption DEF Init
  <2>3. pend \in [Producers -> Seq(Values)] /\ chan \in [Producers -> Seq(Values)]
    BY DEF Init
  <2>4. /\ pc \in [Stages -> Places] /\ err \in [Stages -> {"none", "own", "cancelled"}]
        /\ feed \in {"finite", "live"} /\ out \in Seq(Values)
    BY DEF Init, Places
  <2>5. interrupt \in BOOLEAN /\ cancelled \in BOOLEAN /\ early \in BOOLEAN
    BY DEF Init
  <2> QED
    BY <2>1, <2>2, <2>3, <2>4, <2>5 DEF Types
<1>2. \A i \in Stages : pc[i] = "start" /\ err[i] = "none"
  BY DEF Init
<1>3. \A i \in Producers : closed[i] = FALSE
  BY DEF Init
<1>4. \A i \in Stages : Stage(i)
  BY <1>2, <1>3 DEF Stage, Said, Dry, Chain, Through, Past
<1>5. Causes /\ Returned
  BY <1>2, Numbers DEF Init, Causes, Returned, None, Running
<1> QED
  BY <1>1, <1>4, <1>5 DEF Inv

-----------------------------------------------------------------------------
(* A step that moves values, and no stage.                                 *)

Calm == UNCHANGED <<feed, pc, closed, cancelled, interrupt, err, fail, early, result>>

LEMMA CalmKeeps ==
  ASSUME Inv, Calm, Types', \A i \in Stages : Dry(i)'
  PROVE  Inv'
<1>1. \A i \in Stages : Said(i)' /\ Chain(i)'
  BY DEF Inv, Calm, Stage, Said, Chain, Through
<1>2. Causes' /\ Returned'
  BY DEF Inv, Calm, Causes, Ended, Returned, Shutdown
<1> QED
  BY <1>1, <1>2 DEF Inv, Stage

(* A channel is filled by its own stage while that runs, so that nothing comes
   after it was closed. *)
LEMMA MoveKeeps ==
  ASSUME Inv, Calm, Types', NEW i \in Stages, pc[i] = "run",
         i # 1 => given' = given,
         \A j \in Producers \ {i} : pend'[j] = pend[j],
         \A j \in Producers \ {i, i - 1} : chan'[j] = chan[j]
  PROVE  Inv'
<1>1. \A j \in Stages : Through(j)' <=> Through(j)
  BY DEF Calm, Through
<1>2. ~Through(i)
  BY DEF Through, Past
<1>3. ASSUME NEW j \in Stages, Through(j) PROVE Dry(j)'
  <2>1. j # i /\ Dry(j)
    BY <1>2, <1>3 DEF Inv, Stage
  <2>2. j # N => pend'[j] = pend[j]
    BY <2>1, Numbers
  <2>3. j = 1 => given' = given
    BY <2>1
  <2>4. j # 1 => chan'[j - 1] = chan[j - 1]
    <3>1. SUFFICES ASSUME j # 1 PROVE j - 1 # i /\ j - 1 # i - 1
      BY Numbers
    <3>2. j - 1 \in Producers /\ closed[j - 1]
      BY <1>3, <2>1, <3>1, Numbers DEF Dry
    <3>3. pc[j - 1] \in {"closed", "gone"}
      BY <3>2, Numbers DEF Inv, Stage, Said
    <3> QED
      BY <2>1, <3>3, Numbers
  <2> QED
    BY <1>1, <1>3, <2>1, <2>2, <2>3, <2>4 DEF Dry, Calm
<1>4. \A j \in Stages : Dry(j)'
  BY <1>1, <1>3 DEF Dry
<1> QED
  BY <1>4, CalmKeeps

-----------------------------------------------------------------------------
(* The steps of a stage.                                                   *)

values == <<given, pend, chan, out>>

LEMMA StartsKeeps ==
  ASSUME Inv, NEW i \in Stages, pc[i] = "start", pc' = [pc EXCEPT ![i] = "run"],
         UNCHANGED <<feed, values, closed, cancelled, interrupt, err, fail, early, result>>
  PROVE  Inv'
<1>1. pc'[i] = "run" /\ \A j \in Stages \ {i} : pc'[j] = pc[j]
  BY DEF Inv, Types
<1>2. Types'
  BY DEF Inv, Types, Places, values
<1>3. \A j \in Stages : Through(j)' <=> Through(j)
  BY <1>1 DEF Through, Past
<1>4. \A j \in Stages : Said(j)'
  BY <1>1 DEF Inv, Stage, Said
<1>5. \A j \in Stages : Dry(j)'
  BY <1>3 DEF Inv, Stage, Dry, values
<1>6. \A j \in Stages : Chain(j)'
  <2>1. \A k \in Stages : pc[k] \in Past => pc'[k] \in Past
    BY <1>1 DEF Past
  <2>2. \A j \in Stages : \A k \in 1..(j - 1) : k \in Stages
    BY Numbers DEF Stages
  <2> QED
    BY <1>3, <2>1, <2>2 DEF Inv, Stage, Chain
<1>7. Causes'
  <2>1. Ended => Ended'
    BY <1>1, Numbers DEF Ended
  <2> QED
    BY <2>1 DEF Inv, Causes
<1>8. Returned'
  <2>1. result = Running
    BY DEF Inv, Returned
  <2>2. pc'[N] # "gone"
    BY <1>1, <2>1, Numbers DEF Inv, Returned
  <2> QED
    BY <2>1, <2>2 DEF Returned
<1> QED
  BY <1>2, <1>4, <1>5, <1>6, <1>7, <1>8 DEF Inv, Stage

(* A stage that finds that nothing more comes leaves: what it read from is closed,
   and so whoever wrote that is through, unless it failed. *)
LEMMA LeavesKeeps ==
  ASSUME Inv, NEW i \in Stages, pc[i] = "run",
         pc' = [pc EXCEPT ![i] = IF i = N THEN "finished" ELSE "leaving"],
         i # N => pend[i] = <<>>,
         IF i = 1 THEN given = Len(Source) /\ feed = "finite"
         ELSE chan[i - 1] = <<>> /\ closed[i - 1],
         UNCHANGED <<feed, values, closed, cancelled, interrupt, err, fail, early, result>>
  PROVE  Inv'
<1>1. /\ pc'[i] = (IF i = N THEN "finished" ELSE "leaving")
      /\ \A j \in Stages \ {i} : pc'[j] = pc[j]
  BY DEF Inv, Types
<1>2. Types'
  BY DEF Inv, Types, Places, values
<1>3. \A j \in Stages \ {i} : Through(j)' <=> Through(j)
  BY <1>1 DEF Through
<1>4. \A j \in Stages : Said(j)'
  BY <1>1, Numbers DEF Inv, Stage, Said
<1>5. \A j \in Stages : Dry(j)'
  BY <1>3 DEF Inv, Stage, Dry, values
<1>6. \A k \in Stages : pc[k] \in Past => pc'[k] \in Past
  BY <1>1 DEF Past
<1>7. \A j \in Stages : \A k \in 1..(j - 1) : k \in Stages
  BY Numbers DEF Stages
<1>8. \A j \in Stages \ {i} : Chain(j)'
  BY <1>3, <1>6, <1>7 DEF Inv, Stage, Chain
<1>9. Chain(i)'
  <2>1. CASE i = 1
    BY <2>1 DEF Chain
  <2>2. CASE i # 1 /\ fail = None
    <3> DEFINE j == i - 1
    <3>1. j \in Producers /\ j \in Stages /\ j # N /\ closed[j]
      BY <2>2, Numbers
    <3>2. 1..(i - 1) = 1..(j - 1) \cup {j}
      BY <3>1, Numbers
    <3> HIDE DEF j
    <3>3. pc[j] \in {"closed", "gone"} /\ err[j] = "none"
      BY <2>2, <3>1 DEF Inv, Types, Stage, Said
    <3>4. Through(j)
      BY <3>1, <3>3 DEF Through, Past, Places
    <3>5. \A k \in 1..(i - 1) : pc[k] \in Past /\ err[k] = "none"
      BY <2>2, <3>1, <3>2, <3>4 DEF Inv, Stage, Chain, Through
    <3> QED
      BY <1>6, <1>7, <3>5 DEF Chain
  <2>3. CASE fail # None
    BY <2>3 DEF Chain
  <2> QED
    BY <2>1, <2>2, <2>3
<1>10. Causes'
  <2>1. Ended => Ended'
    BY <1>1, Numbers DEF Ended
  <2> QED
    BY <2>1 DEF Inv, Causes
<1>11. Returned'
  <2>1. result = Running
    BY DEF Inv, Returned
  <2>2. pc'[N] # "gone"
    BY <1>1, <2>1, Numbers DEF Inv, Returned
  <2> QED
    BY <2>1, <2>2 DEF Returned
<1> QED
  BY <1>2, <1>4, <1>5, <1>8, <1>9, <1>10, <1>11 DEF Inv, Stage

(* A stage fails: of itself, or because the line was cancelled.  As long as no
   failure is on record the last stage did that, and not because it was through:
   the stage that fails now would be too. *)
LEMMA FailsKeeps ==
  ASSUME Inv, NEW i \in Stages, pc[i] \in {"start", "run"},
         NEW why \in {"own", "cancelled"}, why = "cancelled" => Done, Fails(i, why),
         UNCHANGED <<feed, values, closed, cancelled, interrupt, fail, early, result>>
  PROVE  Inv'
<1>1. pc' = [pc EXCEPT ![i] = "failing"] /\ err' = [err EXCEPT ![i] = why]
  BY DEF Fails, Goto
<1>2. /\ pc'[i] = "failing" /\ err'[i] = why /\ err[i] = "none"
      /\ \A j \in Stages \ {i} : pc'[j] = pc[j] /\ err'[j] = err[j]
  BY <1>1 DEF Inv, Types, Stage, Said
<1>3. Types'
  BY <1>1 DEF Inv, Types, Places, values
<1>4. ~Through(i)' /\ \A j \in Stages \ {i} : Through(j)' <=> Through(j)
  BY <1>2 DEF Through
<1>5. \A j \in Stages : Said(j)'
  BY <1>2, Numbers DEF Inv, Stage, Said
<1>6. \A j \in Stages : Dry(j)'
  BY <1>4 DEF Inv, Stage, Dry, values
<1>7. \A j \in Stages : Chain(j)'
  <2>1. \A j \in Stages : \A k \in 1..(j - 1) : k \in Stages
    BY Numbers DEF Stages
  <2>2. \A k \in Stages : pc[k] \in Past => k # i
    BY DEF Past
  <2> QED
    BY <1>2, <1>4, <2>1, <2>2 DEF Inv, Stage, Chain
<1>8. Ended => i # N /\ Ended'
  BY <1>2, Numbers DEF Ended
<1>9. ASSUME fail = None, why = "cancelled", ~interrupt PROVE Ended /\ early
  <2>1. Ended
    BY <1>9 DEF Done, Inv, Causes
  <2>2. SUFFICES ASSUME ~early PROVE FALSE
    BY <2>1 DEF Inv, Types
  <2>3. Through(N)
    BY <2>1, <2>2 DEF Ended, Through, Past, Places
  <2>4. i \in 1..(N - 1)
    BY <1>8, <2>1, Numbers DEF Stages
  <2>5. pc[i] \in Past
    BY <1>9, <2>3, <2>4, Numbers DEF Inv, Stage, Chain
  <2> QED
    BY <2>5 DEF Past
<1>10. Causes'
  <2>1. fail # None => fail.stage \in Stages /\ fail.stage # i
    BY <1>2 DEF Inv, Causes
  <2>2. fail' = None \/ (/\ fail'.stage \in Stages
                         /\ fail'.why # "none" /\ err'[fail'.stage] = fail'.why)
    BY <1>2, <2>1 DEF Inv, Causes
  <2>3. \A j \in Stages : err'[j] = "cancelled" /\ fail = None /\ ~interrupt => Ended /\ early
    BY <1>2, <1>9 DEF Inv, Causes
  <2> QED
    BY <1>8, <2>2, <2>3 DEF Inv, Causes
<1>11. Returned'
  <2>1. result = Running
    BY DEF Inv, Returned
  <2>2. pc'[N] # "gone"
    BY <1>2, <2>1, Numbers DEF Inv, Returned
  <2> QED
    BY <2>1, <2>2 DEF Returned
<1> QED
  BY <1>3, <1>5, <1>6, <1>7, <1>10, <1>11 DEF Inv, Stage

(* The first failure is put on record. *)
LEMMA RecordKeeps == ASSUME Inv, NEW i \in Stages, Record(i) PROVE Inv'
<1>1. /\ pc[i] = "failing" /\ pc' = [pc EXCEPT ![i] = IF i = N THEN "finished" ELSE "recorded"]
      /\ fail' = IF fail = None THEN [stage |-> i, why |-> err[i]] ELSE fail
      /\ UNCHANGED <<feed, values, closed, cancelled, interrupt, err, early, result>>
  BY DEF Record, Goto, Recorded, values
<1>2. /\ pc'[i] = (IF i = N THEN "finished" ELSE "recorded") /\ err[i] # "none"
      /\ \A j \in Stages \ {i} : pc'[j] = pc[j]
  BY <1>1 DEF Inv, Types, Stage, Said
<1>3. Types'
  BY <1>1 DEF Inv, Types, Places, values
<1>4. fail' # None
  BY <1>1, Numbers DEF None
<1>5. \A j \in Stages : Through(j)' <=> Through(j)
  BY <1>1, <1>2 DEF Through
<1>6. \A j \in Stages : Said(j)'
  BY <1>1, <1>2, <1>4, Numbers DEF Inv, Stage, Said
<1>7. \A j \in Stages : Dry(j)' /\ Chain(j)'
  BY <1>1, <1>4, <1>5 DEF Inv, Stage, Dry, Chain, values
<1>8. Causes'
  <2>1. Ended => Ended'
    BY <1>1, <1>2, Numbers DEF Ended
  <2>2. CASE fail = None
    <3>1. fail'.stage = i /\ fail'.why = err[i]
      BY <1>1, <2>2
    <3>2. err[i] = "cancelled" /\ ~interrupt => Ended /\ early
      BY <2>2 DEF Inv, Causes
    <3> QED
      BY <1>1, <1>2, <1>4, <2>1, <3>1, <3>2 DEF Causes
  <2>3. CASE fail # None
    BY <1>1, <2>1, <2>3 DEF Inv, Causes
  <2> QED
    BY <2>2, <2>3
<1>9. Returned'
  <2>1. result = Running
    BY <1>1 DEF Inv, Returned
  <2>2. pc'[N] # "gone"
    BY <1>2, <2>1, Numbers DEF Inv, Returned
  <2> QED
    BY <1>1, <2>1, <2>2 DEF Returned
<1> QED
  BY <1>3, <1>6, <1>7, <1>8, <1>9 DEF Inv, Stage

(* A stage that is off goes from one deferred call to the next. *)
LEMMA DefersKeep ==
  ASSUME Inv, NEW i \in Producers, NEW place,
         \/ pc[i] = "recorded" /\ place = "leaving" /\ cancelled' = TRUE /\ UNCHANGED closed
         \/ pc[i] = "leaving" /\ place = "closing" /\ UNCHANGED <<cancelled, closed>>
         \/ /\ pc[i] = "closing" /\ place = "closed" /\ UNCHANGED cancelled
            /\ closed' = [closed EXCEPT ![i] = TRUE]
         \/ pc[i] = "closed" /\ place = "gone" /\ UNCHANGED <<cancelled, closed>>,
         pc' = [pc EXCEPT ![i] = place],
         UNCHANGED <<feed, values, interrupt, err, fail, early, result>>
  PROVE  Inv'
<1>1. /\ i \in Stages /\ i # N /\ pc'[i] = place
      /\ \A j \in Stages \ {i} : pc'[j] = pc[j]
  BY Numbers DEF Inv, Types
<1>2. Types'
  <2>1. pc' \in [Stages -> Places] /\ closed' \in [Producers -> BOOLEAN]
    BY DEF Inv, Types, Places
  <2>2. cancelled' \in BOOLEAN
    BY DEF Inv, Types
  <2> QED
    BY <2>1, <2>2 DEF Inv, Types, values
<1>3. pc[i] \in Past /\ pc'[i] \in Past
  BY <1>1 DEF Past, Places
<1>4. \A j \in Stages : Through(j)' <=> Through(j)
  BY <1>1, <1>3 DEF Through
<1>5. /\ \A j \in Producers \ {i} : closed'[j] = closed[j]
      /\ closed[i] => closed'[i]
      /\ closed'[i] => closed[i] \/ place = "closed"
  BY DEF Inv, Types
<1>6. \A j \in Stages : Said(j)'
  BY <1>1, <1>5, Numbers DEF Inv, Stage, Said
<1>7. \A j \in Stages : Dry(j)'
  <2>1. \A j \in Producers : closed[j] => closed'[j]
    BY <1>5
  <2>2. \A j \in Stages : j # 1 => j - 1 \in Producers
    BY Numbers
  <2> QED
    BY <1>4, <2>1, <2>2 DEF Inv, Stage, Dry, values
<1>8. \A j \in Stages : Chain(j)'
  <2>1. \A k \in Stages : pc[k] \in Past => pc'[k] \in Past
    BY <1>1, <1>3
  <2>2. \A j \in Stages : \A k \in 1..(j - 1) : k \in Stages
    BY Numbers DEF Stages
  <2> QED
    BY <1>4, <2>1, <2>2 DEF Inv, Stage, Chain
<1>9. Causes'
  <2>1. Ended => Ended'
    BY <1>1, Numbers DEF Ended
  <2>2. cancelled' /\ fail = None => cancelled
    BY <1>1 DEF Inv, Stage, Said
  <2> QED
    BY <2>1, <2>2 DEF Inv, Causes
<1>10. Returned'
  <2>1. result = Running
    <3>1. CASE pc[i] # "gone"
      BY <1>1, <3>1 DEF Inv, Returned
    <3> QED
      BY <3>1
  <2>2. pc'[N] # "gone"
    BY <1>1, <2>1, Numbers DEF Inv, Returned
  <2> QED
    BY <2>1, <2>2 DEF Returned
<1> QED
  BY <1>2, <1>6, <1>7, <1>8, <1>9, <1>10 DEF Inv, Stage

-----------------------------------------------------------------------------
(* The end of the line.                                                    *)

LEMMA StopEarlyKeeps == ASSUME Inv, StopEarly PROVE Inv'
<1>1. /\ pc[N] = "run" /\ early' = TRUE /\ pc' = [pc EXCEPT ![N] = "finished"]
      /\ UNCHANGED <<feed, values, closed, cancelled, interrupt, err, fail, result>>
  BY DEF StopEarly, Goto, values
<1>2. pc'[N] = "finished" /\ \A j \in Stages \ {N} : pc'[j] = pc[j]
  BY <1>1, Numbers DEF Inv, Types
<1>3. Types'
  <2>1. early' \in BOOLEAN
    BY <1>1
  <2> QED
    BY <1>1, <2>1 DEF Inv, Types, Places, values
<1>4. \A j \in Stages : Through(j)' => Through(j)
  BY <1>1, <1>2 DEF Through
<1>5. \A j \in Stages : Said(j)'
  BY <1>1, <1>2, Numbers DEF Inv, Stage, Said
<1>6. \A j \in Stages : Dry(j)'
  BY <1>1, <1>4 DEF Inv, Stage, Dry, values
<1>7. \A j \in Stages : Chain(j)'
  <2>1. \A k \in Stages : pc[k] \in Past => pc'[k] \in Past
    BY <1>2 DEF Past, Places
  <2>2. \A j \in Stages : \A k \in 1..(j - 1) : k \in Stages
    BY Numbers DEF Stages
  <2> QED
    BY <1>1, <1>4, <2>1, <2>2 DEF Inv, Stage, Chain
<1>8. Causes' /\ Returned'
  <2>1. ~Ended /\ result = Running
    BY <1>1, Numbers DEF Ended, Inv, Returned
  <2> QED
    BY <1>1, <1>2, <2>1 DEF Inv, Causes, Returned
<1> QED
  BY <1>3, <1>5, <1>6, <1>7, <1>8 DEF Inv, Stage

LEMMA ReleaseKeeps == ASSUME Inv, Release PROVE Inv'
<1>1. /\ pc[N] = "finished" /\ cancelled' = TRUE /\ pc' = [pc EXCEPT ![N] = "joining"]
      /\ UNCHANGED <<feed, values, closed, interrupt, err, fail, early, result>>
  BY DEF Release, Goto, values
<1>2. pc'[N] = "joining" /\ \A j \in Stages \ {N} : pc'[j] = pc[j]
  BY <1>1, Numbers DEF Inv, Types
<1>3. Types'
  <2>1. cancelled' \in BOOLEAN
    BY <1>1
  <2> QED
    BY <1>1, <2>1 DEF Inv, Types, Places, values
<1>4. \A k \in Stages : pc[k] \in Past <=> pc'[k] \in Past
  BY <1>1, <1>2 DEF Past, Places
<1>5. \A j \in Stages : Through(j)' <=> Through(j)
  BY <1>1, <1>4 DEF Through
<1>6. \A j \in Stages : Said(j)'
  BY <1>1, <1>2, Numbers DEF Inv, Stage, Said
<1>7. \A j \in Stages : Dry(j)'
  BY <1>1, <1>5 DEF Inv, Stage, Dry, values
<1>8. \A j \in Stages : Chain(j)'
  <2>1. \A j \in Stages : \A k \in 1..(j - 1) : k \in Stages
    BY Numbers DEF Stages
  <2> QED
    BY <1>1, <1>4, <1>5, <2>1 DEF Inv, Stage, Chain
<1>9. Causes' /\ Returned'
  <2>1. result = Running
    BY <1>1, Numbers DEF Inv, Returned
  <2>2. fail = None => Ended'
    BY <1>1, <1>2, Numbers DEF Inv, Stage, Said, Ended
  <2>3. Ended => Ended'
    BY <1>1, <1>2 DEF Ended
  <2> QED
    BY <1>1, <1>2, <2>1, <2>2, <2>3 DEF Inv, Causes, Returned
<1> QED
  BY <1>3, <1>6, <1>7, <1>8, <1>9 DEF Inv, Stage

LEMMA ReturnKeeps == ASSUME Inv, Return PROVE Inv'
<1>1. /\ pc[N] = "joining" /\ Joined /\ pc' = [pc EXCEPT ![N] = "gone"]
      /\ result' = (IF fail = None \/ Shutdown THEN Ok ELSE fail)
      /\ UNCHANGED <<feed, values, closed, cancelled, interrupt, err, fail, early>>
  BY DEF Return, Goto, values
<1>2. pc'[N] = "gone" /\ \A j \in Stages \ {N} : pc'[j] = pc[j]
  BY <1>1, Numbers DEF Inv, Types
<1>3. Types'
  BY <1>1 DEF Inv, Types, Places, values
<1>4. \A k \in Stages : pc[k] \in Past <=> pc'[k] \in Past
  BY <1>1, <1>2 DEF Past, Places
<1>5. \A j \in Stages : Through(j)' <=> Through(j)
  BY <1>1, <1>4 DEF Through
<1>6. \A j \in Stages : Said(j)'
  BY <1>1, <1>2, Numbers DEF Inv, Stage, Said
<1>7. \A j \in Stages : Dry(j)'
  BY <1>1, <1>5 DEF Inv, Stage, Dry, values
<1>8. \A j \in Stages : Chain(j)'
  <2>1. \A j \in Stages : \A k \in 1..(j - 1) : k \in Stages
    BY Numbers DEF Stages
  <2> QED
    BY <1>1, <1>4, <1>5, <2>1 DEF Inv, Stage, Chain
<1>9. Causes'
  <2>1. Ended => Ended'
    BY <1>1, <1>2 DEF Ended
  <2> QED
    BY <1>1, <2>1 DEF Inv, Causes
<1>10. Returned'
  <2>1. \A j \in Stages : pc'[j] = "gone"
    BY <1>1, <1>2, Numbers DEF Joined
  <2>2. result' # Running
    <3>1. fail = None \/ fail.stage # 0
      BY Numbers DEF Inv, Causes
    <3> QED
      BY <1>1, <3>1 DEF Ok, Running
  <2> QED
    BY <1>1, <1>2, <2>1, <2>2 DEF Returned, Shutdown
<1> QED
  BY <1>3, <1>6, <1>7, <1>8, <1>9, <1>10 DEF Inv, Stage

LEMMA CtrlCKeeps == ASSUME Inv, CtrlC PROVE Inv'
<1>1. /\ result = Running /\ interrupt' = TRUE
      /\ UNCHANGED <<feed, pc, values, closed, cancelled, err, fail, early, result>>
  BY DEF CtrlC, values
<1>2. Types'
  <2>1. interrupt' \in BOOLEAN
    BY <1>1
  <2> QED
    BY <1>1, <2>1 DEF Inv, Types, values
<1>3. \A j \in Stages : Stage(j)'
  BY <1>1 DEF Inv, Stage, Said, Dry, Chain, Through, values
<1>4. Causes' /\ Returned'
  BY <1>1 DEF Inv, Causes, Ended, Returned
<1> QED
  BY <1>2, <1>3, <1>4 DEF Inv

-----------------------------------------------------------------------------
(* The values on their way.                                                *)

LEMMA Taken ==
  ASSUME NEW V, NEW s \in Seq(V), s # <<>>
  PROVE  /\ Head(s) \in V /\ Tail(s) \in Seq(V) /\ s = <<Head(s)>> \o Tail(s)
BY HeadTailProperties, ConcatProperties, SeqEqual

(* The first of what is on the way arrives ... *)
LEMMA Arrives ==
  ASSUME NEW V, NEW a \in Seq(V), NEW b \in Seq(V), NEW c \in Seq(V), b # <<>>
  PROVE  /\ Append(a, Head(b)) \in Seq(V)
         /\ (a \o b) \o c = (Append(a, Head(b)) \o Tail(b)) \o c
<1> DEFINE h == <<Head(b)>>
           r == Tail(b)
<1>1. Head(b) \in V /\ b = h \o r
  BY Taken
<1>2. h \in Seq(V) /\ r \in Seq(V)
  BY Taken
<1>3. Append(a, Head(b)) = a \o h /\ Append(a, Head(b)) \in Seq(V)
  BY <1>1, AppendProperties
<1> HIDE DEF h, r
<1>4. (a \o h) \o r = a \o (h \o r)
  BY <1>2, ConcatAssociative, SMTT(30)
<1>5. Append(a, Head(b)) \o r = a \o b
  BY <1>1, <1>3, <1>4
<1> QED
  BY <1>3, <1>5 DEF r

(* ... or the first of what is to be sent is on its way. *)
LEMMA Departs ==
  ASSUME NEW V, NEW a \in Seq(V), NEW b \in Seq(V), NEW c \in Seq(V), c # <<>>
  PROVE  /\ Append(b, Head(c)) \in Seq(V)
         /\ (a \o b) \o c = (a \o Append(b, Head(c))) \o Tail(c)
<1>1. Head(c) \in V /\ Tail(c) \in Seq(V) /\ c = <<Head(c)>> \o Tail(c)
  BY Taken
<1>2. <<Head(c)>> \in Seq(V)
  BY <1>1
<1>3. Append(b, Head(c)) = b \o <<Head(c)>> /\ Append(b, Head(c)) \in Seq(V)
  BY <1>1, AppendProperties
<1>4. ASSUME NEW h \in Seq(V), NEW r \in Seq(V)
      PROVE  (a \o b) \o (h \o r) = (a \o (b \o h)) \o r
  <2> DEFINE m == a \o b
  <2>1. m \in Seq(V)
    BY ConcatProperties
  <2>2. m \o h = a \o (b \o h)
    BY ConcatAssociative, SMTT(30)
  <2> HIDE DEF m
  <2>3. (m \o h) \o r = m \o (h \o r)
    BY <2>1, ConcatAssociative, SMTT(30)
  <2> QED
    BY <2>2, <2>3 DEF m
<1>5. (a \o b) \o (<<Head(c)>> \o Tail(c)) = (a \o (b \o <<Head(c)>>)) \o Tail(c)
  BY <1>1, <1>2, <1>4, Zenon
<1> QED
  BY <1>1, <1>3, <1>5, Zenon

(* got[i] is what stage i has read so far: what it made of that is what the next
   has read, what is in the channel between them and what is still to be sent. *)
Flows(got) ==
  /\ got[1] = SubSeq(Source, 1, given)
  /\ \A i \in Producers : Image(i, got[i]) = (got[i + 1] \o chan[i]) \o pend[i]
  /\ out = Image(N, got[N])

Flow == \E got \in [Stages -> Seq(Values)] : Flows(got)

LEMMA FlowInitially == Init => Flow
<1> SUFFICES ASSUME Init PROVE Flow
  OBVIOUS
<1> DEFINE got == [i \in Stages |-> <<>>]
<1>1. got \in [Stages -> Seq(Values)] /\ \A i \in Stages : got[i] = <<>>
  OBVIOUS
<1> HIDE DEF got
<1>2. SubSeq(Source, 1, 0) = <<>>
  <2>1. Source \in Seq(Values) /\ 0 \in Nat /\ 0 =< Len(Source)
    BY PipelineAssumption
  <2>2. SubSeq(Source, 1, 0) \in Seq(Values) /\ Len(SubSeq(Source, 1, 0)) = 0
    BY <2>1, Sliced
  <2> QED
    BY <2>2, EmptySeq
<1>3. \A i \in Stages : Image(i, <<>>) = <<>>
  BY DEF Image, FlattenSeq
<1>4. (<<>> \o <<>>) \o <<>> = <<>>
  OBVIOUS
<1> QED
  BY <1>1, <1>2, <1>3, <1>4, Numbers DEF Init, Flows, Flow

LEMMA ProduceFlows == ASSUME Types, Flow, Produce PROVE Types' /\ Flow'
<1>1. CASE given < Len(Source)
  <2> DEFINE v == Source[given + 1]
  <2>1. /\ pend[1] = <<>> /\ given' = given + 1 /\ pend' = [pend EXCEPT ![1] = <<v>>]
        /\ UNCHANGED <<feed, pc, chan, closed, cancelled, interrupt, err, early, out>>
    BY <1>1 DEF Produce
  <2>2. given \in Nat /\ given + 1 =< Len(Source) /\ Source \in Seq(Values)
    BY <1>1, PipelineAssumption DEF Types
  <2>3. v \in Values /\ SubSeq(Source, 1, given + 1) = Append(SubSeq(Source, 1, given), v)
    BY <2>2, OneMore
  <2> HIDE DEF v
  <2>4. Types'
    BY <2>1, <2>2, <2>3, Numbers, SMTT(30) DEF Types
  <2>5. PICK got \in [Stages -> Seq(Values)] : Flows(got)
    BY DEF Flow
  <2>6. 1 \in Stages /\ got[1] \in Seq(Values)
    BY Numbers
  <2>7. Append(got[1], v) \in Seq(Values) /\ Append(got[1], v) = got[1] \o <<v>>
    BY <2>3, <2>6, AppendProperties
  <2>8. PICK more \in [Stages -> Seq(Values)] :
             more[1] = Append(got[1], v) /\ \A i \in Stages \ {1} : more[i] = got[i]
    <3> DEFINE grown == [got EXCEPT ![1] = Append(@, v)]
    <3>1. /\ grown \in [Stages -> Seq(Values)] /\ grown[1] = Append(got[1], v)
          /\ \A i \in Stages \ {1} : grown[i] = got[i]
      BY <2>6, <2>7
    <3> HIDE DEF grown
    <3> QED
      BY <3>1
  <2>9. pend'[1] = <<v>> /\ \A i \in Producers \ {1} : pend'[i] = pend[i]
    BY <2>1, Numbers DEF Types
  <2>10. Image(1, more[1]) = (more[2] \o chan'[1]) \o pend'[1]
    <3> DEFINE sent == got[2] \o chan[1]
    <3>1. 2 \in Stages /\ got[2] \in Seq(Values) /\ chan[1] \in Seq(Values)
      BY <2>5, Numbers DEF Types, Stages
    <3>2. got[1] = sent \o <<>>
      <4>1. Image(1, got[1]) = (got[1 + 1] \o chan[1]) \o pend[1]
        BY <2>5, Numbers DEF Flows
      <4>2. Image(1, got[1]) = got[1] /\ 1 + 1 = 2
        BY DEF Image
      <4>3. got[1] = (got[2] \o chan[1]) \o pend[1]
        BY <4>1, <4>2
      <4> QED
        BY <2>1, <4>3
    <3>3. sent \in Seq(Values)
      BY <3>1, ConcatProperties
    <3>4. sent \o <<>> = sent
      <4> HIDE DEF sent
      <4> QED
        BY <3>3, ConcatEmptySeq
    <3>5. got[1] = sent
      BY <3>2, <3>4
    <3>6. Image(1, more[1]) = sent \o <<v>>
      BY <2>7, <2>8, <3>5 DEF Image
    <3>7. chan'[1] = chan[1] /\ more[2] = got[2]
      BY <2>1, <2>8, <3>1
    <3> QED
      BY <2>9, <3>6, <3>7
  <2>11. \A i \in Producers \ {1} : Image(i, more[i]) = (more[i + 1] \o chan'[i]) \o pend'[i]
    BY <2>1, <2>5, <2>8, <2>9, Numbers DEF Flows
  <2>12. out' = Image(N, more[N])
    BY <2>1, <2>5, <2>8, Numbers DEF Flows
  <2>13. more[1] = SubSeq(Source, 1, given')
    <3>1. got[1] = SubSeq(Source, 1, given)
      BY <2>5 DEF Flows
    <3>2. more[1] = Append(SubSeq(Source, 1, given), v)
      BY <2>8, <3>1
    <3> QED
      BY <2>1, <2>3, <3>2
  <2>14. \A i \in Producers : Image(i, more[i]) = (more[i + 1] \o chan'[i]) \o pend'[i]
    <3>1. ASSUME NEW i \in Producers, i = 1
          PROVE  Image(i, more[i]) = (more[i + 1] \o chan'[i]) \o pend'[i]
      <4>1. i + 1 = 2
        BY <3>1
      <4> QED
        BY <2>10, <3>1, <4>1, Zenon
    <3> QED
      BY <2>11, <3>1
  <2>15. Flows(more)'
    BY <2>12, <2>13, <2>14 DEF Flows
  <2> QED
    BY <2>4, <2>8, <2>15 DEF Flow
<1>2. CASE ~(given < Len(Source))
  <2>1. /\ pc' = [pc EXCEPT ![1] = "leaving"]
        /\ UNCHANGED <<feed, given, pend, chan, closed, cancelled, interrupt, err, early, out>>
    BY <1>2 DEF Produce, Goto
  <2> QED
    BY <2>1 DEF Types, Places, Flow, Flows
<1> QED
  BY <1>1, <1>2

(* A stage of the middle and the last one take a value from their channel. *)
LEMMA TakeFlows ==
  ASSUME Types, NEW got \in [Stages -> Seq(Values)], Flows(got),
         NEW i \in Stages, i # 1, chan[i - 1] # <<>>,
         chan' = [chan EXCEPT ![i - 1] = Tail(@)], given' = given,
         i # N => pend[i] = <<>> /\ pend' = [pend EXCEPT ![i] = Outs[i][Head(chan[i - 1])]],
         i = N => pend' = pend,
         out' = IF i = N THEN out \o Outs[i][Head(chan[i - 1])] ELSE out
  PROVE  /\ chan' \in [Producers -> Seq(Values)] /\ pend' \in [Producers -> Seq(Values)]
         /\ out' \in Seq(Values) /\ Flow'
<1> DEFINE j == i - 1
           v == Head(chan[j])
<1>1. /\ j \in Producers /\ j \in Stages /\ j # i /\ j + 1 = i /\ j # N
      /\ chan[j] \in Seq(Values) /\ chan[j] # <<>>
  BY Numbers DEF Types
<1>2. v \in Values /\ Tail(chan[j]) \in Seq(Values)
  <2> HIDE DEF j
  <2> QED
    BY <1>1, Taken
<1>3. Outs[i][v] \in Seq(Values)
  BY <1>2, PipelineAssumption DEF Stages
<1>4. chan'[j] = Tail(chan[j]) /\ \A k \in Producers \ {j} : chan'[k] = chan[k]
  BY <1>1 DEF Types
<1>5. chan' \in [Producers -> Seq(Values)]
  BY <1>2 DEF Types
<1> HIDE DEF j
<1>6. pend' \in [Producers -> Seq(Values)]
  BY <1>3 DEF Types, j
<1>7. out' \in Seq(Values)
  BY <1>3, ConcatProperties DEF Types, j
<1>8. /\ \A k \in Producers \ {i} : pend'[k] = pend[k]
      /\ i # N => pend'[i] = Outs[i][v]
  BY Numbers DEF Types, j
<1> HIDE DEF v
<1>9. /\ got[i] \in Seq(Values) /\ Append(got[i], v) \in Seq(Values)
  BY <1>2, Appended
<1>10. PICK more \in [Stages -> Seq(Values)] :
            more[i] = Append(got[i], v) /\ \A k \in Stages \ {i} : more[k] = got[k]
  <2> DEFINE grown == [got EXCEPT ![i] = Append(@, v)]
  <2>1. /\ grown \in [Stages -> Seq(Values)] /\ grown[i] = Append(got[i], v)
        /\ \A k \in Stages \ {i} : grown[k] = got[k]
    BY <1>9
  <2> HIDE DEF grown
  <2> QED
    BY <2>1
<1>11. Image(i, more[i]) = Image(i, got[i]) \o Outs[i][v]
  <2>1. Image(i, Append(got[i], v)) = Image(i, got[i]) \o (IF i = 1 THEN <<v>> ELSE Outs[i][v])
    BY <1>2, <1>9, ImageGrows
  <2>2. i # 1
    OBVIOUS
  <2> QED
    BY <1>10, <2>1, <2>2
<1>12. ASSUME NEW k \in Producers
       PROVE  Image(k, more[k]) = (more[k + 1] \o chan'[k]) \o pend'[k]
  <2>1. /\ Image(k, got[k]) = (got[k + 1] \o chan[k]) \o pend[k]
        /\ k \in Stages /\ k + 1 \in Stages /\ k # k + 1
        /\ got[k + 1] \in Seq(Values) /\ chan[k] \in Seq(Values) /\ pend[k] \in Seq(Values)
    <3>1. Image(k, got[k]) = (got[k + 1] \o chan[k]) \o pend[k]
      BY DEF Flows
    <3>2. k \in Stages /\ k + 1 \in Stages /\ k # k + 1
      BY Numbers
    <3>3. chan[k] \in Seq(Values) /\ pend[k] \in Seq(Values)
      BY DEF Types
    <3> QED
      BY <3>1, <3>2, <3>3
  <2>2. CASE k = j
    <3>1. (got[i] \o chan[j]) \o pend[j] = (Append(got[i], v) \o Tail(chan[j])) \o pend[j]
      <4> DEFINE a == got[i]
                 b == chan[j]
                 c == pend[j]
      <4>1. a \in Seq(Values) /\ b \in Seq(Values) /\ c \in Seq(Values) /\ b # <<>>
        BY <1>1, <1>9, <2>1, <2>2
      <4>2. v = Head(b)
        BY DEF v
      <4>3. \A x, y, z \in Seq(Values) :
              y # <<>> => (x \o y) \o z = (Append(x, Head(y)) \o Tail(y)) \o z
        BY Arrives, SMTT(30)
      <4> HIDE DEF a, b, c
      <4>4. (a \o b) \o c = (Append(a, Head(b)) \o Tail(b)) \o c
        BY <4>1, <4>3, Zenon
      <4> QED
        BY <4>2, <4>4 DEF a, b, c
    <3> QED
      BY <1>1, <1>4, <1>8, <1>10, <2>1, <2>2, <3>1
  <2>3. CASE k = i
    <3>1. /\ i # N /\ pend[i] = <<>> /\ pend'[i] = Outs[i][v]
          /\ i + 1 # i /\ i # j
      <4>1. i # N /\ i + 1 # i /\ i # j
        BY <1>1, <2>3, Numbers
      <4> QED
        BY <1>8, <4>1
    <3>2. got[i + 1] \o chan[i] \in Seq(Values)
      BY <2>1, <2>3, ConcatProperties
    <3>3. Image(i, got[i]) = got[i + 1] \o chan[i]
      BY <2>1, <2>3, <3>1, <3>2, ConcatEmptySeq
    <3>4. more[i + 1] = got[i + 1] /\ chan'[i] = chan[i]
      BY <1>4, <1>10, <2>1, <2>3, <3>1
    <3> QED
      BY <1>11, <2>3, <3>1, <3>3, <3>4
  <2>4. CASE k # j /\ k # i
    <3>1. k + 1 # i
      BY <2>4, Numbers DEF j
    <3> QED
      BY <1>4, <1>8, <1>10, <2>1, <2>4, <3>1
  <2> QED
    BY <2>2, <2>3, <2>4
<1>13. out' = Image(N, more[N])
  <2>1. CASE i = N
    <3>1. out' = out \o Outs[i][v]
      BY <2>1 DEF v, j
    <3> QED
      BY <1>11, <2>1, <3>1 DEF Flows
  <2>2. CASE i # N
    BY <1>10, <2>2, Numbers DEF Flows
  <2> QED
    BY <2>1, <2>2
<1>14. more[1] = SubSeq(Source, 1, given')
  BY <1>10, Numbers DEF Flows
<1> QED
  BY <1>5, <1>6, <1>7, <1>10, <1>12, <1>13, <1>14 DEF Flows, Flow

LEMMA SendFlows ==
  ASSUME Types, NEW got \in [Stages -> Seq(Values)], Flows(got),
         NEW i \in Producers, pend[i] # <<>>,
         chan' = [chan EXCEPT ![i] = Append(@, Head(pend[i]))],
         pend' = [pend EXCEPT ![i] = Tail(@)],
         given' = given, out' = out
  PROVE  /\ chan' \in [Producers -> Seq(Values)] /\ pend' \in [Producers -> Seq(Values)]
         /\ Flow'
<1>1. /\ chan'[i] = Append(chan[i], Head(pend[i])) /\ pend'[i] = Tail(pend[i])
      /\ \A k \in Producers \ {i} : chan'[k] = chan[k] /\ pend'[k] = pend[k]
  BY DEF Types
<1>2. got[i + 1] \in Seq(Values) /\ chan[i] \in Seq(Values) /\ pend[i] \in Seq(Values)
  BY Numbers DEF Types
<1>3. Tail(pend[i]) \in Seq(Values)
  <2> DEFINE c == pend[i]
  <2>1. c \in Seq(Values) /\ c # <<>>
    BY <1>2
  <2> HIDE DEF c
  <2>2. Tail(c) \in Seq(Values)
    BY <2>1, Taken
  <2> QED
    BY <2>2 DEF c
<1>4. \A a, b, c \in Seq(Values) :
        c # <<>> => /\ Append(b, Head(c)) \in Seq(Values)
                    /\ (a \o b) \o c = (a \o Append(b, Head(c))) \o Tail(c)
  BY Departs, SMTT(30)
<1>5. /\ Append(chan[i], Head(pend[i])) \in Seq(Values)
      /\ (got[i + 1] \o chan[i]) \o pend[i]
           = (got[i + 1] \o Append(chan[i], Head(pend[i]))) \o Tail(pend[i])
  BY <1>2, <1>4, ZenonT(60)
<1>6. Image(i, got[i]) = (got[i + 1] \o chan'[i]) \o pend'[i]
  <2>1. Image(i, got[i]) = (got[i + 1] \o chan[i]) \o pend[i]
    BY DEF Flows
  <2> QED
    BY <1>1, <1>5, <2>1, Zenon
<1>7. \A k \in Producers : Image(k, got[k]) = (got[k + 1] \o chan'[k]) \o pend'[k]
  BY <1>1, <1>6 DEF Flows
<1>8. Flow'
  BY <1>7 DEF Flows, Flow
<1>9. chan' \in [Producers -> Seq(Values)]
  BY <1>5 DEF Types
<1>10. pend' \in [Producers -> Seq(Values)]
  BY <1>3 DEF Types
<1> QED
  BY <1>8, <1>9, <1>10

(* A step that moves no value. *)
LEMMA StillFlows == ASSUME Flow, UNCHANGED values PROVE Flow'
BY DEF Flow, Flows, values

-----------------------------------------------------------------------------
(* Every step keeps both.                                                  *)

Sound == Inv /\ Flow

LEMMA ProduceSound == ASSUME Sound, Produce PROVE Sound'
<1>1. Types' /\ Flow'
  BY ProduceFlows DEF Sound, Inv
<1>2. CASE given < Len(Source)
  <2>1. /\ pc[1] = "run" /\ pend' = [pend EXCEPT ![1] = <<Source[given + 1]>>] /\ chan' = chan
        /\ Calm
    BY <1>2 DEF Produce, Calm
  <2>2. \A j \in Producers \ {1} : pend'[j] = pend[j]
    BY <2>1 DEF Sound, Inv, Types
  <2>3. 1 \in Stages
    BY Numbers
  <2>4. Inv'
    BY <1>1, <2>1, <2>2, <2>3, MoveKeeps DEF Sound
  <2> QED
    BY <1>1, <2>4 DEF Sound
<1>3. CASE ~(given < Len(Source))
  <2>1. given = Len(Source)
    BY <1>3, PipelineAssumption DEF Sound, Inv, Types
  <2>2. /\ pc[1] = "run" /\ pend[1] = <<>> /\ feed = "finite"
        /\ pc' = [pc EXCEPT ![1] = "leaving"]
        /\ UNCHANGED <<feed, values, closed, cancelled, interrupt, err, fail, early, result>>
    BY <1>3 DEF Produce, Goto, values
  <2>3. 1 \in Stages /\ 1 # N
    BY Numbers
  <2>4. Inv'
    BY <2>1, <2>2, <2>3, LeavesKeeps DEF Sound
  <2> QED
    BY <1>1, <2>4 DEF Sound
<1> QED
  BY <1>2, <1>3

LEMMA ReceiveSound == ASSUME Sound, NEW i \in Stages, Receive(i) PROVE Sound'
<1>1. i # 1 /\ i # N /\ pc[i] = "run" /\ pend[i] = <<>>
  BY Numbers DEF Receive
<1>2. PICK got \in [Stages -> Seq(Values)] : Flows(got)
  BY DEF Sound, Flow
<1>3. CASE chan[i - 1] # <<>>
  <2>1. /\ pend' = [pend EXCEPT ![i] = Outs[i][Head(chan[i - 1])]]
        /\ chan' = [chan EXCEPT ![i - 1] = Tail(@)]
        /\ given' = given /\ out' = out /\ Calm
    BY <1>3 DEF Receive, Calm
  <2>2. out' = IF i = N THEN out \o Outs[i][Head(chan[i - 1])] ELSE out
    BY <1>1, <2>1
  <2>3. Types
    BY DEF Sound, Inv
  <2>4. /\ chan' \in [Producers -> Seq(Values)] /\ pend' \in [Producers -> Seq(Values)]
        /\ Flow'
    BY <1>1, <1>2, <1>3, <2>1, <2>2, <2>3, TakeFlows
  <2>5. Types'
    BY <2>1, <2>3, <2>4 DEF Types, Calm
  <2>6. /\ \A j \in Producers \ {i} : pend'[j] = pend[j]
        /\ \A j \in Producers \ {i, i - 1} : chan'[j] = chan[j]
    BY <2>1, <2>3 DEF Types
  <2>7. Inv'
    BY <1>1, <2>1, <2>5, <2>6, MoveKeeps DEF Sound
  <2> QED
    BY <2>4, <2>7 DEF Sound
<1>4. CASE ~(chan[i - 1] # <<>>)
  <2>1. /\ chan[i - 1] = <<>> /\ closed[i - 1] /\ pc' = [pc EXCEPT ![i] = "leaving"]
        /\ UNCHANGED <<feed, values, closed, cancelled, interrupt, err, fail, early, result>>
    BY <1>4 DEF Receive, Goto, values
  <2>2. Inv'
    BY <1>1, <2>1, LeavesKeeps DEF Sound
  <2>3. Flow'
    BY <2>1, StillFlows DEF Sound
  <2> QED
    BY <2>2, <2>3 DEF Sound
<1> QED
  BY <1>3, <1>4

LEMMA SendSound == ASSUME Sound, NEW i \in Stages, Send(i) PROVE Sound'
<1>1. /\ i \in Producers /\ pc[i] = "run" /\ pend[i] # <<>>
      /\ chan' = [chan EXCEPT ![i] = Append(@, Head(pend[i]))]
      /\ pend' = [pend EXCEPT ![i] = Tail(@)]
      /\ given' = given /\ out' = out /\ Calm
  BY DEF Send, Calm
<1>2. PICK got \in [Stages -> Seq(Values)] : Flows(got)
  BY DEF Sound, Flow
<1>3. Types
  BY DEF Sound, Inv
<1>4. /\ chan' \in [Producers -> Seq(Values)] /\ pend' \in [Producers -> Seq(Values)]
      /\ Flow'
  BY <1>1, <1>2, <1>3, SendFlows
<1>5. Types'
  BY <1>1, <1>3, <1>4 DEF Types, Calm
<1>6. \A j \in Producers \ {i} : pend'[j] = pend[j] /\ chan'[j] = chan[j]
  BY <1>1, <1>3 DEF Types
<1>7. Inv'
  BY <1>1, <1>5, <1>6, MoveKeeps DEF Sound
<1> QED
  BY <1>4, <1>7 DEF Sound

LEMMA WriteSound == ASSUME Sound, Write PROVE Sound'
<1>1. N \in Stages /\ N # 1 /\ pc[N] = "run"
  BY Numbers DEF Write
<1>2. PICK got \in [Stages -> Seq(Values)] : Flows(got)
  BY DEF Sound, Flow
<1>3. CASE chan[N - 1] # <<>>
  <2>1. /\ out' = out \o Outs[N][Head(chan[N - 1])]
        /\ chan' = [chan EXCEPT ![N - 1] = Tail(@)]
        /\ given' = given /\ pend' = pend /\ Calm
    BY <1>3 DEF Write, Calm
  <2>2. Types
    BY DEF Sound, Inv
  <2>3. /\ chan' \in [Producers -> Seq(Values)] /\ pend' \in [Producers -> Seq(Values)]
        /\ out' \in Seq(Values) /\ Flow'
    BY <1>1, <1>2, <1>3, <2>1, <2>2, TakeFlows
  <2>4. Types'
    BY <2>1, <2>2, <2>3 DEF Types, Calm
  <2>5. /\ \A j \in Producers \ {N} : pend'[j] = pend[j]
        /\ \A j \in Producers \ {N, N - 1} : chan'[j] = chan[j]
    BY <2>1, <2>2 DEF Types
  <2>6. Inv'
    BY <1>1, <2>1, <2>4, <2>5, MoveKeeps DEF Sound
  <2> QED
    BY <2>3, <2>6 DEF Sound
<1>4. CASE ~(chan[N - 1] # <<>>)
  <2>1. /\ chan[N - 1] = <<>> /\ closed[N - 1] /\ pc' = [pc EXCEPT ![N] = "finished"]
        /\ UNCHANGED <<feed, values, closed, cancelled, interrupt, err, fail, early, result>>
    BY <1>4 DEF Write, Goto, values
  <2>2. Inv'
    BY <1>1, <2>1, LeavesKeeps DEF Sound
  <2>3. Flow'
    BY <2>1, StillFlows DEF Sound
  <2> QED
    BY <2>2, <2>3 DEF Sound
<1> QED
  BY <1>3, <1>4

LEMMA StepSound == ASSUME Sound, NEW i \in Stages, Step(i) PROVE Sound'
<1> USE DEF Sound
<1>1. CASE Report(i)
  <2>1. /\ pc[i] = "start" /\ pc' = [pc EXCEPT ![i] = "run"]
        /\ UNCHANGED <<feed, values, closed, cancelled, interrupt, err, fail, early, result>>
    BY <1>1 DEF Report, Goto, values
  <2> QED
    BY <2>1, StartsKeeps, StillFlows
<1>2. CASE Receive(i)
  BY <1>2, ReceiveSound
<1>3. CASE Send(i)
  BY <1>3, SendSound
<1>4. CASE Notice(i)
  <2>1. /\ pc[i] \in {"start", "run"} /\ Done /\ Fails(i, "cancelled")
        /\ UNCHANGED <<feed, values, closed, cancelled, interrupt, fail, early, result>>
    BY <1>4 DEF Notice, Notices, values
  <2> QED
    BY <2>1, FailsKeeps, StillFlows
<1>5. CASE Record(i)
  <2>1. UNCHANGED values
    BY <1>5 DEF Record, values
  <2> QED
    BY <1>5, <2>1, RecordKeeps, StillFlows
<1>6. CASE Cancel(i)
  <2>1. /\ i \in Producers /\ pc[i] = "recorded" /\ cancelled' = TRUE
        /\ pc' = [pc EXCEPT ![i] = "leaving"]
        /\ UNCHANGED <<closed, feed, values, interrupt, err, fail, early, result>>
    BY <1>6 DEF Cancel, Goto, values
  <2> QED
    BY <2>1, DefersKeep, StillFlows
<1>7. CASE Leave(i)
  <2>1. /\ i \in Producers /\ pc[i] = "leaving" /\ pc' = [pc EXCEPT ![i] = "closing"]
        /\ UNCHANGED <<cancelled, closed, feed, values, interrupt, err, fail, early, result>>
    BY <1>7 DEF Leave, Goto, values
  <2> QED
    BY <2>1, DefersKeep, StillFlows
<1>8. CASE CloseChan(i)
  <2>1. /\ i \in Producers /\ pc[i] = "closing" /\ pc' = [pc EXCEPT ![i] = "closed"]
        /\ closed' = [closed EXCEPT ![i] = TRUE]
        /\ UNCHANGED <<cancelled, feed, values, interrupt, err, fail, early, result>>
    BY <1>8 DEF CloseChan, Goto, values
  <2> QED
    BY <2>1, DefersKeep, StillFlows
<1>9. CASE SignOff(i)
  <2>1. /\ i \in Producers /\ pc[i] = "closed" /\ pc' = [pc EXCEPT ![i] = "gone"]
        /\ UNCHANGED <<cancelled, closed, feed, values, interrupt, err, fail, early, result>>
    BY <1>9 DEF SignOff, Goto, values
  <2> QED
    BY <2>1, DefersKeep, StillFlows
<1>10. CASE i = 1 /\ Produce
  BY <1>10, ProduceSound
<1>11. CASE Decide
  <2>1. /\ pc[N] = "start" /\ pc' = [pc EXCEPT ![N] = "run"]
        /\ UNCHANGED <<feed, values, closed, cancelled, interrupt, err, fail, early, result>>
    BY <1>11 DEF Decide, Goto, values
  <2>2. N \in Stages
    BY Numbers
  <2> QED
    BY <2>1, <2>2, StartsKeeps, StillFlows
<1>12. CASE Write
  BY <1>12, WriteSound
<1>13. CASE Release
  <2>1. UNCHANGED values
    BY <1>13 DEF Release, values
  <2> QED
    BY <1>13, <2>1, ReleaseKeeps, StillFlows
<1>14. CASE Return
  <2>1. UNCHANGED values
    BY <1>14 DEF Return, values
  <2> QED
    BY <1>14, <2>1, ReturnKeeps, StillFlows
<1> QED
  BY <1>1, <1>2, <1>3, <1>4, <1>5, <1>6, <1>7, <1>8, <1>9, <1>10, <1>11, <1>12, <1>13, <1>14
     DEF Step

LEMMA EveryStep == ASSUME Sound, [Next]_vars PROVE Sound'
<1>1. ASSUME NEW i \in Stages, Step(i) PROVE Sound'
  BY <1>1, StepSound
<1>2. ASSUME NEW i \in Stages, FailsItself(i) PROVE Sound'
  <2>1. /\ pc[i] \in {"start", "run"} /\ Fails(i, "own")
        /\ UNCHANGED <<feed, values, closed, cancelled, interrupt, fail, early, result>>
    BY <1>2 DEF FailsItself, values
  <2> QED
    BY <1>2, <2>1, FailsKeeps, StillFlows DEF Sound
<1>3. CASE StopEarly
  <2>1. UNCHANGED values
    BY <1>3 DEF StopEarly, values
  <2> QED
    BY <1>3, <2>1, StopEarlyKeeps, StillFlows DEF Sound
<1>4. CASE CtrlC
  <2>1. UNCHANGED values
    BY <1>4 DEF CtrlC, values
  <2> QED
    BY <1>4, <2>1, CtrlCKeeps, StillFlows DEF Sound
<1>5. CASE UNCHANGED vars
  <2>1. Calm /\ UNCHANGED values
    BY <1>5 DEF vars, Calm, values
  <2>2. Types'
    BY <2>1 DEF Sound, Inv, Types, Calm, values
  <2>3. \A j \in Stages : Dry(j)'
    BY <2>1 DEF Sound, Inv, Stage, Dry, Through, Calm, values
  <2> QED
    BY <2>1, <2>2, <2>3, CalmKeeps, StillFlows DEF Sound
<1> QED
  BY <1>1, <1>2, <1>3, <1>4, <1>5 DEF Next

LEMMA AlwaysSound == Spec => []Sound
<1>1. Init => Sound
  BY Initially, FlowInitially DEF Sound
<1>2. Sound /\ [Next]_vars => Sound'
  BY EveryStep
<1> QED
  BY <1>1, <1>2, PTL DEF Spec

-----------------------------------------------------------------------------
(* What is written.                                                        *)

LEMMA BeginsBegins ==
  ASSUME NEW V, NEW r \in Seq(V), NEW s \in Seq(V), NEW t \in Seq(V), Begins(r, s), Begins(s, t)
  PROVE  Begins(r, t)
<1>1. Len(r) \in Nat /\ Len(s) \in Nat /\ Len(t) \in Nat
  OBVIOUS
<1> QED
  BY <1>1 DEF Begins

LEMMA BeginsIsPrefix ==
  ASSUME NEW V, NEW s \in Seq(V), NEW t \in Seq(V), Begins(s, t)
  PROVE  IsPrefix(s, t)
<1> DEFINE n == Len(s)
<1>1. n \in Nat /\ n =< Len(s) /\ n =< Len(t) /\ \A k \in 1..n : s[k] = t[k]
  BY DEF Begins
<1> HIDE DEF n
<1> DEFINE a == SubSeq(s, 1, n)
           b == SubSeq(t, 1, n)
<1>2. a \in Seq(V) /\ Len(a) = n /\ \A k \in 1..n : a[k] = s[k]
  BY <1>1, Sliced
<1>3. b \in Seq(V) /\ Len(b) = n /\ \A k \in 1..n : b[k] = t[k]
  BY <1>1, Sliced
<1> HIDE DEF a, b
<1>4. a = b
  BY <1>1, <1>2, <1>3, SeqEqual
<1> QED
  BY <1>1, <1>4 DEF IsPrefix, a, b, n

(* What the next stage has read is the beginning of what stage i made ... *)
LEMMA ReadsInOrder ==
  ASSUME Types, NEW got \in [Stages -> Seq(Values)], Flows(got), NEW i \in Producers
  PROVE  Begins(got[i + 1], Image(i, got[i]))
<1> DEFINE a == got[i + 1]
           b == chan[i]
           c == pend[i]
           m == a \o b
<1>1. a \in Seq(Values) /\ b \in Seq(Values) /\ c \in Seq(Values)
  BY Numbers DEF Types
<1>2. Image(i, got[i]) = m \o c
  BY DEF Flows
<1> HIDE DEF a, b, c
<1>3. m \in Seq(Values) /\ Begins(a, m)
  BY <1>1, Extended, ConcatProperties
<1> HIDE DEF m
<1>4. m \o c \in Seq(Values) /\ Begins(m, m \o c)
  BY <1>1, <1>3, Extended, ConcatProperties
<1> DEFINE w == m \o c
<1> HIDE DEF w
<1>5. w \in Seq(Values) /\ Begins(m, w)
  BY <1>4 DEF w
<1>6. Begins(a, w)
  BY <1>1, <1>3, <1>5, BeginsBegins
<1> QED
  BY <1>2, <1>6 DEF a, w

(* ... and that is the beginning of what it makes of the whole source. *)
LEMMA MakesInOrder ==
  ASSUME Types, NEW got \in [Stages -> Seq(Values)], Flows(got)
  PROVE  \A i \in Stages : Begins(Image(i, got[i]), Made[i])
<1> DEFINE T == {n \in Nat : n \in Stages => Begins(Image(n, got[n]), Made[n])}
<1>1. 0 \in T
  BY DEF Stages
<1>2. ASSUME NEW n \in Nat, n \in T PROVE n + 1 \in T
  <2>1. SUFFICES ASSUME n + 1 \in Stages PROVE Begins(Image(n + 1, got[n + 1]), Made[n + 1])
    OBVIOUS
  <2>2. CASE n = 0
    <3>1. Image(n + 1, got[n + 1]) = SubSeq(Source, 1, given) /\ Made[n + 1] = Source
      BY <2>2, MadeIs DEF Image, Flows
    <3>2. given \in Nat /\ given =< Len(Source) /\ Source \in Seq(Values)
      BY PipelineAssumption DEF Types
    <3>3. Begins(SubSeq(Source, 1, given), Source)
      BY <3>2, Sliced DEF Begins
    <3> QED
      BY <3>1, <3>3
  <2>3. CASE n # 0
    <3>1. n \in Stages /\ n \in Producers /\ n + 1 \in 2..N /\ n + 1 - 1 = n
      BY <2>1, <2>3, PipelineAssumption DEF Stages, Producers
    <3> DEFINE read == got[n + 1]
               made == Image(n, got[n])
    <3>2. read \in Seq(Values) /\ made \in Seq(Values) /\ Made[n] \in Seq(Values)
      BY <2>1, <3>1, ImageTypes, MadeIs
    <3>3. Begins(read, made)
      BY <3>1, ReadsInOrder
    <3>4. Begins(made, Made[n])
      BY <1>2, <3>1
    <3> HIDE DEF read, made
    <3>5. Begins(read, Made[n])
      BY <3>2, <3>3, <3>4, BeginsBegins
    <3>6. Begins(Image(n + 1, read), Image(n + 1, Made[n]))
      BY <2>1, <3>2, <3>5, ImageInOrder
    <3>7. Made[n + 1] = Image(n + 1, Made[n])
      BY <3>1, MadeIs
    <3> QED
      BY <3>6, <3>7 DEF read
  <2> QED
    BY <2>2, <2>3
<1>3. \A n \in Nat : n \in T
  <2> HIDE DEF T
  <2> QED
    BY <1>1, <1>2, OneByOne
<1> QED
  BY <1>3 DEF Stages

LEMMA SoundInOrder == Sound => InOrder
<1> SUFFICES ASSUME Sound PROVE InOrder
  OBVIOUS
<1>1. PICK got \in [Stages -> Seq(Values)] : Flows(got)
  BY DEF Sound, Flow
<1>2. N \in Stages /\ Made[N] \in Seq(Values) /\ out \in Seq(Values)
  BY Numbers, MadeIs DEF Sound, Inv, Types
<1>3. Begins(Image(N, got[N]), Made[N])
  BY <1>1, <1>2, MakesInOrder DEF Sound, Inv
<1>4. Begins(out, Made[N])
  BY <1>1, <1>3 DEF Flows
<1>5. IsPrefix(out, Made[N])
  BY <1>2, <1>4, BeginsIsPrefix
<1> QED
  BY <1>5 DEF InOrder, Whole

(* In every state what the line has written is the beginning of what its stages
   make of the whole source, in order, whatever the interleaving of the goroutines
   and wherever they are stopped (send, receive, streamResult). *)
THEOREM OutputInOrder == Spec => []InOrder
BY AlwaysSound, SoundInOrder, PTL

-----------------------------------------------------------------------------
(* What is returned.                                                       *)

(* A line that returns success, and was read to its end, had no failure. *)
LEMMA SuccessIsClean ==
  ASSUME Inv, result = Ok, ~early
  PROVE  \A i \in Stages : err[i] = "none" /\ Through(i)
<1>1. result # Running
  BY DEF Ok, Running
<1>2. /\ \A i \in Stages : pc[i] = "gone"
      /\ result = IF fail = None \/ Shutdown THEN Ok ELSE fail
  BY <1>1 DEF Inv, Returned
<1>3. ~Shutdown
  BY DEF Shutdown, Inv, Causes
<1>4. fail = None
  <2>1. fail # None => fail.stage # 0
    BY Numbers DEF Inv, Causes
  <2> QED
    BY <1>2, <1>3, <2>1 DEF Ok
<1>5. \A i \in Stages : err[i] = "none"
  BY <1>2, <1>4 DEF Inv, Stage, Said
<1>6. \A i \in Stages : Through(i)
  BY <1>2, <1>5 DEF Through, Past, Places
<1> QED
  BY <1>5, <1>6

(* When every stage is through, each has made all there was to make. *)
LEMMA AllIsMade ==
  ASSUME Inv, NEW got \in [Stages -> Seq(Values)], Flows(got), \A i \in Stages : Through(i)
  PROVE  \A i \in Stages : Image(i, got[i]) = Made[i]
<1>1. \A i \in Stages : Dry(i)
  BY DEF Inv, Stage
<1> DEFINE T == {n \in Nat : n \in Stages => Image(n, got[n]) = Made[n]}
<1>2. 0 \in T
  BY DEF Stages
<1>3. ASSUME NEW n \in Nat, n \in T PROVE n + 1 \in T
  <2>1. SUFFICES ASSUME n + 1 \in Stages PROVE Image(n + 1, got[n + 1]) = Made[n + 1]
    OBVIOUS
  <2>2. CASE n = 0
    <3>1. Image(n + 1, got[n + 1]) = SubSeq(Source, 1, given) /\ Made[n + 1] = Source
      BY <2>2, MadeIs DEF Image, Flows
    <3>2. 1 \in Stages
      BY Numbers
    <3>3. given = Len(Source)
      BY <1>1, <3>2 DEF Dry
    <3>4. Source \in Seq(Values) /\ Len(Source) \in Nat
      BY PipelineAssumption
    <3> DEFINE a == SubSeq(Source, 1, Len(Source))
    <3>5. a \in Seq(Values) /\ Len(a) = Len(Source) /\ \A k \in 1..Len(Source) : a[k] = Source[k]
      BY <3>4, Sliced
    <3> HIDE DEF a
    <3>6. a = Source
      BY <3>4, <3>5, SeqEqual
    <3> QED
      BY <3>1, <3>3, <3>6 DEF a
  <2>3. CASE n # 0
    <3>1. /\ n \in Stages /\ n \in Producers /\ n # N
          /\ n + 1 # 1 /\ n + 1 \in 2..N /\ n + 1 - 1 = n
      BY <2>1, <2>3, PipelineAssumption DEF Stages, Producers
    <3>2. pend[n] = <<>>
      BY <1>1, <3>1 DEF Dry
    <3>3. chan[n] = <<>>
      <4>1. chan[n + 1 - 1] = <<>>
        BY <1>1, <2>1, <3>1 DEF Dry
      <4> QED
        BY <3>1, <4>1
    <3> DEFINE read == got[n + 1]
    <3>4. read \in Seq(Values)
      BY <2>1
    <3>5. Image(n, got[n]) = (read \o <<>>) \o <<>>
      BY <3>1, <3>2, <3>3 DEF Flows
    <3> HIDE DEF read
    <3>6. (read \o <<>>) \o <<>> = read
      BY <3>4, ConcatEmptySeq
    <3>7. read = Made[n]
      BY <1>3, <3>1, <3>5, <3>6
    <3>8. Made[n + 1] = Image(n + 1, Made[n])
      BY <3>1, MadeIs
    <3> QED
      BY <3>7, <3>8 DEF read
  <2> QED
    BY <2>2, <2>3
<1>4. \A n \in Nat : n \in T
  <2> HIDE DEF T
  <2> QED
    BY <1>2, <1>3, OneByOne
<1> QED
  BY <1>4 DEF Stages

LEMMA SoundEnd == Sound => NoSilentEnd
<1> SUFFICES ASSUME Sound, result = Ok, ~early PROVE out = Whole /\ feed = "finite"
  BY DEF NoSilentEnd
<1>1. \A i \in Stages : Through(i)
  BY SuccessIsClean DEF Sound
<1>2. PICK got \in [Stages -> Seq(Values)] : Flows(got)
  BY DEF Sound, Flow
<1>3. \A i \in Stages : Image(i, got[i]) = Made[i]
  BY <1>1, <1>2, AllIsMade DEF Sound
<1>4. out = Made[N]
  BY <1>2, <1>3, Numbers DEF Flows
<1>5. feed = "finite"
  BY <1>1, Numbers DEF Sound, Inv, Stage, Dry
<1> QED
  BY <1>4, <1>5 DEF Whole

(* A line that returns success and whose last stage did not stop of itself has
   written all that its stages make of the source, and its source had an end: the
   close of a channel by a stage that failed is never taken for the end of the
   values (execute, the order of its defers). *)
THEOREM NoSilentEndOfLine == Spec => []NoSilentEnd
BY AlwaysSound, SoundEnd, PTL

LEMMA SoundCause == Sound => TheCause
<1> SUFFICES ASSUME Inv PROVE TheCause
  BY DEF Sound
<1>1. ASSUME result.why \in {"own", "cancelled"}
      PROVE  result = fail /\ fail # None /\ ~Shutdown
  <2>1. result # Running /\ result # Ok
    BY <1>1 DEF Running, Ok
  <2> QED
    BY <2>1 DEF Inv, Returned
<1>2. fail.why = "cancelled" /\ ~interrupt => Shutdown
  BY DEF Inv, Causes, Ended, Shutdown
<1>3. result.why = "cancelled" => interrupt
  BY <1>1, <1>2
<1>4. result.why \in {"own", "cancelled"} /\ ~interrupt => err[result.stage] = "own"
  BY <1>1, <1>2 DEF Inv, Causes
<1>5. result = Ok /\ ~early => \A i \in Stages : err[i] = "none"
  BY SuccessIsClean
<1> QED
  BY <1>3, <1>4, <1>5 DEF TheCause

(* The failure a line returns is that of the stage that started its end; no stage
   that was only cancelled is blamed, and "cancelled" is returned only after a
   Ctrl-C (failure.record, execute 182-188). *)
THEOREM FailureIsTheCause == Spec => []TheCause
BY AlwaysSound, SoundCause, PTL

-----------------------------------------------------------------------------
(* The line from outside.                                                  *)

Own  == {i \in Stages : err[i] = "own"}
Seen == <<out, Own, interrupt, early, feed = "live", result>>

(* The last stage has had enough only where it no longer reads, and did not fail;
   what is on record is a stage and why it failed. *)
Outer ==
  /\ early => pc[N] \in {"finished", "joining", "gone"} /\ err[N] = "none"
  /\ fail = [stage |-> fail.stage, why |-> fail.why]

LEMMA OuterStays ==
  ASSUME Outer, pc'[N] = pc[N], UNCHANGED <<early, fail>>, err'[N] = err[N]
  PROVE  Outer'
BY DEF Outer

LEMMA OuterAbove ==
  ASSUME Inv, Outer, NEW i \in Producers, NEW at, NEW pc2,
         pc' = pc2, pc2 \in {pc, [pc EXCEPT ![i] = at]}, UNCHANGED <<early, fail, err>>
  PROVE  Outer'
<1>1. i # N /\ N \in Stages /\ pc \in [Stages -> Places]
  BY Numbers DEF Inv, Types
<1>2. pc'[N] = pc[N]
  BY <1>1
<1> QED
  BY <1>2, OuterStays

LEMMA OuterReads ==
  ASSUME Outer, pc[N] \in {"start", "run", "failing"}, UNCHANGED early,
         fail' = [stage |-> fail'.stage, why |-> fail'.why]
  PROVE  Outer'
BY DEF Outer

LEMMA OuterFails ==
  ASSUME Inv, Outer, NEW i \in Stages, NEW why, pc[i] \in {"start", "run"}, Fails(i, why),
         UNCHANGED <<early, fail>>
  PROVE  Outer'
<1>1. N \in Stages /\ pc \in [Stages -> Places] /\ DOMAIN err = Stages
  BY Numbers DEF Inv, Types
<1>2. CASE i = N
  <2>1. fail' = [stage |-> fail'.stage, why |-> fail'.why]
    BY DEF Outer
  <2> QED
    BY <1>2, <2>1, OuterReads
<1>3. CASE i # N
  <2>1. pc'[N] = pc[N] /\ err'[N] = err[N]
    BY <1>1, <1>3 DEF Fails, Goto
  <2> QED
    BY <2>1, OuterStays
<1> QED
  BY <1>2, <1>3

LEMMA OuterRecord == ASSUME Inv, Outer, NEW i \in Stages, Record(i) PROVE Outer'
<1>1. N \in Stages /\ pc \in [Stages -> Places]
  BY Numbers DEF Inv, Types
<1>2. fail' = [stage |-> fail'.stage, why |-> fail'.why]
  <2>1. fail' = IF fail = None THEN [stage |-> i, why |-> err[i]] ELSE fail
    BY DEF Record, Recorded
  <2>2. CASE fail = None
    <3> DEFINE r == [stage |-> i, why |-> err[i]]
    <3>1. r.stage = i /\ r.why = err[i]
      OBVIOUS
    <3>2. fail' = r
      BY <2>1, <2>2
    <3> QED
      BY <3>1, <3>2
  <2>3. CASE fail # None
    BY <2>1, <2>3 DEF Outer
  <2> QED
    BY <2>2, <2>3
<1>3. pc[i] = "failing" /\ UNCHANGED <<early, err>>
  BY DEF Record
<1>4. CASE i = N
  BY <1>2, <1>3, <1>4, OuterReads
<1>5. CASE i # N
  <2>1. pc'[N] = pc[N]
    BY <1>1, <1>5 DEF Record, Goto
  <2> QED
    BY <1>2, <1>3, <2>1 DEF Outer
<1> QED
  BY <1>4, <1>5

LEMMA OuterStep == ASSUME Inv, Outer, NEW i \in Stages, Step(i) PROVE Outer'
<1>1. ASSUME Report(i) \/ Receive(i) \/ Send(i) \/ Cancel(i) \/ Leave(i) \/ CloseChan(i)
             \/ SignOff(i) \/ (i = 1 /\ Produce)
      PROVE  Outer'
  <2>1. i \in Producers /\ UNCHANGED <<early, fail, err>>
    BY <1>1, Numbers
       DEF Report, Receive, Send, Cancel, Leave, CloseChan, SignOff, Produce
  <2>2. \E at \in Places : pc' \in {pc, [pc EXCEPT ![i] = at]}
    BY <1>1 DEF Report, Receive, Send, Cancel, Leave, CloseChan, SignOff, Produce, Goto, Places
  <2> QED
    BY <2>1, <2>2, OuterAbove
<1>2. CASE Notice(i)
  <2>1. pc[i] \in {"start", "run"} /\ Fails(i, "cancelled") /\ UNCHANGED <<early, fail>>
    BY <1>2 DEF Notice, Notices
  <2> QED
    BY <2>1, OuterFails
<1>3. CASE Record(i)
  BY <1>3, OuterRecord
<1>4. ASSUME Decide \/ Write PROVE Outer'
  <2>1. pc[N] \in {"start", "run"} /\ UNCHANGED <<early, fail>>
    BY <1>4 DEF Decide, Write
  <2>2. fail' = [stage |-> fail'.stage, why |-> fail'.why]
    BY <2>1 DEF Outer
  <2> QED
    BY <2>1, <2>2, OuterReads
<1>5. ASSUME Release \/ Return PROVE Outer'
  <2>1. /\ pc[N] \in {"finished", "joining"} /\ UNCHANGED <<early, fail, err>>
        /\ pc' = [pc EXCEPT ![N] = "joining"] \/ pc' = [pc EXCEPT ![N] = "gone"]
    BY <1>5 DEF Release, Return, Goto
  <2>2. N \in Stages /\ pc \in [Stages -> Places]
    BY Numbers DEF Inv, Types
  <2>3. pc'[N] \in {"joining", "gone"}
    BY <2>1, <2>2
  <2> QED
    BY <2>1, <2>3 DEF Outer
<1> QED
  BY <1>1, <1>2, <1>3, <1>4, <1>5 DEF Step

LEMMA OuterNext == ASSUME Inv, Outer, [Next]_vars PROVE Outer'
<1>1. ASSUME NEW i \in Stages, Step(i) PROVE Outer'
  BY <1>1, OuterStep
<1>2. ASSUME NEW i \in Stages, FailsItself(i) PROVE Outer'
  <2>1. pc[i] \in {"start", "run"} /\ Fails(i, "own") /\ UNCHANGED <<early, fail>>
    BY <1>2 DEF FailsItself
  <2> QED
    BY <2>1, OuterFails
<1>3. CASE StopEarly
  <2>1. N \in Stages /\ pc \in [Stages -> Places] /\ Said(N)
    BY Numbers DEF Inv, Types, Stage
  <2>2. pc'[N] = "finished" /\ err'[N] = "none" /\ UNCHANGED fail
    BY <1>3, <2>1 DEF StopEarly, Goto, Said
  <2> QED
    BY <2>2 DEF Outer
<1>4. ASSUME CtrlC \/ UNCHANGED vars PROVE Outer'
  <2>1. UNCHANGED <<pc, early, fail, err>>
    BY <1>4 DEF CtrlC, vars
  <2> QED
    BY <2>1, OuterStays
<1> QED
  BY <1>1, <1>2, <1>3, <1>4 DEF Next

-----------------------------------------------------------------------------
(* Every step of it is one of Line, or cannot be seen.                     *)

LEMMA Unseen == ASSUME UNCHANGED <<out, err, interrupt, early, feed, result>> PROVE UNCHANGED Seen
BY DEF Seen, Own

LEMMA ReadingSeen ==
  ASSUME Sound, Outer, pc[N] = "run"
  PROVE  result = Running /\ N \notin Own /\ early = FALSE
<1>1. Said(N) /\ N \in Stages /\ early \in BOOLEAN
  BY Numbers DEF Sound, Inv, Stage, Types
<1>2. result = Running
  BY DEF Sound, Inv, Returned
<1> QED
  BY <1>1, <1>2 DEF Said, Own, Outer

(* A stage that was cancelled has not failed of itself. *)
LEMMA NoticeSeen == ASSUME Sound, NEW i \in Stages, Notice(i) PROVE UNCHANGED Seen
<1>1. err[i] = "none" /\ err' = [err EXCEPT ![i] = "cancelled"] /\ DOMAIN err = Stages
  BY DEF Notice, Notices, Fails, Sound, Inv, Types, Stage, Said
<1>2. Own' = Own
  BY <1>1 DEF Own
<1> QED
  BY <1>2 DEF Notice, Seen

LEMMA BreakSeen ==
  ASSUME Sound, Outer, NEW i \in Stages, FailsItself(i)
  PROVE  Promise!Break(i)
<1>1. /\ err[i] = "none" /\ pc[i] # "gone" /\ pc[i] \in {"start", "run"}
      /\ err' = [err EXCEPT ![i] = "own"] /\ DOMAIN err = Stages
  BY DEF FailsItself, Fails, Sound, Inv, Types, Stage, Said
<1>2. result = Running
  BY <1>1 DEF Sound, Inv, Returned
<1>3. i \notin Own /\ Own' = Own \cup {i}
  BY <1>1 DEF Own
<1>4. i = N => ~early
  BY <1>1 DEF Outer
<1>5. UNCHANGED <<out, interrupt, early, feed, result>>
  BY DEF FailsItself
<1> QED
  BY <1>2, <1>3, <1>4, <1>5 DEF Promise!Break, Promise!Running, Running, Own

LEMMA SaySeen ==
  ASSUME Sound, Outer, Write, Sound'
  PROVE  Promise!Say \/ UNCHANGED Seen
<1>1. UNCHANGED <<err, interrupt, early, feed, result>> /\ pc[N] = "run"
  BY DEF Write
<1>2. CASE out' = out
  BY <1>1, <1>2, Unseen
<1>3. CASE out' # out
  <2>1. /\ N \in Stages /\ N \in 2..N /\ N - 1 \in Producers
        /\ chan[N - 1] \in Seq(Values) /\ out \in Seq(Values) /\ out' \in Seq(Values)
    BY Numbers DEF Sound, Inv, Types
  <2>2. chan[N - 1] # <<>> /\ out' = out \o Outs[N][Head(chan[N - 1])]
    BY <1>3 DEF Write
  <2> DEFINE more == Outs[N][Head(chan[N - 1])]
  <2>3. more \in Seq(Values)
    <3>1. Head(chan[N - 1]) \in Values
      BY <2>1, <2>2
    <3> QED
      BY <2>1, <3>1, PipelineAssumption
  <2>4. Begins(out, out')
    <3> HIDE DEF more
    <3>1. Begins(out, out \o more)
      BY <2>1, <2>3, Extended
    <3> QED
      BY <2>2, <3>1 DEF more
  <2>5. IsPrefix(out, out')
    BY <2>1, <2>4, BeginsIsPrefix
  <2>6. IsPrefix(out', Whole)
    <3>1. InOrder'
      BY SoundInOrder, PTL
    <3> QED
      BY <3>1 DEF InOrder
  <2>7. result = Running /\ N \notin Own /\ early = FALSE
    BY <1>1, ReadingSeen
  <2>8. Promise!Reads
    BY <2>7 DEF Promise!Reads, Promise!Running, Running, Own
  <2>9. Promise!IsPrefix(out, out') /\ Promise!IsPrefix(out', Whole)
    BY <2>5, <2>6 DEF IsPrefix, Promise!IsPrefix
  <2>10. Own' = Own
    BY <1>1 DEF Own
  <2> QED
    BY <1>1, <1>3, <2>8, <2>9, <2>10 DEF Promise!Say, Own
<1> QED
  BY <1>2, <1>3

(* A line returns when every goroutine of it is gone. *)
LEMMA EndSeen ==
  ASSUME Sound, Outer, Return, Sound'
  PROVE  Promise!Succeed \/ \E i \in 1..N : Promise!Fail(i)
<1>1. /\ UNCHANGED <<out, err, interrupt, early, feed, fail>>
      /\ result' = IF fail = None \/ Shutdown THEN Ok ELSE fail
  BY DEF Return
<1>2. result = Running
  BY DEF Return, Sound, Inv, Returned
<1>3. NoSilentEnd' /\ TheCause'
  BY SoundEnd, SoundCause, PTL
<1>4. Own' = Own
  BY <1>1 DEF Own
<1>5. CASE result' = Ok
  <2>1. early \/ (out = Whole /\ feed = "finite" /\ \A i \in Stages : err[i] = "none")
    BY <1>1, <1>3, <1>5 DEF NoSilentEnd, TheCause
  <2>2. early \/ (out = Whole /\ Own = {} /\ ~(feed = "live"))
    BY <2>1 DEF Own
  <2>3. result' = Promise!Ok /\ result = Promise!Running
    BY <1>2, <1>5 DEF Ok, Running, Promise!Ok, Promise!Running
  <2>4. Promise!Succeed
    BY <1>1, <1>4, <2>2, <2>3 DEF Promise!Succeed, Own
  <2> QED
    BY <2>4
<1>6. CASE result' # Ok
  <2>1. result' = fail /\ fail # None
    BY <1>1, <1>6
  <2>2. /\ fail.stage \in Stages /\ fail.why \in {"own", "cancelled"}
        /\ err[fail.stage] = fail.why
    BY <2>1 DEF Sound, Inv, Causes, Types
  <2> DEFINE i == fail.stage
  <2>3. i \in 1..N
    BY <2>2 DEF Stages
  <2>4. result = Promise!Running
    BY <1>2 DEF Running, Promise!Running
  <2>5. CASE fail.why = "own"
    <3>1. i \in Own
      BY <2>2, <2>5 DEF Own
    <3>2. result' = Promise!Failed(i, "own")
      BY <2>1, <2>5 DEF Promise!Failed, Outer
    <3>3. Promise!Fail(i)
      BY <1>1, <1>4, <2>4, <3>1, <3>2 DEF Promise!Fail, Own
    <3> QED
      BY <2>3, <3>3
  <2>6. CASE fail.why = "cancelled"
    <3>1. interrupt = TRUE
      <4>1. interrupt' /\ interrupt' = interrupt /\ interrupt \in BOOLEAN
        BY <1>1, <1>3, <2>1, <2>6 DEF TheCause, Sound, Inv, Types
      <4> QED
        BY <4>1
    <3>2. result' = Promise!Failed(i, "cancelled")
      BY <2>1, <2>6 DEF Promise!Failed, Outer
    <3>3. Promise!Fail(i)
      BY <1>1, <1>4, <2>4, <3>1, <3>2 DEF Promise!Fail, Own
    <3> QED
      BY <2>3, <3>3
  <2> QED
    BY <2>2, <2>5, <2>6
<1> QED
  BY <1>5, <1>6

LEMMA StepSeen ==
  ASSUME Sound, Outer, NEW i \in Stages, Step(i), Sound'
  PROVE  Promise!Next \/ UNCHANGED Seen
<1>1. ASSUME Report(i) \/ Receive(i) \/ Send(i) \/ Record(i) \/ Cancel(i) \/ Leave(i)
             \/ CloseChan(i) \/ SignOff(i) \/ Produce \/ Decide \/ Release
      PROVE  UNCHANGED Seen
  <2>1. UNCHANGED <<out, err, interrupt, early, feed, result>>
    BY <1>1 DEF Report, Receive, Send, Record, Cancel, Leave, CloseChan, SignOff, Produce,
                Decide, Release
  <2> QED
    BY <2>1, Unseen
<1>2. CASE Notice(i)
  BY <1>2, NoticeSeen
<1>3. CASE Write
  BY <1>3, SaySeen DEF Promise!Next
<1>4. CASE Return
  BY <1>4, EndSeen DEF Promise!Next
<1> QED
  BY <1>1, <1>2, <1>3, <1>4 DEF Step

LEMMA NextSeen ==
  ASSUME Sound, Outer, [Next]_vars, Sound'
  PROVE  Promise!Next \/ UNCHANGED Seen
<1>1. ASSUME NEW i \in Stages, Step(i) PROVE Promise!Next \/ UNCHANGED Seen
  BY <1>1, StepSeen
<1>2. ASSUME NEW i \in Stages, FailsItself(i) PROVE Promise!Next
  <2>1. Promise!Break(i)
    BY <1>2, BreakSeen
  <2> QED
    BY <2>1 DEF Promise!Next, Stages
<1>3. CASE StopEarly
  <2>1. UNCHANGED <<out, err, interrupt, feed, result>> /\ early' = TRUE /\ pc[N] = "run"
    BY <1>3 DEF StopEarly
  <2>2. result = Running /\ N \notin Own /\ early = FALSE /\ Own' = Own
    BY <2>1, ReadingSeen DEF Own
  <2>3. Promise!HaveEnough
    BY <2>1, <2>2 DEF Promise!HaveEnough, Promise!Reads, Promise!Running, Running, Own
  <2> QED
    BY <2>3 DEF Promise!Next
<1>4. CASE CtrlC
  <2>1. /\ result = Running /\ ~interrupt /\ interrupt' = TRUE
        /\ UNCHANGED <<out, err, early, feed, result>>
    BY <1>4 DEF CtrlC
  <2>2. Own' = Own
    BY <2>1 DEF Own
  <2>3. Promise!Ask
    BY <2>1, <2>2 DEF Promise!Ask, Promise!Running, Running, Own
  <2> QED
    BY <2>3 DEF Promise!Next
<1>5. CASE UNCHANGED vars
  BY <1>5, Unseen DEF vars
<1> QED
  BY <1>1, <1>2, <1>3, <1>4, <1>5 DEF Next

(* Seen from outside a line is that of Line, whatever the interleaving of its
   goroutines: its output only grows, in order, while the last stage reads; it ends
   once, with success or with a failure that is true; and no goroutine of it
   fails, reads or writes after it has returned (execute, failure.record). *)
THEOREM LineImplemented == Spec => IsALine
<1>1. Init => Outer
  BY DEF Init, Outer, None
<1>2. Init => Promise!Init
  BY DEF Init, Promise!Init, Promise!Running, Running
<1>3. Sound /\ Outer /\ [Next]_vars => Outer'
  BY OuterNext DEF Sound
<1>4. Sound /\ Sound' /\ Outer /\ [Next]_vars => [Promise!Next]_(Promise!vars)
  <2>1. UNCHANGED Seen => UNCHANGED Promise!vars
    BY DEF Promise!vars, Seen, Own
  <2> QED
    BY <2>1, NextSeen
<1> QED
  BY <1>1, <1>2, <1>3, <1>4, AlwaysSound, PTL DEF Spec, IsALine, Promise!Spec

-----------------------------------------------------------------------------
(* Consumers of a pipeline.                                                *)

LEMMA Least ==
  ASSUME NEW T, T \subseteq Nat, T # {}
  PROVE  \E x \in T : \A y \in T : x =< y
<1>1. IsWellFoundedOn(Less, Nat)
  BY NatLessThanWellFounded DEF OpToRel, Less
<1>2. PICK x \in T : \A y \in T : ~ (<<y, x>> \in Less)
  BY <1>1, WFMin
<1>3. \A y \in T : ~ (y < x)
  BY <1>2 DEF Less
<1> QED
  BY <1>2, <1>3

-----------------------------------------------------------------------------
(* Sizes.                                                                  *)

(* What corresponds one to one is of one size. *)
LEMMA SameSize ==
  ASSUME NEW S, NEW T, NEW f \in [S -> T], IsFiniteSet(S),
         \A x, y \in S : f[x] = f[y] => x = y,
         \A t \in T : \E x \in S : f[x] = t
  PROVE  IsFiniteSet(T) /\ Cardinality(T) = Cardinality(S)
<1>1. f \in Bijection(S, T)
  BY DEF Bijection, Injection, Surjection, IsInjective
<1>2. ExistsBijection(S, T)
  BY <1>1 DEF ExistsBijection
<1> QED
  BY <1>2, FS_Bijection

LEMMA FirstNumbers ==
  ASSUME NEW n \in Nat
  PROVE  IsFiniteSet(1..n) /\ Cardinality(1..n) = n
BY FS_Interval

LEMMA Selected ==
  ASSUME NEW n \in Nat, NEW S, S \subseteq 1..n
  PROVE  /\ IsFiniteSet(S) /\ Cardinality(S) \in Nat /\ Cardinality(S) =< n
         /\ S \in SUBSET Nat
<1>1. IsFiniteSet(1..n) /\ Cardinality(1..n) = n /\ S \in SUBSET (1..n)
  BY FirstNumbers
<1>2. IsFiniteSet(S) /\ Cardinality(S) =< n
  BY <1>1, FS_Subset
<1>3. Cardinality(S) \in Nat
  BY <1>2, FS_CardinalityType
<1>4. S \in SUBSET Nat
  OBVIOUS
<1> QED
  BY <1>2, <1>3, <1>4

LEMMA Shifted ==
  ASSUME NEW n \in Nat, NEW S \in SUBSET Nat, IsFiniteSet(S)
  PROVE  LET T == {n + k : k \in S}
         IN  IsFiniteSet(T) /\ Cardinality(T) = Cardinality(S)
<1> DEFINE T == {n + k : k \in S}
           f == [k \in S |-> n + k]
<1>1. f \in [S -> T]
  OBVIOUS
<1>2. \A x, y \in S : f[x] = f[y] => x = y
  OBVIOUS
<1>3. \A t \in T : \E x \in S : f[x] = t
  OBVIOUS
<1> HIDE DEF f, T
<1> QED
  BY <1>1, <1>2, <1>3, SameSize DEF T

LEMMA Disjoint ==
  ASSUME NEW S, NEW T, IsFiniteSet(S), IsFiniteSet(T), S \cap T = {}
  PROVE  /\ IsFiniteSet(S \cup T)
         /\ Cardinality(S \cup T) = Cardinality(S) + Cardinality(T)
<1>1. Cardinality(S) \in Nat /\ Cardinality(T) \in Nat
  BY FS_CardinalityType
<1>2. Cardinality(S \cap T) = 0
  BY FS_EmptySet
<1>3. /\ IsFiniteSet(S \cup T)
      /\ Cardinality(S \cup T) = Cardinality(S) + Cardinality(T) - Cardinality(S \cap T)
  BY FS_Union
<1> QED
  BY <1>1, <1>2, <1>3

-----------------------------------------------------------------------------
(* Places among numbers.                                                   *)

LEMMA RankIs ==
  ASSUME NEW S \in SUBSET Nat, IsFiniteSet(S), NEW k \in S
  PROVE  /\ Rank(S, k) \in 1..Cardinality(S)
         /\ \A i \in S : Rank(S, i) = Rank(S, k) => i = k
<1> DEFINE Upto(i) == {j \in S : j =< i}
<1>1. \A i \in S : /\ IsFiniteSet(Upto(i)) /\ Upto(i) \subseteq S
                   /\ Rank(S, i) = Cardinality(Upto(i)) /\ i \in Upto(i)
                   /\ Cardinality(Upto(i)) \in Nat
                   /\ Cardinality(Upto(i)) =< Cardinality(S)
                   /\ Cardinality(Upto(i)) # 0
  <2> TAKE i \in S
  <2>1. IsFiniteSet(Upto(i)) /\ Upto(i) \subseteq S /\ Cardinality(Upto(i)) =< Cardinality(S)
    BY FS_Subset
  <2>2. i \in Upto(i) /\ Rank(S, i) = Cardinality(Upto(i))
    BY DEF Rank
  <2>3. Cardinality(Upto(i)) \in Nat
    BY <2>1, FS_CardinalityType
  <2>4. Cardinality(Upto(i)) # 0
    BY <2>1, <2>2, FS_EmptySet
  <2> HIDE DEF Upto
  <2> QED
    BY <2>1, <2>2, <2>3, <2>4
<1>2. \A i, j \in S : i < j => Rank(S, i) # Rank(S, j)
  <2> TAKE i, j \in S
  <2> HAVE i < j
  <2>0. \A x \in S : x \in Nat
    OBVIOUS
  <2>1. /\ \A x \in S : x =< i => x =< j
        /\ ~ (j =< i) /\ j =< j
    BY <2>0
  <2>2. Upto(i) \subseteq Upto(j) /\ j \notin Upto(i) /\ j \in Upto(j)
    BY <2>1
  <2> HIDE DEF Upto
  <2>3. Cardinality(Upto(i)) # Cardinality(Upto(j))
    BY <2>2, <1>1, FS_Subset
  <2> QED
    BY <2>3, <1>1
<1>3. Cardinality(S) \in Nat
  BY FS_CardinalityType
<1> HIDE DEF Upto
<1>4. Rank(S, k) \in 1..Cardinality(S)
  BY <1>1, <1>3
<1>5. \A i \in S : i < k \/ k < i \/ i = k
  OBVIOUS
<1> QED
  BY <1>2, <1>4, <1>5

LEMMA NthIs ==
  ASSUME NEW S \in SUBSET Nat, IsFiniteSet(S)
  PROVE  /\ \A j \in 1..Cardinality(S) : Nth(S, j) \in S /\ Rank(S, Nth(S, j)) = j
         /\ \A k \in S : Nth(S, Rank(S, k)) = k
<1> DEFINE n == Cardinality(S)
           f == [k \in S |-> Rank(S, k)]
<1>1. n \in Nat /\ IsFiniteSet(1..n) /\ Cardinality(1..n) = n
  BY FS_CardinalityType, FS_Interval
<1>2. f \in [S -> 1..n] /\ \A x, y \in S : f[x] = f[y] => x = y
  BY RankIs
<1> HIDE DEF n
<1>3. f \in Injection(S, 1..n)
  BY <1>2 DEF Injection, IsInjective
<1> HIDE DEF f
<1>4. f \in Surjection(S, 1..n)
  BY <1>1, <1>3, FS_Injection DEF n
<1>5. \A j \in 1..n : \E k \in S : f[k] = j
  BY <1>4 DEF Surjection
<1>6. \A j \in 1..n : \E k \in S : Rank(S, k) = j
  BY <1>5 DEF f
<1>7. \A j \in 1..n : Nth(S, j) \in S /\ Rank(S, Nth(S, j)) = j
  BY <1>6 DEF Nth
<1>8. \A k \in S : Nth(S, Rank(S, k)) = k
  <2> TAKE k \in S
  <2>1. Rank(S, k) \in 1..n
    BY RankIs DEF n
  <2>2. Nth(S, Rank(S, k)) \in S /\ Rank(S, Nth(S, Rank(S, k))) = Rank(S, k)
    BY <2>1, <1>7
  <2>3. \A i \in S : Rank(S, i) = Rank(S, k) => i = k
    BY RankIs
  <2> QED
    BY <2>2, <2>3
<1> QED
  BY <1>7, <1>8 DEF n

(* All of the first numbers are each in its own place. *)
LEMMA NthOfAll ==
  ASSUME NEW n \in Nat, NEW j \in 1..n
  PROVE  Nth(1..n, j) = j
<1>1. IsFiniteSet(1..n) /\ 1..n \in SUBSET Nat
  BY FirstNumbers
<1>2. {i \in 1..n : i =< j} = 1..j
  OBVIOUS
<1>3. Rank(1..n, j) = j
  <2>1. j \in Nat /\ Cardinality(1..j) = j
    BY FirstNumbers
  <2> QED
    BY <1>2, <2>1 DEF Rank
<1> QED
  BY <1>1, <1>3, NthIs

-----------------------------------------------------------------------------
(* Rows.                                                                   *)

LEMMA AtOf ==
  ASSUME NEW V, NEW s \in Seq(V), NEW t \in Seq(V)
  PROVE  /\ s \o t \in Seq(V) /\ Len(s \o t) = Len(s) + Len(t)
         /\ \A k \in 1..Len(s) : (s \o t)[k] = s[k]
         /\ \A k \in 1..Len(t) : (s \o t)[Len(s) + k] = t[k]
OBVIOUS

(* C has those of A among the first n numbers and those of B among the next m. *)
Together(n, m, A, B, C) ==
  /\ A \subseteq 1..n /\ B \subseteq 1..m /\ C \subseteq 1..(n + m)
  /\ \A k \in 1..n : k \in C <=> k \in A
  /\ \A k \in 1..m : n + k \in C <=> k \in B

LEMMA CountsAdd ==
  ASSUME NEW n \in Nat, NEW m \in Nat, NEW A, NEW B, NEW C, Together(n, m, A, B, C)
  PROVE  Cardinality(C) = Cardinality(A) + Cardinality(B)
<1> USE DEF Together
<1> DEFINE D == {n + k : k \in B}
<1>1. IsFiniteSet(A) /\ IsFiniteSet(B) /\ B \in SUBSET Nat
  <2>1. IsFiniteSet(A)
    BY Selected
  <2> QED
    BY <2>1, Selected
<1>2. IsFiniteSet(D) /\ Cardinality(D) = Cardinality(B)
  BY <1>1, Shifted
<1>3. A \cap D = {}
  OBVIOUS
<1>4. C = A \cup D
  <2>1. \A k \in C : k \in A \cup D
    <3> TAKE k \in C
    <3>1. CASE k =< n
      BY <3>1
    <3>2. CASE k > n
      <4>1. k - n \in 1..m /\ k = n + (k - n)
        BY <3>2
      <4> QED
        BY <4>1
    <3> QED
      BY <3>1, <3>2
  <2>2. \A k \in A : k \in C
    OBVIOUS
  <2>3. \A k \in D : k \in C
    OBVIOUS
  <2> QED
    BY <2>1, <2>2, <2>3
<1> HIDE DEF D
<1> QED
  BY <1>1, <1>2, <1>3, <1>4, Disjoint

LEMMA OccurrencesAdd ==
  ASSUME NEW V, NEW s \in Seq(V), NEW t \in Seq(V), NEW id
  PROVE  /\ Occurrences(s \o t, id) = Occurrences(s, id) + Occurrences(t, id)
         /\ Occurrences(s, id) \in Nat
<1> DEFINE A == {k \in 1..Len(s) : s[k].id = id}
           B == {k \in 1..Len(t) : t[k].id = id}
           C == {k \in 1..(Len(s) + Len(t)) : (s \o t)[k].id = id}
<1>1. /\ A \subseteq 1..Len(s) /\ B \subseteq 1..Len(t) /\ C \subseteq 1..(Len(s) + Len(t))
      /\ Len(s) \in Nat /\ Len(t) \in Nat
  OBVIOUS
<1>2. /\ \A k \in 1..Len(s) : k \in C <=> k \in A
      /\ \A k \in 1..Len(t) : Len(s) + k \in C <=> k \in B
  BY AtOf
<1>3. /\ Occurrences(s \o t, id) = Cardinality(C) /\ Occurrences(s, id) = Cardinality(A)
      /\ Occurrences(t, id) = Cardinality(B)
  BY AtOf DEF Occurrences
<1> HIDE DEF A, B, C
<1>4. Cardinality(C) = Cardinality(A) + Cardinality(B)
  <2>1. PICK n \in Nat : n = Len(s)
    BY <1>1
  <2>2. PICK m \in Nat : m = Len(t)
    BY <1>1
  <2>3. Together(n, m, A, B, C)
    BY <1>1, <1>2, <2>1, <2>2 DEF Together
  <2> QED
    BY <2>3, CountsAdd
<1>5. Cardinality(A) \in Nat
  BY <1>1, Selected
<1> QED
  BY <1>3, <1>4, <1>5

(* Rows that name what stands at some places name it as often. *)
NamePicked(t, vs, S) ==
  Len(t) = Cardinality(S) /\ \A j \in 1..Cardinality(S) : t[j].id = vs[Nth(S, j)].id

Naming(vs, S, id) == {k \in S : vs[k].id = id}

LEMMA OccurrencesPicked ==
  ASSUME NEW S, IsFiniteSet(S), S \in SUBSET Nat, NEW vs, NEW t, NamePicked(t, vs, S), NEW id
  PROVE  Occurrences(t, id) = Cardinality(Naming(vs, S, id))
<1> USE DEF NamePicked, Naming
<1> DEFINE A == {j \in 1..Cardinality(S) : t[j].id = id}
           B == {k \in S : vs[k].id = id}
           f == [k \in B |-> Rank(S, k)]
<1>1. IsFiniteSet(S) /\ S \in SUBSET Nat /\ Cardinality(S) \in Nat
  BY FS_CardinalityType
<1>2. IsFiniteSet(B)
  BY <1>1, FS_Subset
<1>3. f \in [B -> A]
  BY <1>1, RankIs, NthIs
<1>4. \A x, y \in B : f[x] = f[y] => x = y
  BY <1>1, RankIs
<1>5. \A j \in A : \E x \in B : f[x] = j
  <2> TAKE j \in A
  <2>1. Nth(S, j) \in B /\ f[Nth(S, j)] = j
    BY <1>1, NthIs
  <2> QED
    BY <2>1
<1>6. Occurrences(t, id) = Cardinality(A)
  BY DEF Occurrences
<1> HIDE DEF f, A, B
<1>7. Cardinality(A) = Cardinality(B)
  BY <1>2, <1>3, <1>4, <1>5, SameSize
<1> QED
  BY <1>6, <1>7 DEF B

-----------------------------------------------------------------------------
(* What rows tell.                                                         *)

Row == [id : Ids, rev : Nat, status : {"ok", "conflict", "not_found"}]

LEMMA RowsTyped ==
  \A s \in Seq(Row) : \A k \in OkRows(s) :
    k \in 1..Len(s) /\ s[k] \in Row /\ s[k].rev \in Nat /\ s[k].status = "ok"
<1> SUFFICES ASSUME NEW s \in Seq(Row), NEW k \in OkRows(s)
             PROVE  k \in 1..Len(s) /\ s[k] \in Row /\ s[k].rev \in Nat /\ s[k].status = "ok"
  OBVIOUS
<1>1. k \in 1..Len(s) /\ s[k] \in Row /\ s[k].status = "ok"
  BY ElementOfSeq DEF OkRows
<1> QED
  BY <1>1 DEF Row

LEMMA ToldIs ==
  ASSUME NEW s \in Seq(Row)
  PROVE  /\ IsFiniteSet(Told(s)) /\ Cardinality(Told(s)) \in Nat
         /\ Cardinality(Told(s)) =< Len(s)
<1> DEFINE f == [k \in OkRows(s) |-> <<s[k].id, s[k].rev>>]
<1>1. OkRows(s) \subseteq 1..Len(s) /\ Len(s) \in Nat
  BY DEF OkRows
<1>2. IsFiniteSet(OkRows(s)) /\ Cardinality(OkRows(s)) =< Len(s)
      /\ Cardinality(OkRows(s)) \in Nat
  BY <1>1, Selected
<1>3. f \in Surjection(OkRows(s), Told(s))
  BY DEF Surjection, Told
<1> HIDE DEF f
<1>4. IsFiniteSet(Told(s)) /\ Cardinality(Told(s)) =< Cardinality(OkRows(s))
  BY <1>2, <1>3, FS_Surjection
<1>5. Cardinality(Told(s)) \in Nat
  BY <1>4, FS_CardinalityType
<1> QED
  BY <1>1, <1>2, <1>4, <1>5

LEMMA ToldAdds ==
  ASSUME NEW s \in Seq(Row), NEW t \in Seq(Row)
  PROVE  Told(s \o t) = Told(s) \cup Told(t)
<1>1. /\ Len(s) \in Nat /\ Len(t) \in Nat /\ Len(s \o t) = Len(s) + Len(t)
      /\ \A k \in 1..Len(s) : (s \o t)[k] = s[k]
      /\ \A k \in 1..Len(t) : (s \o t)[Len(s) + k] = t[k]
  BY AtOf
<1>2. \A x \in Told(s) : x \in Told(s \o t)
  <2> TAKE x \in Told(s)
  <2>1. PICK k \in 1..Len(s) : s[k].status = "ok" /\ x = <<s[k].id, s[k].rev>>
    BY DEF Told, OkRows
  <2>2. k \in 1..Len(s \o t) /\ (s \o t)[k] = s[k]
    BY <1>1
  <2> QED
    BY <2>1, <2>2 DEF Told, OkRows
<1>3. \A x \in Told(t) : x \in Told(s \o t)
  <2> TAKE x \in Told(t)
  <2>1. PICK k \in 1..Len(t) : t[k].status = "ok" /\ x = <<t[k].id, t[k].rev>>
    BY DEF Told, OkRows
  <2>2. Len(s) + k \in 1..Len(s \o t) /\ (s \o t)[Len(s) + k] = t[k]
    BY <1>1
  <2> QED
    BY <2>1, <2>2 DEF Told, OkRows
<1>4. \A x \in Told(s \o t) : x \in Told(s) \cup Told(t)
  <2> TAKE x \in Told(s \o t)
  <2>1. PICK k \in 1..Len(s \o t) :
          (s \o t)[k].status = "ok" /\ x = <<(s \o t)[k].id, (s \o t)[k].rev>>
    BY DEF Told, OkRows
  <2>2. CASE k =< Len(s)
    <3>1. k \in 1..Len(s) /\ (s \o t)[k] = s[k]
      BY <1>1, <2>2
    <3> QED
      BY <2>1, <3>1 DEF Told, OkRows
  <2>3. CASE k > Len(s)
    <3>1. PICK j \in 1..Len(t) : k = Len(s) + j
      <4>1. k - Len(s) \in 1..Len(t) /\ k = Len(s) + (k - Len(s))
        BY <1>1, <2>3
      <4> QED
        BY <4>1
    <3>2. (s \o t)[k] = t[j]
      BY <1>1, <3>1
    <3> QED
      BY <2>1, <3>2 DEF Told, OkRows
  <2> QED
    BY <1>1, <2>2, <2>3
<1> QED
  BY <1>2, <1>3, <1>4

LEMMA ToldOne ==
  ASSUME NEW r \in Row
  PROVE  Told(<<r>>) = IF r.status = "ok" THEN {<<r.id, r.rev>>} ELSE {}
BY DEF Told, OkRows

LEMMA ToldNothing == Told(<<>>) = {}
BY DEF Told, OkRows

(* Rows that say "ok" say it of different writes. *)
Apart(s) == \A i, j \in OkRows(s) : s[i].rev = s[j].rev => i = j

Distinct(s, t) == \A i \in OkRows(s), j \in OkRows(t) : s[i].rev # t[j].rev

LEMMA ToldOnce ==
  ASSUME NEW s \in Seq(Row), Apart(s)
  PROVE  Cardinality(Told(s)) = Cardinality(OkRows(s))
<1> DEFINE f == [k \in OkRows(s) |-> <<s[k].id, s[k].rev>>]
<1>1. IsFiniteSet(OkRows(s))
  <2>1. OkRows(s) \subseteq 1..Len(s) /\ Len(s) \in Nat
    BY DEF OkRows
  <2> QED
    BY <2>1, Selected
<1>2. f \in [OkRows(s) -> Told(s)]
  BY DEF Told
<1>3. \A x, y \in OkRows(s) : f[x] = f[y] => x = y
  BY DEF Apart
<1>4. \A t \in Told(s) : \E x \in OkRows(s) : f[x] = t
  BY DEF Told
<1> HIDE DEF f
<1> QED
  BY <1>1, <1>2, <1>3, <1>4, SameSize

LEMMA ApartAdds ==
  ASSUME NEW s \in Seq(Row), NEW t \in Seq(Row), Apart(s), Apart(t), Distinct(s, t)
  PROVE  Apart(s \o t)
<1>1. /\ Len(s) \in Nat /\ Len(t) \in Nat /\ Len(s \o t) = Len(s) + Len(t)
      /\ \A k \in 1..Len(s) : (s \o t)[k] = s[k]
      /\ \A k \in 1..Len(t) : (s \o t)[Len(s) + k] = t[k]
  BY AtOf
<1>2. \A k \in OkRows(s \o t) :
        \/ k \in OkRows(s) /\ (s \o t)[k] = s[k]
        \/ \E j \in OkRows(t) : k = Len(s) + j /\ (s \o t)[k] = t[j]
  <2> TAKE k \in OkRows(s \o t)
  <2>1. k \in 1..(Len(s) + Len(t)) /\ (s \o t)[k].status = "ok"
    BY <1>1 DEF OkRows
  <2>2. CASE k =< Len(s)
    <3>1. k \in 1..Len(s) /\ (s \o t)[k] = s[k]
      BY <1>1, <2>1, <2>2
    <3> QED
      BY <2>1, <3>1 DEF OkRows
  <2>3. CASE k > Len(s)
    <3>1. PICK j \in 1..Len(t) : k = Len(s) + j
      <4>1. k - Len(s) \in 1..Len(t) /\ k = Len(s) + (k - Len(s))
        BY <1>1, <2>1, <2>3
      <4> QED
        BY <4>1
    <3>2. (s \o t)[k] = t[j]
      BY <1>1, <3>1
    <3> QED
      BY <2>1, <3>1, <3>2 DEF OkRows
  <2> QED
    BY <1>1, <2>1, <2>2, <2>3
<1> SUFFICES ASSUME NEW i \in OkRows(s \o t), NEW j \in OkRows(s \o t),
                    (s \o t)[i].rev = (s \o t)[j].rev
             PROVE  i = j
  BY DEF Apart
<1>3. CASE i \in OkRows(s) /\ (s \o t)[i] = s[i]
  <2>1. ~ \E k \in OkRows(t) : (s \o t)[j] = t[k]
    BY <1>3 DEF Distinct
  <2>2. j \in OkRows(s) /\ (s \o t)[j] = s[j]
    BY <1>2, <2>1
  <2> QED
    BY <1>3, <2>2 DEF Apart
<1>4. CASE \E k \in OkRows(t) : i = Len(s) + k /\ (s \o t)[i] = t[k]
  <2>1. PICK k \in OkRows(t) : i = Len(s) + k /\ (s \o t)[i] = t[k]
    BY <1>4
  <2>2. ~ (j \in OkRows(s) /\ (s \o t)[j] = s[j])
    BY <2>1 DEF Distinct
  <2>3. PICK m \in OkRows(t) : j = Len(s) + m /\ (s \o t)[j] = t[m]
    BY <1>2, <2>2
  <2>4. k = m
    BY <2>1, <2>3 DEF Apart
  <2> QED
    BY <2>1, <2>3, <2>4
<1> QED
  BY <1>2, <1>3, <1>4

-----------------------------------------------------------------------------
(* The invariant.                                                          *)

Value == [db : Dbs, id : Ids, rev : Nat]

ConsumeTypes ==
  /\ kind \in {"put", "rm", "cat"}
  /\ input \in Seq(Value)
  /\ cur \in [Dbs -> [Ids -> Nat]] /\ clock \in Nat
  /\ state \in {"confirm", "read", "lookup", "write", "done", "failed"}
  /\ seen \in 0..Len(input)
  /\ batch \in Seq(Value) /\ order \in Seq(Dbs) /\ refs \in Seq(Value)
  /\ answers \in Seq(Row) /\ pending \in Seq(Row) /\ handed \in Seq(Row)

Handling == state \in {"lookup", "write"}

(* The values of the batch that have no row yet. *)
Left == {k \in 1..Len(batch) : Handling /\ \E i \in 1..Len(order) : order[i] = batch[k].db}

(* The rows there are. *)
All == handed \o pending

UpTo(n, id) == Cardinality({k \in 1..n : input[k].id = id})

(* The value at i comes before any that will not do. *)
Good(i) == i \in 1..Len(input) /\ \A j \in 1..i : input[j] # Bad

(* The batch is the last values read, and the databases left are its own. *)
Batching ==
  /\ state # "failed" => \A j \in 1..seen : input[j] # Bad
  /\ Handling => /\ Len(batch) =< Batch /\ Len(batch) =< seen
                 /\ \A k \in 1..Len(batch) : batch[k] = input[seen - Len(batch) + k]
  /\ \A i, j \in 1..Len(order) : order[i] = order[j] => i = j
  /\ \A i \in 1..Len(order) : \E k \in 1..Len(batch) : batch[k].db = order[i]
  /\ state = "done" => seen = Len(input)
  /\ state \in {"confirm", "done"} => pending = <<>>

(* The values read have their rows, or are left. *)
Tallied ==
  state # "failed" =>
    /\ Len(All) + Cardinality(Left) = seen
    /\ \A id \in Ids :
         Occurrences(All, id) + Cardinality(Naming(batch, Left, id)) = UpTo(seen, id)

InTurn ==
  OneDatabase => Len(All) =< Len(input) /\ \A k \in 1..Len(All) : All[k].id = input[k].id

(* A request is about the values of one database. *)
Requested ==
  /\ state = "write" => /\ order # <<>> /\ Len(refs) = Cardinality(Here)
                        /\ \A k \in 1..Len(refs) : refs[k].id = batch[Nth(Here, k)].id
  /\ state \notin {"write", "failed"} => refs = <<>> /\ answers = <<>>
  /\ \A k \in 1..Len(refs) : \E i \in 1..Len(input) : Good(i) /\ input[i].id = refs[k].id
  /\ Len(answers) =< Cardinality(Sent)
  /\ \A j \in 1..Len(answers) : answers[j].id = refs[Nth(Sent, j)].id
  /\ kind = "cat" => refs = <<>> /\ applied = {}

(* No two rows say "ok" of one write, and none says it of a write to come. *)
Separate ==
  /\ Apart(All) /\ Apart(answers) /\ Distinct(All, answers)
  /\ \A k \in OkRows(All) : All[k].rev =< clock
  /\ \A k \in OkRows(answers) : answers[k].rev =< clock

Truthful ==
  kind # "cat" =>
    /\ Separate
    /\ Told(All) \subseteq applied
    /\ state # "failed" => applied = Told(All) \cup Told(answers)

(* What is applied and not told has room in one batch. *)
Untold ==
  /\ IsFiniteSet(applied)
  /\ \A w \in applied : \E i \in 1..Len(input) : Good(i) /\ input[i].id = w[1]
  /\ Len(pending) + Cardinality(Left) =< Batch
  /\ state = "failed" => /\ pending = <<>>
                         /\ Cardinality(applied \ Told(handed)) + Cardinality(Sent)
                              =< Batch + Len(answers)

ConsumeInv ==
  /\ ConsumeTypes /\ Batching /\ Tallied /\ InTurn /\ Requested /\ Truthful /\ Untold

-----------------------------------------------------------------------------
(* The steps.                                                              *)

LEMMA LeftIs ==
  ASSUME ConsumeTypes
  PROVE  /\ Left \subseteq 1..Len(batch) /\ IsFiniteSet(Left) /\ Cardinality(Left) \in Nat
         /\ Left \in SUBSET Nat
         /\ ~Handling => Left = {} /\ Cardinality(Left) = 0
<1>1. Len(batch) \in Nat /\ Left \subseteq 1..Len(batch)
  BY DEF ConsumeTypes, Left
<1>2. ~Handling => Left = {}
  BY DEF Left
<1> QED
  BY <1>1, <1>2, Selected, FS_EmptySet

LEMMA SentIs ==
  ASSUME ConsumeTypes
  PROVE  /\ Sent \subseteq 1..Len(refs) /\ IsFiniteSet(Sent) /\ Cardinality(Sent) \in Nat
         /\ Cardinality(Sent) =< Len(refs) /\ Sent \in SUBSET Nat
<1>1. Len(refs) \in Nat /\ Sent \subseteq 1..Len(refs)
  BY DEF ConsumeTypes, Sent
<1> QED
  BY <1>1, Selected

LEMMA SentCounts == ConsumeTypes => Cardinality(Sent) \in Nat
BY SentIs

LEMMA AllIs ==
  ASSUME ConsumeTypes
  PROVE  /\ All \in Seq(Row) /\ Len(All) = Len(handed) + Len(pending)
         /\ Len(All) \in Nat /\ Len(pending) \in Nat /\ Len(handed) \in Nat
         /\ pending = <<>> => All = handed
BY ConcatEmptySeq, AtOf DEF ConsumeTypes, All

LEMMA ConsumeInitially == ConsumeInit => ConsumeInv
<1> SUFFICES ASSUME ConsumeInit PROVE ConsumeInv
  OBVIOUS
<1> USE DEF ConsumeInit
<1>1. /\ seen = 0 /\ batch = <<>> /\ order = <<>> /\ refs = <<>> /\ answers = <<>>
      /\ pending = <<>> /\ handed = <<>> /\ applied = {} /\ state \in {"confirm", "read"}
  OBVIOUS
<1>2. ConsumeTypes
  <2>1. input \in Seq(Value)
    BY ConsumeAssumption DEF Value, Dbs, Ids
  <2>2. cur \in [Dbs -> [Ids -> Nat]]
    BY ConsumeAssumption DEF Dbs, Ids
  <2>3. seen \in 0..Len(input)
    BY <2>1
  <2> QED
    BY <1>1, <2>1, <2>2, <2>3 DEF ConsumeTypes
<1>3. Left = {} /\ Cardinality(Left) = 0 /\ Sent = {} /\ Cardinality(Sent) = 0 /\ All = <<>>
  BY <1>1, <1>2, LeftIs, AllIs, FS_EmptySet DEF Handling, Sent
<1>4. Batching
  BY <1>1 DEF Batching, Handling
<1>5. Tallied
  <2>1. Len(All) = 0
    BY <1>3
  <2>2. \A id : Occurrences(All, id) = 0 /\ UpTo(seen, id) = 0
    <3>1. Len(<<>>) = 0 /\ 1..0 = {}
      OBVIOUS
    <3> QED
      BY <1>1, <1>3, <3>1, FS_EmptySet DEF Occurrences, UpTo
  <2>3. \A id : Naming(batch, Left, id) = {}
    BY <1>3 DEF Naming
  <2>4. Cardinality({}) = 0
    BY FS_EmptySet
  <2>5. \A id \in Ids : Occurrences(All, id) + Cardinality(Naming(batch, Left, id)) = UpTo(seen, id)
    <3> HIDE DEF ConsumeInit
    <3> TAKE id \in Ids
    <3>1. /\ Occurrences(All, id) = 0 /\ UpTo(seen, id) = 0
          /\ Cardinality(Naming(batch, Left, id)) = 0
      BY <2>2, <2>3, <2>4
    <3> QED
      BY <3>1
  <2>6. Len(All) + Cardinality(Left) = seen
    BY <1>1, <1>3, <2>1
  <2> HIDE DEF ConsumeInit
  <2> QED
    BY <2>5, <2>6 DEF Tallied
<1>6. InTurn
  BY <1>2, <1>3 DEF InTurn, ConsumeTypes
<1>7. Requested
  BY <1>1, <1>3 DEF Requested
<1>8. Truthful
  BY <1>1, <1>3 DEF Truthful, Separate, Apart, Distinct, OkRows, Told
<1>9. Untold
  BY <1>1, <1>3, FS_EmptySet, ConsumeAssumption DEF Untold
<1> QED
  BY <1>2, <1>4, <1>5, <1>6, <1>7, <1>8, <1>9 DEF ConsumeInv

(* A stage that ends at this point has told of all but one batch. *)
LEMMA EndsUntold ==
  ASSUME ConsumeInv, state # "failed"
  PROVE  Cardinality(applied \ Told(handed)) + Cardinality(Sent) =< Batch + Len(answers)
<1> USE DEF ConsumeInv
<1>1. /\ IsFiniteSet(Told(pending)) /\ Cardinality(Told(pending)) \in Nat
      /\ Cardinality(Told(pending)) =< Len(pending)
  BY ToldIs DEF ConsumeTypes
<1>2. /\ IsFiniteSet(Told(answers)) /\ Cardinality(Told(answers)) \in Nat
      /\ Cardinality(Told(answers)) =< Len(answers)
  BY ToldIs DEF ConsumeTypes
<1>3. applied \ Told(handed) \subseteq Told(pending) \cup Told(answers)
  <2>1. CASE kind = "cat"
    BY <2>1 DEF Requested
  <2>2. CASE kind # "cat"
    <3>1. Told(All) = Told(handed) \cup Told(pending)
      BY ToldAdds DEF All, ConsumeTypes
    <3> QED
      BY <2>2, <3>1 DEF Truthful
  <2> QED
    BY <2>1, <2>2
<1> DEFINE B == Told(pending) \cup Told(answers)
<1>4. IsFiniteSet(B) /\ Cardinality(B) =< Cardinality(Told(pending)) + Cardinality(Told(answers))
  <2>1. /\ IsFiniteSet(B)
        /\ Cardinality(B) = Cardinality(Told(pending)) + Cardinality(Told(answers))
                              - Cardinality(Told(pending) \cap Told(answers))
    BY <1>1, <1>2, FS_Union
  <2>2. Cardinality(Told(pending) \cap Told(answers)) \in Nat
    BY <1>1, FS_Intersection, FS_CardinalityType
  <2> QED
    BY <1>1, <1>2, <2>1, <2>2
<1>5. /\ Cardinality(applied \ Told(handed)) =< Cardinality(B)
      /\ IsFiniteSet(applied \ Told(handed))
  BY <1>3, <1>4, FS_Subset
<1>6. Cardinality(applied \ Told(handed)) \in Nat /\ Cardinality(B) \in Nat
  BY <1>4, <1>5, FS_CardinalityType
<1> HIDE DEF B
<1>7. Len(pending) \in Nat /\ Len(answers) \in Nat /\ Batch \in Nat /\ Cardinality(Left) \in Nat
      /\ Len(refs) \in Nat /\ Cardinality(Sent) \in Nat /\ Cardinality(Sent) =< Len(refs)
  BY ConsumeAssumption, LeftIs, SentIs DEF ConsumeTypes
<1>8. Len(pending) + Cardinality(Sent) =< Batch
  <2>1. CASE state = "write"
    <3>1. Len(order) \in Nat \ {0} /\ Head(order) = order[1] /\ 1 \in 1..Len(order)
      BY <2>1 DEF Requested, ConsumeTypes
    <3>2. Here \subseteq Left
      BY <2>1, <3>1 DEF Here, Left, Handling
    <3>3. Cardinality(Here) =< Cardinality(Left)
      BY <3>2, LeftIs, FS_Subset
    <3>4. Len(refs) =< Cardinality(Left) /\ Len(pending) + Cardinality(Left) =< Batch
      BY <2>1, <3>3 DEF Requested, Untold
    <3> QED
      BY <1>7, <3>4
  <2>2. CASE state # "write"
    <3>1. refs = <<>> /\ Len(refs) = 0
      BY <2>2 DEF Requested
    <3>2. Len(pending) + Cardinality(Left) =< Batch
      BY DEF Untold
    <3> QED
      BY <1>7, <3>1, <3>2
  <2> QED
    BY <2>1, <2>2
<1>9. Cardinality(Told(pending)) + Cardinality(Told(answers)) =< Len(pending) + Len(answers)
  BY <1>1, <1>2, <1>7
<1> QED
  BY <1>1, <1>2, <1>4, <1>5, <1>6, <1>7, <1>8, <1>9

(* The stage ends before its end. *)
LEMMA StopsKeeps ==
  ASSUME ConsumeInv, state # "failed", state' = "failed", pending' = <<>>,
         seen' \in 0..Len(input),
         (batch' = batch /\ order' = order) \/ (batch' = <<>> /\ order' = <<>>),
         UNCHANGED <<kind, input, cur, clock, refs, answers, handed, applied>>
  PROVE  ConsumeInv'
<1> USE DEF ConsumeInv
<1>1. ConsumeTypes'
  <2>1. batch' \in Seq(Value) /\ order' \in Seq(Dbs) /\ pending' \in Seq(Row)
    BY EmptySeq DEF ConsumeTypes
  <2> QED
    BY <2>1 DEF ConsumeTypes
<1>2. Left' = {} /\ Cardinality(Left)' = 0
  BY FS_EmptySet DEF Left, Handling
<1>3. All' = handed
  BY <1>1, AllIs, ConcatEmptySeq DEF ConsumeTypes, All
<1>4. Batching'
  <2>1. \A i, j \in 1..Len(order') : order'[i] = order'[j] => i = j
    BY DEF Batching
  <2>2. \A i \in 1..Len(order') : \E k \in 1..Len(batch') : batch'[k].db = order'[i]
    BY DEF Batching
  <2> QED
    BY <2>1, <2>2 DEF Batching, Handling
<1>5. Tallied'
  BY DEF Tallied
<1>6. InTurn'
  <2>1. /\ Len(handed) =< Len(All) /\ Len(handed) \in Nat /\ Len(All) \in Nat
        /\ \A k \in 1..Len(handed) : All[k] = handed[k] /\ k \in 1..Len(All)
    BY AllIs, AtOf DEF ConsumeTypes, All
  <2>2. OneDatabase' <=> OneDatabase
    BY DEF OneDatabase
  <2>3. Len(input) \in Nat
    BY DEF ConsumeTypes
  <2> QED
    BY <1>3, <2>1, <2>2, <2>3 DEF InTurn
<1>7. Sent' = Sent
  BY DEF Sent
<1>8. Requested'
  BY <1>7 DEF Requested, Good
<1>9. Truthful'
  <2>1. CASE kind = "cat"
    BY <2>1 DEF Truthful
  <2>2. CASE kind # "cat"
    <3>1. Told(All) = Told(handed) \cup Told(pending)
      BY ToldAdds DEF All, ConsumeTypes
    <3>2. \A k \in OkRows(handed) : k \in OkRows(All) /\ All[k] = handed[k]
      BY AllIs, AtOf DEF ConsumeTypes, All, OkRows
    <3>3. Separate
      BY <2>2 DEF Truthful
    <3>4. Separate'
      <4>1. Apart(handed) /\ Distinct(handed, answers)
        BY <3>2, <3>3 DEF Separate, Apart, Distinct
      <4>2. \A k \in OkRows(handed) : handed[k].rev =< clock
        BY <3>2, <3>3 DEF Separate
      <4> QED
        BY <1>3, <3>3, <4>1, <4>2 DEF Separate
    <3> QED
      BY <1>3, <2>2, <3>1, <3>4 DEF Truthful
  <2> QED
    BY <2>1, <2>2
<1>10. Untold'
  <2>1. Cardinality(applied \ Told(handed)) + Cardinality(Sent) =< Batch + Len(answers)
    BY EndsUntold
  <2>2. Len(pending') + Cardinality(Left)' =< Batch
    BY <1>2, ConsumeAssumption
  <2> QED
    BY <1>7, <2>1, <2>2 DEF Untold, Good
<1> QED
  BY <1>1, <1>4, <1>5, <1>6, <1>8, <1>9, <1>10

(* It goes on to where no value is left, or comes to its end. *)
LEMMA QuietKeeps ==
  ASSUME ConsumeInv, state \in {"confirm", "read", "lookup"}, state' \in {"read", "done"},
         state = "lookup" => order = <<>>,
         state' = "done" => seen = Len(input) /\ pending = <<>>,
         UNCHANGED <<kind, input, cur, clock, seen, batch, order, refs, answers, pending,
                     handed, applied>>
  PROVE  ConsumeInv'
<1> USE DEF ConsumeInv
<1>1. ConsumeTypes'
  BY DEF ConsumeTypes
<1>2. Left' = Left /\ Left = {}
  BY DEF Left, Handling
<1>3. All' = All
  BY DEF All
<1>4. Batching'
  BY DEF Batching, Handling
<1>5. Tallied'
  <2>1. \A id : UpTo(seen, id)' = UpTo(seen, id)
    BY DEF UpTo
  <2> QED
    BY <1>2, <1>3, <2>1 DEF Tallied
<1>6. InTurn'
  BY <1>3 DEF InTurn, OneDatabase
<1>7. Sent' = Sent
  BY DEF Sent
<1>8. Requested'
  BY <1>7 DEF Requested, Good
<1>9. Truthful'
  BY <1>3 DEF Truthful, Separate
<1>10. Untold'
  BY <1>2, <1>7 DEF Untold, Good
<1> QED
  BY <1>1, <1>4, <1>5, <1>6, <1>8, <1>9, <1>10

LEMMA EmitKeeps == ASSUME ConsumeInv, Emit PROVE ConsumeInv'
<1> USE DEF ConsumeInv, Emit
<1>1. /\ pending \in Seq(Row) /\ handed \in Seq(Row) /\ Head(pending) \in Row
      /\ Tail(pending) \in Seq(Row) /\ Len(Tail(pending)) = Len(pending) - 1
      /\ Len(pending) \in Nat
  BY DEF ConsumeTypes
<1>2. ConsumeTypes'
  BY <1>1 DEF ConsumeTypes
<1>3. All' = All
  <2>1. Append(handed, Head(pending)) \o Tail(pending) = handed \o pending
    BY <1>1
  <2> QED
    BY <2>1 DEF All
<1>4. Left' = Left
  BY DEF Left, Handling
<1>5. Batching'
  BY DEF Batching, Handling
<1>6. Tallied'
  <2>1. \A id : UpTo(seen, id)' = UpTo(seen, id)
    BY DEF UpTo
  <2> QED
    BY <1>3, <1>4, <2>1 DEF Tallied
<1>7. InTurn'
  BY <1>3 DEF InTurn, OneDatabase
<1>8. Sent' = Sent
  BY DEF Sent
<1>9. Requested'
  BY <1>8 DEF Requested, Good
<1>10. Truthful'
  BY <1>3 DEF Truthful, Separate
<1>11. Untold'
  <2>1. Len(pending') + Cardinality(Left)' =< Batch
    <3>1. Len(pending) + Cardinality(Left) =< Batch /\ Cardinality(Left) \in Nat /\ Batch \in Nat
      BY LeftIs, ConsumeAssumption DEF Untold
    <3> QED
      BY <1>1, <1>4, <3>1
  <2> QED
    BY <1>8, <2>1 DEF Untold, Good
<1> QED
  BY <1>2, <1>5, <1>6, <1>7, <1>9, <1>10, <1>11

LEMMA OthersKeep ==
  ASSUME ConsumeInv, NEW db \in Dbs, NEW id \in Ids, NEW del \in BOOLEAN, OtherWrites(db, id, del)
  PROVE  ConsumeInv'
<1> USE DEF ConsumeInv, OtherWrites
<1>1. clock \in Nat /\ clock' = clock + 1
  BY DEF ConsumeTypes
<1>2. ConsumeTypes'
  <2>1. cur' \in [Dbs -> [Ids -> Nat]]
    BY <1>1 DEF ConsumeTypes
  <2> QED
    BY <1>1, <2>1 DEF ConsumeTypes
<1>3. All' = All /\ Left' = Left /\ Sent' = Sent
  BY DEF All, Left, Handling, Sent
<1>4. Batching'
  BY DEF Batching, Handling
<1>5. Tallied'
  <2>1. \A i : UpTo(seen, i)' = UpTo(seen, i)
    BY DEF UpTo
  <2> QED
    BY <1>3, <2>1 DEF Tallied
<1>6. InTurn'
  BY <1>3 DEF InTurn, OneDatabase
<1>7. Requested'
  BY <1>3 DEF Requested, Good, Here
<1>8. Truthful'
  <2>1. CASE kind = "cat"
    BY <2>1 DEF Truthful
  <2>2. CASE kind # "cat"
    <3>1. /\ \A k \in OkRows(All) : All[k].rev \in Nat
          /\ \A k \in OkRows(answers) : answers[k].rev \in Nat
      <4>1. \A s \in Seq(Row) : \A k \in OkRows(s) : s[k].rev \in Nat
        BY RowsTyped
      <4>2. All \in Seq(Row) /\ answers \in Seq(Row)
        BY AllIs DEF ConsumeTypes
      <4> HIDE DEF OtherWrites, ConsumeInv
      <4> QED
        BY <4>1, <4>2
    <3>2. Separate
      BY <2>2 DEF Truthful
    <3>3. Separate'
      BY <1>1, <1>3, <3>1, <3>2 DEF Separate
    <3> QED
      BY <1>3, <2>2, <3>3 DEF Truthful
  <2> QED
    BY <2>1, <2>2
<1>9. Untold'
  BY <1>3 DEF Untold, Good
<1> QED
  BY <1>2, <1>4, <1>5, <1>6, <1>7, <1>8, <1>9

LEMMA HereIs ==
  ASSUME ConsumeTypes, Batching, Handling, order # <<>>
  PROVE  /\ Here \subseteq Left /\ Here \subseteq 1..Len(batch)
         /\ \A k \in 1..Len(batch) : k \in Here <=> batch[k].db = order[1]
         /\ 1 \in 1..Len(order) /\ Head(order) = order[1]
         /\ \A k \in Left : k \in Here \/ \E i \in 2..Len(order) : order[i] = batch[k].db
         /\ \A k \in Here : ~ \E i \in 2..Len(order) : order[i] = batch[k].db
<1>1. Len(order) \in Nat \ {0} /\ Head(order) = order[1] /\ 1 \in 1..Len(order)
  BY DEF ConsumeTypes
<1>2. \A k \in 1..Len(batch) : k \in Here <=> batch[k].db = order[1]
  BY <1>1 DEF Here
<1>3. Here \subseteq 1..Len(batch)
  BY DEF Here
<1>4. Here \subseteq Left
  BY <1>1, <1>2, <1>3 DEF Left
<1>5. \A k \in Left : k \in Here \/ \E i \in 2..Len(order) : order[i] = batch[k].db
  <2> TAKE k \in Left
  <2>1. PICK i \in 1..Len(order) : k \in 1..Len(batch) /\ order[i] = batch[k].db
    BY DEF Left
  <2>2. CASE i = 1
    BY <1>2, <2>1, <2>2
  <2>3. CASE i # 1
    <3>1. i \in 2..Len(order)
      BY <1>1, <2>3
    <3> QED
      BY <2>1, <3>1
  <2> QED
    BY <2>2, <2>3
<1>6. \A k \in Here : ~ \E i \in 2..Len(order) : order[i] = batch[k].db
  <2> SUFFICES ASSUME NEW k \in Here, NEW i \in 2..Len(order), order[i] = batch[k].db
               PROVE  FALSE
    OBVIOUS
  <2>1. order[i] = order[1] /\ i \in 1..Len(order) /\ i # 1
    BY <1>1, <1>2, <1>3
  <2> QED
    BY <1>1, <2>1 DEF Batching
<1> QED
  BY <1>1, <1>2, <1>3, <1>4, <1>5, <1>6

(* Rows of the database at hand join those that wait. *)
LEMMA HandedOn ==
  ASSUME ConsumeInv, Handling, order # <<>>,
         NEW rows \in Seq(Row), NamePicked(rows, batch, Here),
         pending' = pending \o rows, order' = Tail(order), state' = "lookup",
         UNCHANGED <<input, seen, batch, handed>>
  PROVE  /\ Batching' /\ Tallied' /\ InTurn' /\ All' = All \o rows
         /\ Len(pending') + Cardinality(Left)' =< Batch
         /\ pending' \in Seq(Row) /\ order' \in Seq(Dbs)
<1> USE DEF ConsumeInv
<1>1. /\ Len(order) \in Nat /\ order' \in Seq(Dbs) /\ Len(order') = Len(order) - 1
      /\ \A i \in 1..Len(order') : order'[i] = order[i + 1] /\ i + 1 \in 1..Len(order)
      /\ \A i \in 2..Len(order) : order'[i - 1] = order[i] /\ i - 1 \in 1..Len(order')
  BY DEF ConsumeTypes
<1>2. /\ pending' \in Seq(Row) /\ Len(pending') = Len(pending) + Len(rows)
      /\ Len(pending) \in Nat /\ Len(rows) \in Nat
  <2>1. pending \in Seq(Row)
    BY DEF ConsumeTypes
  <2> QED
    BY <2>1, AtOf
<1>3. All' = All \o rows
  <2>1. pending \in Seq(Row) /\ handed \in Seq(Row)
    BY DEF ConsumeTypes
  <2>2. handed \o (pending \o rows) = (handed \o pending) \o rows
    BY <2>1, ConcatAssociative
  <2> QED
    BY <2>2 DEF All
<1>4. Here \subseteq Left /\ Here \subseteq 1..Len(batch)
  BY HereIs
<1>5. Left' = Left \ Here
  <2>1. Left' = {k \in 1..Len(batch) : \E i \in 1..Len(order') : order'[i] = batch[k].db}
    BY DEF Left, Handling
  <2>2. \A k \in Left' : k \in Left \ Here
    <3> TAKE k \in Left'
    <3>1. PICK i \in 1..Len(order') : k \in 1..Len(batch) /\ order'[i] = batch[k].db
      BY <2>1
    <3>2. i + 1 \in 2..Len(order) /\ order[i + 1] = batch[k].db /\ i + 1 \in 1..Len(order)
      BY <1>1, <3>1
    <3>3. k \in Left
      BY <3>1, <3>2 DEF Left
    <3>4. k \notin Here
      BY <3>2, HereIs
    <3> QED
      BY <3>3, <3>4
  <2>3. \A k \in Left \ Here : k \in Left'
    <3> TAKE k \in Left \ Here
    <3>1. PICK i \in 2..Len(order) : order[i] = batch[k].db
      BY HereIs
    <3>2. i - 1 \in 1..Len(order') /\ order'[i - 1] = batch[k].db
      BY <1>1, <3>1
    <3>3. k \in 1..Len(batch)
      BY DEF Left
    <3> QED
      BY <2>1, <3>2, <3>3
  <2> QED
    BY <2>2, <2>3
<1>6. \A S : S \subseteq 1..Len(batch) => IsFiniteSet(S) /\ Cardinality(S) \in Nat
  <2>1. PICK n \in Nat : n = Len(batch)
    BY DEF ConsumeTypes
  <2> QED
    BY <2>1, Selected
<1>7. Left \subseteq 1..Len(batch)
  BY DEF Left
<1>8. Cardinality(Left) = Cardinality(Left)' + Cardinality(Here)
  <2>1. Left = Left' \cup Here /\ Left' \cap Here = {} /\ Left' \subseteq 1..Len(batch)
    BY <1>4, <1>5, <1>7
  <2> QED
    BY <1>4, <1>6, <2>1, Disjoint
<1>0. /\ Len(rows) = Cardinality(Here)
      /\ \A j \in 1..Cardinality(Here) : rows[j].id = batch[Nth(Here, j)].id
  BY DEF NamePicked
<1>9. /\ Cardinality(Left) \in Nat /\ Cardinality(Left)' \in Nat /\ Cardinality(Here) \in Nat
  BY <1>4, <1>5, <1>6, <1>7
<1>10. Len(pending') + Cardinality(Left)' =< Batch
  <2>1. Len(pending) + Cardinality(Left) =< Batch /\ Batch \in Nat
    BY ConsumeAssumption DEF Untold
  <2> QED
    BY <1>0, <1>2, <1>8, <1>9, <2>1
<1>11. All \in Seq(Row) /\ Len(All) \in Nat /\ Len(All') = Len(All) + Len(rows)
  BY <1>3, AllIs, AtOf
<1>12. Batching'
  <2>1. \A i, j \in 1..Len(order') : order'[i] = order'[j] => i = j
    <3> TAKE i, j \in 1..Len(order')
    <3> HAVE order'[i] = order'[j]
    <3>1. order[i + 1] = order[j + 1] /\ i + 1 \in 1..Len(order) /\ j + 1 \in 1..Len(order)
      BY <1>1
    <3>2. i + 1 = j + 1
      BY <3>1 DEF Batching
    <3> QED
      BY <3>2
  <2>2. \A i \in 1..Len(order') : \E k \in 1..Len(batch) : batch[k].db = order'[i]
    BY <1>1 DEF Batching
  <2>3. state # "failed"
    BY DEF Handling
  <2> QED
    BY <2>1, <2>2, <2>3 DEF Batching, Handling
<1>13. Tallied'
  <2>0. state # "failed"
    BY DEF Handling
  <2>1. Len(All') + Cardinality(Left)' = seen
    BY <1>0, <1>8, <1>9, <1>11, <2>0 DEF Tallied
  <2>2. ASSUME NEW id \in Ids
        PROVE  Occurrences(All', id) + Cardinality(Naming(batch, Left', id))
                 = UpTo(seen, id)'
    <3> DEFINE A == Naming(batch, Left', id)
               B == Naming(batch, Here, id)
               C == Naming(batch, Left, id)
    <3>1. C = A \cup B /\ A \cap B = {}
      BY <1>4, <1>5 DEF Naming
    <3>2. /\ IsFiniteSet(A) /\ IsFiniteSet(B)
          /\ Cardinality(A) \in Nat /\ Cardinality(B) \in Nat
      <4>1. A \subseteq 1..Len(batch) /\ B \subseteq 1..Len(batch)
        BY <1>4, <1>5, <1>7 DEF Naming
      <4> HIDE DEF A, B
      <4> QED
        BY <1>6, <4>1
    <3>3. Occurrences(rows, id) = Cardinality(B)
      <4>1. IsFiniteSet(Here) /\ Here \in SUBSET Nat
        BY <1>4, LeftIs, FS_Subset
      <4> QED
        BY <4>1, OccurrencesPicked
    <3>4. UpTo(seen, id)' = UpTo(seen, id)
      BY DEF UpTo
    <3>5. Occurrences(All, id) + Cardinality(C) = UpTo(seen, id)
      BY <2>0 DEF Tallied
    <3> HIDE DEF A, B, C
    <3>6. Cardinality(C) = Cardinality(A) + Cardinality(B)
      BY <3>1, <3>2, Disjoint
    <3>7. /\ Occurrences(All \o rows, id) = Occurrences(All, id) + Occurrences(rows, id)
          /\ Occurrences(All, id) \in Nat
      BY <1>11, OccurrencesAdd
    <3>8. Occurrences(All', id) + Cardinality(A) = UpTo(seen, id)
      BY <1>3, <3>2, <3>3, <3>5, <3>6, <3>7
    <3> QED
      BY <3>4, <3>8 DEF A
  <2> QED
    BY <2>1, <2>2 DEF Tallied
<1>14. InTurn'
  <2> SUFFICES ASSUME OneDatabase
               PROVE  Len(All') =< Len(input) /\ \A k \in 1..Len(All') : All'[k].id = input[k].id
    BY DEF InTurn, OneDatabase
  <2>1. /\ Len(batch) =< seen /\ seen \in Nat /\ Len(batch) \in Nat /\ seen =< Len(input)
        /\ Len(input) \in Nat
        /\ \A k \in 1..Len(batch) : batch[k] = input[seen - Len(batch) + k]
    BY DEF Batching, ConsumeTypes
  <2>2. \A k \in 1..Len(batch) : batch[k].db = input[1].db
    <3> TAKE k \in 1..Len(batch)
    <3>1. seen - Len(batch) + k \in 1..Len(input)
      BY <2>1
    <3> QED
      BY <2>1, <3>1 DEF OneDatabase
  <2>3. Here = 1..Len(batch)
    <3>1. order[1] = input[1].db
      BY <2>2, HereIs DEF Batching
    <3> QED
      BY <2>2, <3>1, HereIs
  <2>4. Left = Here /\ Cardinality(Here) = Len(batch)
    BY <1>4, <1>7, <2>1, <2>3, FirstNumbers
  <2>5. Len(All) = seen - Len(batch)
    BY <1>11, <2>1, <2>4 DEF Tallied, Handling
  <2>6. \A j \in 1..Len(rows) : rows[j].id = input[Len(All) + j].id
    <3> TAKE j \in 1..Len(rows)
    <3>1. j \in 1..Len(batch) /\ Nth(Here, j) = j
      BY <1>0, <2>1, <2>3, <2>4, NthOfAll
    <3> QED
      BY <1>0, <2>1, <2>4, <2>5, <3>1
  <2>7. Len(All') =< Len(input)
    BY <1>0, <1>11, <2>1, <2>4, <2>5
  <2>8. \A k \in 1..Len(All') : All'[k].id = input[k].id
    <3> TAKE k \in 1..Len(All')
    <3>1. CASE k =< Len(All)
      <4>1. k \in 1..Len(All) /\ All'[k] = All[k]
        BY <1>3, <1>11, <3>1, AtOf
      <4> QED
        BY <4>1 DEF InTurn
    <3>2. CASE k > Len(All)
      <4>1. PICK j \in 1..Len(rows) : k = Len(All) + j
        <5>1. k - Len(All) \in 1..Len(rows) /\ k = Len(All) + (k - Len(All))
          BY <1>2, <1>11, <3>2
        <5> QED
          BY <5>1
      <4>2. All'[k] = rows[j]
        BY <1>3, <1>11, <4>1, AtOf
      <4> QED
        BY <2>6, <4>1, <4>2
    <3> QED
      BY <1>11, <3>1, <3>2
  <2> QED
    BY <2>7, <2>8
<1> QED
  BY <1>1, <1>2, <1>3, <1>10, <1>12, <1>13, <1>14

LEMMA PickedIs ==
  ASSUME NEW V, NEW s \in Seq(V), NEW S, S \subseteq 1..Len(s)
  PROVE  /\ Picked(s, S) \in Seq(V) /\ Len(Picked(s, S)) = Cardinality(S)
         /\ \A j \in 1..Cardinality(S) : Picked(s, S)[j] = s[Nth(S, j)] /\ Nth(S, j) \in S
<1>1. /\ IsFiniteSet(S) /\ S \in SUBSET Nat /\ Cardinality(S) \in Nat
  <2>1. PICK n \in Nat : n = Len(s)
    OBVIOUS
  <2> QED
    BY <2>1, Selected
<1>2. \A j \in 1..Cardinality(S) : Nth(S, j) \in S
  BY <1>1, NthIs
<1>3. \A j \in 1..Cardinality(S) : s[Nth(S, j)] \in V
  BY <1>2, ElementOfSeq
<1> QED
  BY <1>1, <1>2, <1>3 DEF Picked

LEMMA GroupIs ==
  ASSUME ConsumeTypes, Batching, Handling, order # <<>>
  PROVE  /\ Group \in Seq(Value) /\ Len(Group) = Cardinality(Here)
         /\ \A j \in 1..Len(Group) :
              /\ Group[j].id = batch[Nth(Here, j)].id /\ Group[j] \in Value
              /\ \E i \in 1..Len(input) : Good(i) /\ input[i].id = Group[j].id
<1>1. Here \subseteq 1..Len(batch) /\ batch \in Seq(Value)
  BY HereIs DEF ConsumeTypes
<1>2. /\ Group \in Seq(Value) /\ Len(Group) = Cardinality(Here)
      /\ \A j \in 1..Len(Group) : Group[j] = batch[Nth(Here, j)] /\ Nth(Here, j) \in Here
  BY <1>1, PickedIs DEF Group
<1>3. /\ Len(batch) =< seen /\ seen \in 0..Len(input) /\ Len(batch) \in Nat /\ Len(input) \in Nat
      /\ \A k \in 1..Len(batch) : batch[k] = input[seen - Len(batch) + k]
      /\ \A i \in 1..seen : input[i] # Bad
  BY DEF Batching, ConsumeTypes, Handling
<1>4. \A k \in 1..Len(batch) : \E i \in 1..Len(input) : Good(i) /\ input[i] = batch[k]
  <2> TAKE k \in 1..Len(batch)
  <2>1. PICK i \in 1..seen : i = seen - Len(batch) + k
    <3>1. seen - Len(batch) + k \in 1..seen
      BY <1>3
    <3> QED
      BY <3>1
  <2>2. i \in 1..Len(input) /\ \A j \in 1..i : j \in 1..seen
    BY <1>3
  <2>3. Good(i)
    BY <1>3, <2>2 DEF Good
  <2> QED
    BY <1>3, <2>1, <2>2, <2>3
<1> SUFFICES ASSUME NEW j \in 1..Len(Group)
             PROVE  /\ Group[j].id = batch[Nth(Here, j)].id /\ Group[j] \in Value
                    /\ \E i \in 1..Len(input) : Good(i) /\ input[i].id = Group[j].id
  BY <1>2
<1>5. Group[j] \in Value /\ Group[j] = batch[Nth(Here, j)] /\ Nth(Here, j) \in 1..Len(batch)
  <2>1. Group[j] = batch[Nth(Here, j)] /\ Nth(Here, j) \in 1..Len(batch)
    BY <1>1, <1>2
  <2>2. \A k \in 1..Len(batch) : batch[k] \in Value
    BY <1>1, ElementOfSeq
  <2> QED
    BY <2>1, <2>2
<1> QED
  BY <1>4, <1>5

(* What is looked up is of the same documents. *)
LEMMA LookedUp ==
  ASSUME NEW vs \in Seq(Value), cur \in [Dbs -> [Ids -> Nat]]
  PROVE  /\ Resolve(vs) \in Seq(Value) /\ Len(Resolve(vs)) = Len(vs)
         /\ FillRevisions(vs) \in Seq(Value) /\ Len(FillRevisions(vs)) = Len(vs)
         /\ \A k \in 1..Len(vs) : Resolve(vs)[k].id = vs[k].id /\ FillRevisions(vs)[k].id = vs[k].id
<1>1. Len(vs) \in Nat /\ \A k \in 1..Len(vs) : vs[k] \in Value
  OBVIOUS
<1>2. \A v \in Value : /\ cur[v.db][v.id] \in Nat
                       /\ \A n \in Nat : [v EXCEPT !.rev = n] \in Value /\ [v EXCEPT !.rev = n].id = v.id
  BY DEF Value
<1>3. \A k \in 1..Len(vs) : Resolve(vs)[k] \in Value /\ Resolve(vs)[k].id = vs[k].id
  <2> TAKE k \in 1..Len(vs)
  <2>1. PICK n \in Nat : n = IF \E j \in (k + 1)..Len(vs) : vs[j].id = vs[k].id
                               THEN 0 ELSE cur[vs[k].db][vs[k].id]
    BY <1>1, <1>2
  <2>2. Resolve(vs)[k] = [vs[k] EXCEPT !.rev = n]
    BY <2>1 DEF Resolve
  <2> QED
    BY <1>1, <1>2, <2>2
<1>4. \A k \in 1..Len(vs) : FillRevisions(vs)[k] \in Value /\ FillRevisions(vs)[k].id = vs[k].id
  <2> TAKE k \in 1..Len(vs)
  <2>1. PICK n \in Nat : n = cur[vs[k].db][vs[k].id]
    BY <1>1, <1>2
  <2>2. PICK v \in Value : v = vs[k]
    BY <1>1
  <2>3. FillRevisions(vs)[k] = [v EXCEPT !.rev = n] \/ FillRevisions(vs)[k] = v
    BY <2>1, <2>2 DEF FillRevisions
  <2> QED
    BY <1>2, <2>2, <2>3
<1>5. Len(Resolve(vs)) = Len(vs) /\ Resolve(vs) \in Seq(Value)
  <2>1. DOMAIN Resolve(vs) = 1..Len(vs) /\ Resolve(vs) \in [1..Len(vs) -> Value]
    BY <1>3 DEF Resolve
  <2> QED
    BY <1>1, <2>1
<1>6. Len(FillRevisions(vs)) = Len(vs) /\ FillRevisions(vs) \in Seq(Value)
  <2>1. DOMAIN FillRevisions(vs) = 1..Len(vs) /\ FillRevisions(vs) \in [1..Len(vs) -> Value]
    BY <1>4 DEF FillRevisions
  <2> QED
    BY <1>1, <2>1
<1> QED
  BY <1>3, <1>4, <1>5, <1>6

LEMMA LookupKeeps == ASSUME ConsumeInv, Lookup PROVE ConsumeInv'
<1> USE DEF ConsumeInv, Lookup
<1>1. Handling /\ Handling' /\ state # "failed"
  BY DEF Handling
<1>2. /\ Group \in Seq(Value) /\ Len(Group) = Cardinality(Here)
      /\ \A j \in 1..Len(Group) :
           /\ Group[j].id = batch[Nth(Here, j)].id
           /\ \E i \in 1..Len(input) : Good(i) /\ input[i].id = Group[j].id
  BY <1>1, GroupIs
<1>3. /\ refs' \in Seq(Value) /\ Len(refs') = Len(Group)
      /\ \A j \in 1..Len(refs') : refs'[j].id = Group[j].id
  BY <1>2, LookedUp DEF ConsumeTypes
<1>4. ConsumeTypes'
  BY <1>3 DEF ConsumeTypes
<1>5. Left' = Left /\ All' = All /\ Here' = Here
  BY <1>1 DEF Left, All, Here
<1>6. Batching'
  BY <1>1 DEF Batching
<1>7. Tallied'
  <2>1. \A id : UpTo(seen, id)' = UpTo(seen, id)
    BY DEF UpTo
  <2> QED
    BY <1>1, <1>5, <2>1 DEF Tallied
<1>8. InTurn'
  BY <1>5 DEF InTurn, OneDatabase
<1>9. answers = <<>> /\ Len(answers) = 0
  BY DEF Requested
<1>10. Requested'
  <2>1. \A i : Good(i)' = Good(i)
    BY DEF Good
  <2>2. (Cardinality(Sent) \in Nat)'
    BY <1>4, SentCounts, PTL
  <2>3. /\ Len(refs') = Cardinality(Here')
        /\ \A k \in 1..Len(refs') : refs'[k].id = batch'[Nth(Here', k)].id
    BY <1>2, <1>3, <1>5
  <2>4. \A k \in 1..Len(refs') : \E i \in 1..Len(input') : Good(i)' /\ input'[i].id = refs'[k].id
    BY <1>2, <1>3, <2>1
  <2> QED
    BY <1>9, <2>2, <2>3, <2>4 DEF Requested
<1>11. Truthful'
  BY <1>1, <1>5 DEF Truthful, Separate
<1>12. Untold'
  BY <1>1, <1>5 DEF Untold, Good
<1> QED
  BY <1>4, <1>6, <1>7, <1>8, <1>10, <1>11, <1>12

LEMMA LookupDocsKeeps == ASSUME ConsumeInv, LookupDocs PROVE ConsumeInv'
<1> USE DEF ConsumeInv, LookupDocs
<1>1. Handling /\ state # "failed" /\ order # <<>>
  BY DEF Handling
<1>2. CASE \E k \in 1..Len(Group) : cur[Group[k].db][Group[k].id] = 0
  <2>1. seen \in 0..Len(input)
    BY DEF ConsumeTypes
  <2> QED
    BY <1>1, <1>2, <2>1, StopsKeeps
<1>3. CASE ~ \E k \in 1..Len(Group) : cur[Group[k].db][Group[k].id] = 0
  <2> DEFINE r == [k \in 1..Len(Group) |-> [id |-> Group[k].id,
                                            rev |-> cur[Group[k].db][Group[k].id],
                                            status |-> "ok"]]
  <2>1. PICK rows : rows = r
    OBVIOUS
  <2>2. pending' = pending \o rows /\ order' = Tail(order) /\ state' = "lookup"
    BY <1>3, <2>1
  <2>3. /\ Group \in Seq(Value) /\ Len(Group) = Cardinality(Here) /\ Len(Group) \in Nat
        /\ \A j \in 1..Len(Group) : Group[j].id = batch[Nth(Here, j)].id /\ Group[j] \in Value
    BY <1>1, GroupIs
  <2>4. \A k \in 1..Len(Group) : r[k] \in Row /\ r[k].id = Group[k].id
    BY <2>3 DEF Row, Value, ConsumeTypes
  <2>5. rows \in Seq(Row) /\ Len(rows) = Len(Group) /\ \A k \in 1..Len(Group) : rows[k].id = Group[k].id
    BY <2>1, <2>3, <2>4
  <2> HIDE DEF r
  <2>6. NamePicked(rows, batch, Here)
    BY <2>3, <2>5 DEF NamePicked
  <2>7. /\ Batching' /\ Tallied' /\ InTurn' /\ Len(pending') + Cardinality(Left)' =< Batch
        /\ pending' \in Seq(Row) /\ order' \in Seq(Dbs)
    <3> HIDE DEF LookupDocs, ConsumeInv
    <3>1. UNCHANGED <<input, seen, batch, handed>>
      BY DEF LookupDocs
    <3> QED
      BY <1>1, <2>2, <2>5, <2>6, <3>1, HandedOn
  <2>8. ConsumeTypes'
    BY <2>2, <2>7 DEF ConsumeTypes
  <2>9. refs = <<>> /\ applied = {} /\ answers = <<>> /\ Sent' = Sent
    BY <1>1 DEF Requested, Sent
  <2>10. Requested'
    BY <2>2, <2>9 DEF Requested
  <2>11. Truthful'
    BY DEF Truthful
  <2>12. Untold'
    BY <2>2, <2>7, <2>9, FS_EmptySet DEF Untold
  <2> QED
    BY <2>7, <2>8, <2>10, <2>11, <2>12
<1> QED
  BY <1>2, <1>3

LEMMA BulkDocsKeeps == ASSUME ConsumeInv, BulkDocs PROVE ConsumeInv'
<1> USE DEF ConsumeInv
<1>1. /\ state \in {"write", "failed"} /\ Len(answers) < Cardinality(Sent)
      /\ UNCHANGED <<kind, input, state, seen, batch, order, refs, pending, handed>>
  BY DEF BulkDocs
<1>2. /\ Sent \subseteq 1..Len(refs) /\ IsFiniteSet(Sent) /\ Sent \in SUBSET Nat
      /\ Cardinality(Sent) \in Nat /\ Len(answers) \in Nat
  BY SentIs DEF ConsumeTypes
<1>3. kind # "cat"
  <2>1. kind = "cat" => Len(refs) = 0
    BY DEF Requested
  <2>2. Cardinality(Sent) =< Len(refs) /\ Len(refs) \in Nat
    BY SentIs DEF ConsumeTypes
  <2> QED
    BY <1>1, <1>2, <2>1, <2>2
<1>4. PICK m \in Nat : m = Len(answers) + 1
  BY <1>2
<1>5. m \in 1..Cardinality(Sent)
  BY <1>1, <1>2, <1>4
<1>6. Nth(Sent, m) \in 1..Len(refs)
  BY <1>2, <1>5, NthIs
<1>7. PICK d \in Value : d = refs[Nth(Sent, m)]
  BY <1>6 DEF ConsumeTypes
<1>8. PICK a \in Row :
        /\ answers' = Append(answers, a) /\ a.id = d.id
        /\ applied' = applied \cup Told(<<a>>)
        /\ cur' \in [Dbs -> [Ids -> Nat]] /\ clock' \in Nat /\ clock =< clock'
        /\ a.status = "ok" => a.rev = clock + 1 /\ clock' = clock + 1
  <2>1. clock \in Nat /\ cur \in [Dbs -> [Ids -> Nat]] /\ d.db \in Dbs /\ d.id \in Ids
    BY <1>7 DEF ConsumeTypes, Value
  <2> DEFINE ok == cur[d.db][d.id] = d.rev /\ (kind = "rm" => d.rev # 0)
             yes == [id |-> d.id, rev |-> clock + 1, status |-> "ok"]
             no == [id |-> d.id, rev |-> 0, status |-> "conflict"]
  <2>2. /\ yes \in Row /\ yes.id = d.id /\ yes.status = "ok" /\ yes.rev = clock + 1
        /\ no \in Row /\ no.id = d.id /\ no.status # "ok"
    BY <2>1 DEF Row
  <2>3. /\ ok => /\ cur' = [cur EXCEPT ![d.db][d.id] = IF kind = "rm" THEN 0 ELSE clock + 1]
                 /\ clock' = clock + 1
                 /\ applied' = applied \cup {<<d.id, clock + 1>>}
                 /\ answers' = Append(answers, yes)
        /\ ~ok => answers' = Append(answers, no) /\ UNCHANGED <<cur, clock, applied>>
    BY <1>4, <1>7 DEF BulkDocs
  <2>4. CASE ok
    <3>1. Told(<<yes>>) = {<<d.id, clock + 1>>}
      BY <2>2, ToldOne
    <3>2. cur' \in [Dbs -> [Ids -> Nat]]
      <4>1. PICK n \in Nat : n = IF kind = "rm" THEN 0 ELSE clock + 1
        BY <2>1
      <4>2. cur' = [cur EXCEPT ![d.db][d.id] = n]
        BY <2>3, <2>4, <4>1
      <4> QED
        BY <2>1, <4>2
    <3>3. applied' = applied \cup Told(<<yes>>) /\ answers' = Append(answers, yes)
      BY <2>3, <2>4, <3>1
    <3>4. clock' = clock + 1 /\ clock' \in Nat /\ clock =< clock'
      BY <2>1, <2>3, <2>4
    <3> HIDE DEF ok, yes, no
    <3> QED
      BY <2>2, <3>2, <3>3, <3>4
  <2>5. CASE ~ok
    <3>1. Told(<<no>>) = {}
      BY <2>2, ToldOne
    <3>2. applied' = applied \cup Told(<<no>>) /\ answers' = Append(answers, no)
      BY <2>3, <2>5, <3>1
    <3>3. clock' \in Nat /\ clock =< clock' /\ cur' \in [Dbs -> [Ids -> Nat]]
      BY <2>1, <2>3, <2>5
    <3> HIDE DEF ok, yes, no
    <3> QED
      BY <2>2, <3>2, <3>3
  <2> QED
    BY <2>4, <2>5
<1>9. /\ answers \in Seq(Row) /\ answers' \in Seq(Row) /\ Len(answers') = m
      /\ \A j \in 1..Len(answers) : answers'[j] = answers[j]
      /\ answers'[m] = a
      /\ <<a>> \in Seq(Row) /\ answers' = answers \o <<a>>
  BY <1>4, <1>8 DEF ConsumeTypes
<1>10. ConsumeTypes'
  BY <1>1, <1>8, <1>9 DEF ConsumeTypes
<1>11. All' = All /\ Left' = Left /\ Sent' = Sent /\ Here' = Here
  BY <1>1 DEF All, Left, Handling, Sent, Here
<1>12. Batching'
  BY <1>1 DEF Batching, Handling
<1>13. Tallied'
  <2>1. \A i : UpTo(seen, i)' = UpTo(seen, i)
    BY <1>1 DEF UpTo
  <2> QED
    BY <1>1, <1>11, <2>1 DEF Tallied
<1>14. InTurn'
  BY <1>1, <1>11 DEF InTurn, OneDatabase
<1>15. Requested'
  <2>1. \A i : Good(i)' = Good(i)
    BY <1>1 DEF Good
  <2>2. Len(answers') =< Cardinality(Sent)'
    BY <1>5, <1>9, <1>11
  <2>3. \A j \in 1..Len(answers') : answers'[j].id = refs[Nth(Sent, j)].id
    <3> TAKE j \in 1..Len(answers')
    <3>1. CASE j = m
      BY <1>7, <1>8, <1>9, <3>1
    <3>2. CASE j # m
      <4>1. j \in 1..Len(answers)
        BY <1>2, <1>4, <1>9, <3>2
      <4> QED
        BY <1>9, <4>1 DEF Requested
    <3> QED
      BY <3>1, <3>2
  <2>4. state = "write" => order # <<>> /\ Len(refs) = Cardinality(Here)
    BY DEF Requested
  <2> QED
    BY <1>1, <1>3, <1>11, <2>1, <2>2, <2>3 DEF Requested
<1>16. Separate
  BY <1>3 DEF Truthful
<1>17. clock \in Nat /\ \A k \in OkRows(<<a>>) : k = 1 /\ a.status = "ok" /\ <<a>>[k] = a
  BY DEF OkRows, ConsumeTypes
<1>18. Told(answers') = Told(answers) \cup Told(<<a>>)
  BY <1>9, ToldAdds
<1>19. \A k \in OkRows(answers') : \/ k \in OkRows(answers) /\ answers'[k] = answers[k]
                                   \/ a.status = "ok" /\ answers'[k] = a
  <2> TAKE k \in OkRows(answers')
  <2>1. k \in 1..m /\ answers'[k].status = "ok"
    BY <1>9 DEF OkRows
  <2>2. CASE k = m
    BY <1>9, <2>1, <2>2
  <2>3. CASE k # m
    <3>1. k \in 1..Len(answers)
      BY <1>2, <1>4, <2>1, <2>3
    <3> QED
      BY <1>9, <2>1, <3>1 DEF OkRows
  <2> QED
    BY <2>2, <2>3
<1>20. /\ \A k \in OkRows(All) : All[k].rev \in Nat /\ All[k].rev =< clock
       /\ \A k \in OkRows(answers) : answers[k].rev \in Nat /\ answers[k].rev =< clock
  <2>1. All \in Seq(Row)
    BY AllIs
  <2> QED
    BY <1>9, <1>16, <2>1, RowsTyped DEF Separate
<1>21. Separate'
  <2>1. Apart(answers')
    <3>1. Apart(<<a>>)
      BY <1>17 DEF Apart
    <3>2. Distinct(answers, <<a>>)
      BY <1>8, <1>17, <1>20 DEF Distinct
    <3>3. Apart(answers)
      BY <1>16 DEF Separate
    <3> QED
      BY <1>9, <3>1, <3>2, <3>3, ApartAdds
  <2>2. Distinct(All, answers')
    <3> SUFFICES ASSUME NEW i \in OkRows(All), NEW j \in OkRows(answers')
                 PROVE  All[i].rev # answers'[j].rev
      BY DEF Distinct
    <3>1. CASE j \in OkRows(answers) /\ answers'[j] = answers[j]
      BY <1>16, <3>1 DEF Separate, Distinct
    <3>2. CASE a.status = "ok" /\ answers'[j] = a
      BY <1>8, <1>17, <1>20, <3>2
    <3> QED
      BY <1>19, <3>1, <3>2
  <2>3. \A k \in OkRows(All) : All[k].rev =< clock'
    BY <1>8, <1>17, <1>20
  <2>4. \A k \in OkRows(answers') : answers'[k].rev =< clock'
    <3> TAKE k \in OkRows(answers')
    <3>1. CASE k \in OkRows(answers) /\ answers'[k] = answers[k]
      BY <1>8, <1>17, <1>20, <3>1
    <3>2. CASE a.status = "ok" /\ answers'[k] = a
      BY <1>8, <1>17, <3>2
    <3> QED
      BY <1>19, <3>1, <3>2
  <2> QED
    BY <1>11, <1>16, <2>1, <2>2, <2>3, <2>4 DEF Separate
<1>22. Truthful'
  <2>1. Told(All) \subseteq applied /\ (state # "failed" => applied = Told(All) \cup Told(answers))
    BY <1>3 DEF Truthful
  <2> QED
    BY <1>1, <1>8, <1>11, <1>18, <1>21, <2>1 DEF Truthful
<1>23. Untold'
  <2>1. IsFiniteSet(Told(<<a>>)) /\ Cardinality(Told(<<a>>)) \in Nat /\ Cardinality(Told(<<a>>)) =< 1
    <3>1. Len(<<a>>) = 1
      OBVIOUS
    <3> QED
      BY <1>9, <3>1, ToldIs
  <2>2. IsFiniteSet(applied) /\ IsFiniteSet(applied')
    BY <1>8, <2>1, FS_Union DEF Untold
  <2>3. \A w \in applied' : \E i \in 1..Len(input) : Good(i) /\ input[i].id = w[1]
    <3> TAKE w \in applied'
    <3>1. CASE w \in applied
      BY <3>1 DEF Untold
    <3>2. CASE w \in Told(<<a>>)
      <4>1. w = <<a.id, a.rev>>
        BY <3>2, ToldOne
      <4>2. w[1] = refs[Nth(Sent, m)].id
        BY <1>7, <1>8, <4>1
      <4> QED
        BY <1>6, <4>2 DEF Requested
    <3> QED
      BY <1>8, <3>1, <3>2
  <2>4. state = "failed" => Cardinality(applied' \ Told(handed)) + Cardinality(Sent)
                              =< Batch + Len(answers')
    <3>1. applied' \ Told(handed) \subseteq (applied \ Told(handed)) \cup Told(<<a>>)
      BY <1>8
    <3> DEFINE X == applied \ Told(handed)
    <3>2. IsFiniteSet(X) /\ Cardinality(X) \in Nat
      BY <2>2, FS_Difference, FS_CardinalityType
    <3> HIDE DEF X
    <3>3. /\ IsFiniteSet(X \cup Told(<<a>>))
          /\ Cardinality(X \cup Told(<<a>>)) = Cardinality(X) + Cardinality(Told(<<a>>))
               - Cardinality(X \cap Told(<<a>>))
      BY <2>1, <3>2, FS_Union
    <3>4. Cardinality(X \cap Told(<<a>>)) \in Nat
      BY <3>2, FS_Intersection, FS_CardinalityType
    <3>5. /\ IsFiniteSet(applied' \ Told(handed))
          /\ Cardinality(applied' \ Told(handed)) =< Cardinality(X \cup Told(<<a>>))
      BY <3>1, <3>3, FS_Subset DEF X
    <3>6. Cardinality(applied' \ Told(handed)) \in Nat
      BY <3>5, FS_CardinalityType
    <3>7. Cardinality(applied' \ Told(handed)) =< Cardinality(X) + 1
      BY <2>1, <3>2, <3>3, <3>4, <3>5, <3>6
    <3>8. state = "failed" => Cardinality(X) + Cardinality(Sent) =< Batch + Len(answers)
      BY DEF Untold, X
    <3>9. Batch \in Nat
      BY ConsumeAssumption
    <3> QED
      BY <1>2, <1>4, <1>9, <3>2, <3>6, <3>7, <3>8, <3>9
  <2>5. \A i : Good(i)' = Good(i)
    BY <1>1 DEF Good
  <2> QED
    BY <1>1, <1>11, <2>2, <2>3, <2>4, <2>5 DEF Untold
<1> QED
  BY <1>10, <1>12, <1>13, <1>14, <1>15, <1>22, <1>23

(* Every answer is in the row of the value it answers. *)
LEMMA RowsAre ==
  ASSUME ConsumeTypes, Requested, Len(answers) = Cardinality(Sent)
  PROVE  /\ Rows \in Seq(Row) /\ Len(Rows) = Len(refs)
         /\ \A k \in 1..Len(refs) : Rows[k].id = refs[k].id
         /\ \A k \in OkRows(Rows) : /\ k \in Sent /\ Rank(Sent, k) \in OkRows(answers)
                                    /\ Rows[k] = answers[Rank(Sent, k)]
         /\ Told(Rows) = Told(answers)
<1>1. /\ Sent \subseteq 1..Len(refs) /\ IsFiniteSet(Sent) /\ Sent \in SUBSET Nat
      /\ Cardinality(Sent) \in Nat /\ Len(refs) \in Nat
      /\ answers \in Seq(Row) /\ refs \in Seq(Value)
  BY SentIs DEF ConsumeTypes
<1>2. \A k \in Sent : /\ Rank(Sent, k) \in 1..Len(answers) /\ Nth(Sent, Rank(Sent, k)) = k
                      /\ Rows[k] = answers[Rank(Sent, k)] /\ answers[Rank(Sent, k)] \in Row
  <2> TAKE k \in Sent
  <2>1. Rank(Sent, k) \in 1..Len(answers) /\ Nth(Sent, Rank(Sent, k)) = k
    BY <1>1, RankIs, NthIs
  <2>2. Rows[k] = answers[Rank(Sent, k)]
    BY <1>1 DEF Rows
  <2> QED
    BY <1>1, <2>1, <2>2, ElementOfSeq
<1>3. \A k \in (1..Len(refs)) \ Sent :
        Rows[k] \in Row /\ Rows[k].id = refs[k].id /\ Rows[k].status # "ok"
  <2> TAKE k \in (1..Len(refs)) \ Sent
  <2>1. Rows[k] = [id |-> refs[k].id, rev |-> 0, status |-> "not_found"]
    BY DEF Rows
  <2>2. refs[k].id \in Ids
    <3>1. refs[k] \in Value
      BY <1>1, ElementOfSeq
    <3> QED
      BY <3>1 DEF Value
  <2> QED
    BY <2>1, <2>2 DEF Row
<1>4. \A k \in 1..Len(refs) : Rows[k] \in Row
  BY <1>2, <1>3
<1>5. \A k \in 1..Len(refs) : Rows[k].id = refs[k].id
  <2> TAKE k \in 1..Len(refs)
  <2>1. CASE k \in Sent
    BY <1>2, <2>1 DEF Requested
  <2>2. CASE k \notin Sent
    BY <1>3, <2>2
  <2> QED
    BY <2>1, <2>2
<1>6. Rows \in Seq(Row) /\ Len(Rows) = Len(refs)
  <2>1. DOMAIN Rows = 1..Len(refs) /\ Rows \in [1..Len(refs) -> Row]
    BY <1>4 DEF Rows
  <2> QED
    BY <1>1, <2>1
<1>7. \A k \in OkRows(Rows) : /\ k \in Sent /\ Rank(Sent, k) \in OkRows(answers)
                              /\ Rows[k] = answers[Rank(Sent, k)]
  <2> TAKE k \in OkRows(Rows)
  <2>1. k \in 1..Len(refs) /\ Rows[k].status = "ok"
    BY <1>6 DEF OkRows
  <2>2. k \in Sent
    BY <1>3, <2>1
  <2> QED
    BY <1>2, <2>1, <2>2 DEF OkRows
<1>8. \A x \in Told(Rows) : x \in Told(answers)
  BY <1>7 DEF Told
<1>9. \A x \in Told(answers) : x \in Told(Rows)
  <2> TAKE x \in Told(answers)
  <2>1. PICK j \in OkRows(answers) : x = <<answers[j].id, answers[j].rev>>
    BY DEF Told
  <2>2. j \in 1..Cardinality(Sent) /\ answers[j].status = "ok"
    BY <2>1 DEF OkRows
  <2>3. Nth(Sent, j) \in Sent /\ Rank(Sent, Nth(Sent, j)) = j
    BY <1>1, <2>2, NthIs
  <2>4. PICK k \in Sent : k = Nth(Sent, j)
    BY <2>3
  <2>5. Rows[k] = answers[j]
    BY <1>2, <2>3, <2>4
  <2>6. k \in OkRows(Rows)
    BY <1>1, <1>6, <2>2, <2>4, <2>5 DEF OkRows
  <2> QED
    BY <2>1, <2>5, <2>6 DEF Told
<1>10. Told(Rows) = Told(answers)
  BY <1>8, <1>9
<1> QED
  BY <1>5, <1>6, <1>7, <1>10

LEMMA BulkWriteKeeps == ASSUME ConsumeInv, BulkWrite PROVE ConsumeInv'
<1> USE DEF ConsumeInv
<1>1. /\ Handling /\ state = "write" /\ state' = "lookup" /\ order # <<>> /\ kind # "cat"
      /\ Len(answers) = Cardinality(Sent) /\ pending' = pending \o Rows /\ order' = Tail(order)
      /\ refs' = <<>> /\ answers' = <<>>
      /\ UNCHANGED <<kind, input, cur, clock, seen, batch, handed, applied>>
  <2>1. /\ state = "write" /\ state' = "lookup" /\ order' = Tail(order)
        /\ Len(answers) = Cardinality(Sent) /\ pending' = pending \o Rows
        /\ refs' = <<>> /\ answers' = <<>>
        /\ UNCHANGED <<kind, input, cur, clock, seen, batch, handed, applied>>
    BY DEF BulkWrite
  <2>2. Handling
    BY <2>1 DEF Handling
  <2>3. order # <<>>
    BY <2>1 DEF Requested
  <2>4. kind # "cat"
    <3> SUFFICES ASSUME kind = "cat" PROVE FALSE
      OBVIOUS
    <3>1. refs = <<>> /\ Len(refs) = 0
      BY DEF Requested
    <3>2. Cardinality(Here) = 0
      BY <2>1, <3>1 DEF Requested
    <3>3. IsFiniteSet(Here) /\ Here # {}
      <4>1. PICK k \in 1..Len(batch) : batch[k].db = order[1]
        BY <2>2, <2>3, HereIs DEF Batching
      <4>2. k \in Here /\ Here \subseteq Left /\ IsFiniteSet(Left)
        BY <2>2, <2>3, <4>1, HereIs, LeftIs
      <4> QED
        BY <4>2, FS_Subset
    <3> QED
      BY <3>2, <3>3, FS_EmptySet
  <2> QED
    BY <2>1, <2>2, <2>3, <2>4
<1>2. PICK rows \in Seq(Row) : rows = Rows
  BY <1>1, RowsAre
<1>3. /\ Len(rows) = Len(refs) /\ \A k \in 1..Len(refs) : rows[k].id = refs[k].id
      /\ \A k \in OkRows(rows) : /\ k \in Sent /\ Rank(Sent, k) \in OkRows(answers)
                                 /\ rows[k] = answers[Rank(Sent, k)]
      /\ Told(rows) = Told(answers)
  BY <1>1, <1>2, RowsAre
<1>4. NamePicked(rows, batch, Here)
  BY <1>1, <1>3 DEF NamePicked, Requested
<1>5. /\ Batching' /\ Tallied' /\ InTurn' /\ All' = All \o rows
      /\ Len(pending') + Cardinality(Left)' =< Batch
      /\ pending' \in Seq(Row) /\ order' \in Seq(Dbs)
  <2> HIDE DEF ConsumeInv
  <2> QED
    BY <1>1, <1>2, <1>4, HandedOn
<1>6. ConsumeTypes'
  BY <1>1, <1>5, EmptySeq DEF ConsumeTypes
<1>7. Requested'
  <2>1. Sent' = {} /\ Cardinality(Sent)' = 0
    BY <1>1, FS_EmptySet DEF Sent
  <2> QED
    BY <1>1, <2>1 DEF Requested
<1>8. Separate /\ applied = Told(All) \cup Told(answers)
  BY <1>1 DEF Truthful
<1>9. Apart(rows)
  <2>1. IsFiniteSet(Sent) /\ Sent \in SUBSET Nat
    BY SentIs
  <2> SUFFICES ASSUME NEW i \in OkRows(rows), NEW j \in OkRows(rows), rows[i].rev = rows[j].rev
               PROVE  i = j
    BY DEF Apart
  <2>2. Rank(Sent, i) = Rank(Sent, j)
    BY <1>3, <1>8 DEF Separate, Apart
  <2> QED
    BY <1>3, <2>1, <2>2, RankIs
<1>10. Distinct(All, rows)
  BY <1>3, <1>8 DEF Separate, Distinct
<1>11. All \in Seq(Row)
  BY AllIs
<1>12. Apart(All \o rows)
  BY <1>8, <1>9, <1>10, <1>11, ApartAdds DEF Separate
<1>13. Told(All \o rows) = Told(All) \cup Told(answers)
  BY <1>2, <1>3, <1>11, ToldAdds
<1>14. \A k \in OkRows(All \o rows) : (All \o rows)[k].rev =< clock
  <2>1. \A x \in Told(All) : x[2] =< clock
    BY <1>8 DEF Told, Separate
  <2>2. \A x \in Told(answers) : x[2] =< clock
    BY <1>8 DEF Told, Separate
  <2> TAKE k \in OkRows(All \o rows)
  <2>3. <<(All \o rows)[k].id, (All \o rows)[k].rev>> \in Told(All \o rows)
    BY DEF Told
  <2>4. PICK i, r : i = (All \o rows)[k].id /\ r = (All \o rows)[k].rev
    OBVIOUS
  <2>5. <<i, r>> \in Told(All) \/ <<i, r>> \in Told(answers)
    BY <1>13, <2>3, <2>4
  <2>6. <<i, r>>[2] =< clock
    BY <2>1, <2>2, <2>5
  <2> QED
    BY <2>4, <2>6
<1>15. Truthful'
  <2>1. OkRows(<<>>) = {} /\ Told(<<>>) = {}
    BY DEF OkRows, Told
  <2>2. Separate'
    BY <1>1, <1>5, <1>12, <1>14, <2>1 DEF Separate, Apart, Distinct
  <2> QED
    BY <1>1, <1>5, <1>8, <1>13, <2>1, <2>2 DEF Truthful
<1>16. Untold'
  BY <1>1, <1>5 DEF Untold, Good
<1> QED
  BY <1>5, <1>6, <1>7, <1>15, <1>16

(* The databases of some values, each once. *)
DatabasesOf(ds, vs) ==
  /\ ds \in Seq(Dbs)
  /\ \A i, j \in 1..Len(ds) : ds[i] = ds[j] => i = j
  /\ \A i \in 1..Len(ds) : \E k \in 1..Len(vs) : vs[k].db = ds[i]
  /\ \A k \in 1..Len(vs) : \E i \in 1..Len(ds) : ds[i] = vs[k].db

LEMMA ByDatabaseIs ==
  ASSUME NEW vs \in Seq(Value)
  PROVE  DatabasesOf(ByDatabase(vs), vs)
<1> DEFINE ns == [k \in 1..Len(vs) |-> vs[k].db]
           F == {k \in 1..Len(vs) : \A j \in 1..(k - 1) : vs[j].db # vs[k].db}
           ds == Picked(ns, F)
<1>1. /\ Len(vs) \in Nat /\ \A k \in 1..Len(vs) : vs[k] \in Value /\ vs[k].db \in Dbs
  <2>1. Len(vs) \in Nat /\ \A k \in 1..Len(vs) : vs[k] \in Value
    BY ElementOfSeq
  <2> QED
    BY <2>1 DEF Value
<1>2. ns \in Seq(Dbs) /\ Len(ns) = Len(vs) /\ \A k \in 1..Len(vs) : ns[k] = vs[k].db
  <2>1. DOMAIN ns = 1..Len(vs) /\ ns \in [1..Len(vs) -> Dbs]
    BY <1>1
  <2> QED
    BY <1>1, <2>1
<1>3. /\ F \subseteq 1..Len(vs)
      /\ \A k \in F : \A j \in 1..(k - 1) : vs[j].db # vs[k].db
  OBVIOUS
<1>4. \A k \in 1..Len(vs) : \E j \in F : vs[j].db = vs[k].db
  <2> TAKE k \in 1..Len(vs)
  <2> DEFINE S == {j \in 1..Len(vs) : vs[j].db = vs[k].db}
  <2>1. k \in S /\ S \subseteq Nat
    OBVIOUS
  <2> HIDE DEF S
  <2>2. PICK m \in S : \A j \in S : m =< j
    BY <2>1, Least
  <2>3. m \in F
    <3>1. m \in 1..Len(vs) /\ vs[m].db = vs[k].db
      BY <2>2 DEF S
    <3>2. \A j \in 1..(m - 1) : j \in 1..Len(vs) /\ ~ (m =< j)
      BY <1>1, <3>1
    <3>3. \A j \in 1..(m - 1) : vs[j].db # vs[m].db
      BY <2>2, <3>1, <3>2 DEF S
    <3> QED
      BY <3>1, <3>3
  <2> QED
    BY <2>2, <2>3 DEF S
<1>5. \A j, k \in F : vs[j].db = vs[k].db => j = k
  <2> TAKE j, k \in F
  <2> HAVE vs[j].db = vs[k].db
  <2>1. j \in 1..Len(vs) /\ k \in 1..Len(vs)
    OBVIOUS
  <2>2. ~ (j \in 1..(k - 1)) /\ ~ (k \in 1..(j - 1))
    OBVIOUS
  <2> QED
    BY <1>1, <2>1, <2>2
<1> HIDE DEF ns, F
<1>6. /\ ds \in Seq(Dbs) /\ Len(ds) = Cardinality(F)
      /\ \A i \in 1..Len(ds) : ds[i] = vs[Nth(F, i)].db /\ Nth(F, i) \in F
  <2>1. /\ Picked(ns, F) \in Seq(Dbs) /\ Len(Picked(ns, F)) = Cardinality(F)
        /\ \A j \in 1..Cardinality(F) : Picked(ns, F)[j] = ns[Nth(F, j)] /\ Nth(F, j) \in F
    <3>1. ns \in Seq(Dbs) /\ F \subseteq 1..Len(ns)
      BY <1>2, <1>3
    <3> QED
      BY <3>1, PickedIs
  <2> QED
    BY <1>2, <1>3, <2>1
<1>7. IsFiniteSet(F) /\ F \in SUBSET Nat
  BY <1>1, <1>3, Selected
<1> HIDE DEF ds
<1>8. \A i, j \in 1..Len(ds) : ds[i] = ds[j] => i = j
  <2> TAKE i, j \in 1..Len(ds)
  <2> HAVE ds[i] = ds[j]
  <2>1. Nth(F, i) = Nth(F, j)
    BY <1>5, <1>6
  <2> QED
    BY <1>6, <1>7, <2>1, NthIs
<1>9. \A i \in 1..Len(ds) : \E k \in 1..Len(vs) : vs[k].db = ds[i]
  BY <1>3, <1>6
<1>10. \A k \in 1..Len(vs) : \E i \in 1..Len(ds) : ds[i] = vs[k].db
  <2> TAKE k \in 1..Len(vs)
  <2>1. PICK j \in F : vs[j].db = vs[k].db
    BY <1>4
  <2>2. Rank(F, j) \in 1..Len(ds) /\ Nth(F, Rank(F, j)) = j
    BY <1>6, <1>7, RankIs, NthIs
  <2> QED
    BY <1>6, <2>1, <2>2
<1>11. ByDatabase(vs) = ds
  BY DEF ByDatabase, ds, ns, F
<1> QED
  BY <1>6, <1>8, <1>9, <1>10, <1>11 DEF DatabasesOf

LEMMA NoDatabase == ByDatabase(<<>>) = <<>>
<1>1. Len(<<>>) = 0 /\ 1..0 = {}
  OBVIOUS
<1>2. \A s : Picked(s, {}) = <<>>
  BY <1>1, FS_EmptySet DEF Picked
<1> QED
  BY <1>1, <1>2 DEF ByDatabase

(* A batch of values that will do is taken. *)
LEMMA TakenKeeps ==
  ASSUME ConsumeInv, Idle, NEW n \in 1..Batch, seen + n =< Len(input), seen' = seen + n,
         batch' = SubSeq(input, seen + 1, seen + n), order' = ByDatabase(batch'),
         ~Contains(batch', Bad), state' = "lookup",
         UNCHANGED <<kind, input, cur, clock, refs, answers, pending, handed, applied, others>>
  PROVE  ConsumeInv'
<1> USE DEF ConsumeInv
<1>1. /\ state = "read" /\ pending = <<>> /\ ~Handling /\ Handling' /\ seen \in Nat /\ n \in Nat
      /\ seen =< Len(input) /\ Len(input) \in Nat /\ input \in Seq(Value) /\ Batch \in Nat
  BY ConsumeAssumption DEF Idle, Handling, ConsumeTypes
<1>2. PICK vs : vs = SubSeq(input, seen + 1, seen + n)
  OBVIOUS
<1>3. /\ vs \in Seq(Value) /\ Len(vs) = n
      /\ \A k \in 1..n : vs[k] = input[seen + k] /\ seen + k \in 1..Len(input)
  <2> HIDE DEF ConsumeInv
  <2>1. PICK m \in Nat : m = seen
    BY <1>1
  <2>2. /\ m + n =< Len(input) /\ m + 1 \in 1..(Len(input) + 1) /\ m + n \in 0..Len(input)
        /\ (m + n) - (m + 1) + 1 = n /\ vs = SubSeq(input, m + 1, m + n)
        /\ \A k \in 1..n : (m + 1) + k - 1 = m + k /\ m + k \in 1..Len(input)
    BY <1>1, <1>2, <2>1
  <2>3. vs \in Seq(Value) /\ Len(vs) = n
    BY <1>1, <2>2
  <2>4. \A k \in 1..n : vs[k] = input[m + k]
    BY <1>1, <2>2
  <2> QED
    BY <2>1, <2>2, <2>3, <2>4
<1>4. batch' = vs /\ order' = ByDatabase(vs)
  BY <1>2
<1>5. /\ order' \in Seq(Dbs)
      /\ \A i, j \in 1..Len(order') : order'[i] = order'[j] => i = j
      /\ \A i \in 1..Len(order') : \E k \in 1..n : vs[k].db = order'[i]
      /\ \A k \in 1..n : \E i \in 1..Len(order') : order'[i] = vs[k].db
  <2>1. DatabasesOf(order', vs)
    BY <1>3, <1>4, ByDatabaseIs
  <2> QED
    BY <1>3, <2>1 DEF DatabasesOf
<1>6. ConsumeTypes'
  <2>1. seen' \in 0..Len(input)
    BY <1>1
  <2> QED
    BY <1>3, <1>4, <1>5, <2>1 DEF ConsumeTypes
<1>7. Left = {} /\ Cardinality(Left) = 0
  <2>1. ConsumeTypes
    OBVIOUS
  <2> HIDE DEF ConsumeInv
  <2> QED
    BY <1>1, <2>1, LeftIs
<1>8. Left' = 1..n
  <2>1. /\ Len(batch') = n /\ Handling'
        /\ \A k \in 1..n : \E i \in 1..Len(order') : order'[i] = batch'[k].db
    <3> HIDE DEF ConsumeInv
    <3>1. Len(batch') = n /\ Handling'
      BY <1>1, <1>3, <1>4
    <3>2. \A k \in 1..n : \E i \in 1..Len(order') : order'[i] = vs[k].db
      BY <1>5
    <3> QED
      BY <1>4, <3>1, <3>2
  <2>2. Left' = {k \in 1..Len(batch') : Handling' /\ \E i \in 1..Len(order') : order'[i] = batch'[k].db}
    BY DEF Left
  <2> HIDE DEF ConsumeInv
  <2> QED
    BY <2>1, <2>2
<1>9. Cardinality(Left)' = n
  BY <1>1, <1>8, FirstNumbers
<1>10. All' = All
  BY DEF All
<1>11. \A j \in 1..(seen + n) : input[j] # Bad
  <2> TAKE j \in 1..(seen + n)
  <2>1. CASE j =< seen
    BY <1>1, <2>1 DEF Batching
  <2>2. CASE j > seen
    <3>1. PICK k \in 1..n : j = seen + k
      <4>1. j - seen \in 1..n /\ j = seen + (j - seen)
        BY <1>1, <2>2
      <4> QED
        BY <4>1
    <3>2. vs[k] # Bad
      BY <1>3, <1>4 DEF Contains
    <3> QED
      BY <1>3, <3>1, <3>2
  <2> QED
    BY <1>1, <2>1, <2>2
<1>12. Batching'
  <2>1. /\ Len(batch') =< Batch /\ Len(batch') =< seen'
        /\ \A k \in 1..Len(batch') : batch'[k] = input[seen' - Len(batch') + k]
    <3>0. seen' = seen + n
      OBVIOUS
    <3> HIDE DEF ConsumeInv
    <3>1. PICK m \in Nat : m = seen
      BY <1>1
    <3>2. seen' = m + n /\ Len(batch') = n /\ (m + n) - n = m /\ n =< m + n /\ n =< Batch
      BY <1>1, <1>3, <1>4, <3>0, <3>1
    <3>3. \A k \in 1..n : batch'[k] = input[m + k]
      BY <1>3, <1>4, <3>1
    <3> QED
      BY <3>2, <3>3
  <2>2. \A j \in 1..seen' : input'[j] # Bad
    <3> HIDE DEF ConsumeInv
    <3>1. seen' = seen + n
      OBVIOUS
    <3> QED
      BY <1>11, <3>1
  <2>3. \A i, j \in 1..Len(order') : order'[i] = order'[j] => i = j
    BY <1>5
  <2>4. \A i \in 1..Len(order') : \E k \in 1..Len(batch') : batch'[k].db = order'[i]
    BY <1>3, <1>4, <1>5
  <2>5. state' = "lookup"
    OBVIOUS
  <2> HIDE DEF ConsumeInv
  <2> QED
    BY <2>1, <2>2, <2>3, <2>4, <2>5 DEF Batching
<1>13. Tallied'
  <2>1. Len(All') + Cardinality(Left)' = seen'
    BY <1>1, <1>7, <1>9, <1>10, AllIs DEF Tallied
  <2>2. ASSUME NEW id \in Ids
        PROVE  Occurrences(All', id) + Cardinality(Naming(batch', Left', id)) = UpTo(seen, id)'
    <3> DEFINE A == {k \in 1..seen : input[k].id = id}
               B == Naming(vs, 1..n, id)
               C == {k \in 1..(seen + n) : input[k].id = id}
    <3>1. Together(seen, n, A, B, C)
      BY <1>1, <1>3 DEF Together, Naming
    <3>2. Occurrences(All, id) = Cardinality(A)
      <4>1. Naming(batch, Left, id) = {}
        BY <1>7 DEF Naming
      <4>2. Cardinality(Naming(batch, Left, id)) = 0
        BY <4>1, FS_EmptySet
      <4>3. Occurrences(All, id) + Cardinality(Naming(batch, Left, id)) = Cardinality(A)
        BY <1>1 DEF Tallied, UpTo
      <4>5. All \in Seq(Row)
        BY AllIs
      <4>6. Occurrences(All, id) \in Nat
        BY <4>5, OccurrencesAdd
      <4> HIDE DEF A, ConsumeInv
      <4> QED
        BY <4>2, <4>3, <4>6
    <3>3. UpTo(seen, id)' = Cardinality(C)
      <4>1. seen' = seen + n
        OBVIOUS
      <4> HIDE DEF ConsumeInv
      <4> QED
        BY <4>1 DEF UpTo
    <3>4. Naming(batch', Left', id) = B
      BY <1>4, <1>8
    <3> HIDE DEF A, B, C, ConsumeInv
    <3>5. Cardinality(C) = Cardinality(A) + Cardinality(B)
      <4>1. PICK m \in Nat : m = seen
        BY <1>1
      <4>2. Together(m, n, A, B, C)
        BY <3>1, <4>1
      <4> QED
        BY <1>1, <4>2, CountsAdd
    <3>6. Occurrences(All', id) = Cardinality(A)
      BY <1>10, <3>2
    <3> QED
      BY <3>3, <3>4, <3>5, <3>6
  <2> QED
    BY <2>1, <2>2 DEF Tallied
<1>14. InTurn'
  BY <1>10 DEF InTurn, OneDatabase
<1>15. refs = <<>> /\ answers = <<>> /\ Sent' = Sent
  BY <1>1 DEF Requested, Sent
<1>16. Requested'
  BY <1>1, <1>15 DEF Requested
<1>17. Truthful'
  BY <1>1, <1>10 DEF Truthful, Separate
<1>18. Untold'
  <2>1. Len(pending') + Cardinality(Left)' =< Batch
    BY <1>1, <1>9
  <2> QED
    BY <1>1, <2>1 DEF Untold, Good
<1> QED
  BY <1>6, <1>12, <1>13, <1>14, <1>16, <1>17, <1>18

LEMMA NextBatchKeeps == ASSUME ConsumeInv, NextBatch PROVE ConsumeInv'
<1>1. PICK n \in 1..Batch :
        /\ seen + n =< Len(input) /\ seen' = seen + n
        /\ batch' = Take(SubSeq(input, seen + 1, seen + n))
        /\ order' = ByDatabase(Take(SubSeq(input, seen + 1, seen + n)))
        /\ state' = IF Take(SubSeq(input, seen + 1, seen + n)) = <<>> THEN "failed" ELSE "lookup"
  BY DEF NextBatch, Sizes
<1>2. /\ Idle /\ pending = <<>> /\ state # "failed"
      /\ UNCHANGED <<kind, input, cur, clock, refs, answers, pending, handed, applied, others>>
  BY DEF NextBatch, Idle
<1>3. PICK vs : vs = SubSeq(input, seen + 1, seen + n)
  OBVIOUS
<1>4. /\ seen \in Nat /\ n \in Nat /\ Len(input) \in Nat /\ input \in Seq(Value)
  BY ConsumeAssumption DEF ConsumeInv, ConsumeTypes
<1>5. Len(vs) = n /\ vs # <<>>
  <2>1. Len(vs) = n
    <3>1. /\ seen + 1 \in 1..(Len(input) + 1) /\ seen + n \in 0..Len(input)
          /\ (seen + n) - (seen + 1) + 1 = n /\ seen + 1 =< seen + n
      BY <1>1, <1>4
    <3> QED
      BY <1>3, <1>4, <3>1
  <2>2. n # 0
    BY <1>4
  <2> QED
    BY <2>1, <2>2
<1>6. CASE Contains(vs, Bad)
  <2>1. batch' = <<>> /\ order' = <<>> /\ state' = "failed"
    BY <1>1, <1>3, <1>6, NoDatabase DEF Take
  <2>2. seen' \in 0..Len(input)
    BY <1>1, <1>4
  <2> QED
    BY <1>2, <2>1, <2>2, StopsKeeps
<1>7. CASE ~Contains(vs, Bad)
  <2>1. batch' = vs /\ order' = ByDatabase(batch') /\ state' = "lookup" /\ ~Contains(batch', Bad)
    BY <1>1, <1>3, <1>5, <1>7 DEF Take
  <2> QED
    BY <1>1, <1>2, <1>3, <2>1, TakenKeeps
<1> QED
  BY <1>6, <1>7

LEMMA ConsumeStep == ConsumeInv /\ [ConsumeNext]_consumeVars => ConsumeInv'
<1> SUFFICES ASSUME ConsumeInv, [ConsumeNext]_consumeVars PROVE ConsumeInv'
  OBVIOUS
<1>1. seen \in 0..Len(input)
  BY DEF ConsumeInv, ConsumeTypes
<1>2. ASSUME NEW yes \in BOOLEAN, Confirm(yes) PROVE ConsumeInv'
  <2>1. CASE yes
    BY <1>2, <2>1, QuietKeeps DEF Confirm
  <2>2. CASE ~yes
    <3>1. pending = <<>>
      BY <1>2 DEF Confirm, ConsumeInv, Batching
    <3> QED
      BY <1>1, <1>2, <2>2, <3>1, StopsKeeps DEF Confirm
  <2> QED
    BY <2>1, <2>2
<1>3. CASE Finish
  BY <1>3, QuietKeeps DEF Finish, Idle
<1>4. CASE Batched
  BY <1>4, QuietKeeps DEF Batched
<1>5. CASE Fail
  BY <1>1, <1>5, StopsKeeps DEF Fail
<1>6. ASSUME NEW db \in Dbs, NEW id \in Ids \ {Bad.id}, NEW del \in BOOLEAN,
             OtherWrites(db, id, del)
      PROVE  ConsumeInv'
  BY <1>6, OthersKeep
<1>7. CASE UNCHANGED consumeVars
  <2>1. /\ ConsumeTypes' /\ Left' = Left /\ All' = All /\ Sent' = Sent /\ Here' = Here
    BY <1>7 DEF consumeVars, ConsumeInv, ConsumeTypes, Left, Handling, All, Sent, Here
  <2>2. Batching'
    BY <1>7 DEF consumeVars, ConsumeInv, Batching, Handling
  <2>3. Tallied'
    <3>1. \A i : UpTo(seen, i)' = UpTo(seen, i)
      BY <1>7 DEF consumeVars, UpTo
    <3> QED
      BY <1>7, <2>1, <3>1 DEF consumeVars, ConsumeInv, Tallied
  <2>4. InTurn' /\ Requested'
    BY <1>7, <2>1 DEF consumeVars, ConsumeInv, InTurn, OneDatabase, Requested, Good
  <2>5. Truthful' /\ Untold'
    BY <1>7, <2>1 DEF consumeVars, ConsumeInv, Truthful, Separate, Untold, Good
  <2> QED
    BY <2>1, <2>2, <2>3, <2>4, <2>5 DEF ConsumeInv
<1> QED
  BY <1>2, <1>3, <1>4, <1>5, <1>6, <1>7, NextBatchKeeps, LookupKeeps, LookupDocsKeeps,
     BulkDocsKeeps, BulkWriteKeeps, EmitKeeps DEF ConsumeNext

(* The invariant behind the theorems on put, rm and cat as consumers of a pipeline. *)
THEOREM ConsumerHolds == ConsumeSpec => []ConsumeInv
<1>1. ConsumeInit => ConsumeInv
  BY ConsumeInitially
<1>2. ConsumeInv /\ [ConsumeNext]_consumeVars => ConsumeInv'
  BY ConsumeStep
<1> QED
  BY <1>1, <1>2, PTL DEF ConsumeSpec

(* Whatever the batches, and whoever else writes: there is a row for every value, each
   once, and in their order when there is one database (nextBatch, rmBatch). *)
THEOREM EveryValueAnswered == ConsumeSpec => []RowPerValue
<1>1. ConsumeInv => RowPerValue
  <2> SUFFICES ASSUME ConsumeInv PROVE RowPerValue
    OBVIOUS
  <2> USE DEF ConsumeInv
  <2>1. OneDatabase => \A k \in 1..Len(handed) : handed[k].id = input[k].id
    <3>1. /\ Len(handed) \in Nat /\ Len(All) \in Nat /\ Len(handed) =< Len(All)
          /\ \A k \in 1..Len(handed) : All[k] = handed[k]
      BY AllIs, AtOf DEF ConsumeTypes, All
    <3> QED
      BY <3>1 DEF InTurn
  <2>2. ASSUME state = "done", NEW id \in Ids
        PROVE  Occurrences(handed, id) = Occurrences(input, id)
    <3>1. All = handed /\ Left = {} /\ seen = Len(input)
      BY <2>2, AllIs, LeftIs DEF Batching, Handling
    <3>2. Naming(batch, Left, id) = {}
      BY <3>1 DEF Naming
    <3>3. Cardinality(Naming(batch, Left, id)) = 0
      BY <3>2, FS_EmptySet
    <3>4. Occurrences(All, id) + Cardinality(Naming(batch, Left, id)) = UpTo(seen, id)
      BY <2>2 DEF Tallied
    <3>5. Occurrences(All, id) \in Nat
      BY AllIs, OccurrencesAdd
    <3>6. UpTo(seen, id) = Occurrences(input, id)
      BY <3>1 DEF UpTo, Occurrences
    <3> QED
      BY <3>1, <3>3, <3>4, <3>5, <3>6
  <2> QED
    BY <2>1, <2>2 DEF RowPerValue
<1> QED
  BY <1>1, ConsumerHolds, PTL

(* A row that says "ok" is of a write that the server accepted, no two rows of the same,
   and in the end every write has its row (rmBatch: the rows of one id are told apart). *)
THEOREM RowsAreTrue == ConsumeSpec => []OkIsTrue
<1>1. ConsumeInv => OkIsTrue
  <2> SUFFICES ASSUME ConsumeInv, kind # "cat"
               PROVE  /\ Told(handed) \subseteq applied
                      /\ Cardinality(Told(handed)) = Cardinality(OkRows(handed))
                      /\ state = "done" => Told(handed) = applied
    BY DEF OkIsTrue
  <2> USE DEF ConsumeInv
  <2>1. handed \in Seq(Row) /\ pending \in Seq(Row) /\ Separate
    BY DEF ConsumeTypes, Truthful
  <2>2. Told(All) = Told(handed) \cup Told(pending)
    BY <2>1, ToldAdds DEF All
  <2>3. Told(handed) \subseteq applied
    BY <2>2 DEF Truthful
  <2>4. \A k \in OkRows(handed) : k \in OkRows(All) /\ All[k] = handed[k]
    <3>1. /\ Len(handed) \in Nat /\ Len(All) \in Nat /\ Len(handed) =< Len(All)
          /\ \A k \in 1..Len(handed) : All[k] = handed[k]
      BY AllIs, AtOf DEF ConsumeTypes, All
    <3> QED
      BY <3>1 DEF OkRows
  <2>5. Apart(handed)
    BY <2>1, <2>4 DEF Separate, Apart
  <2>6. Cardinality(Told(handed)) = Cardinality(OkRows(handed))
    BY <2>1, <2>5, ToldOnce
  <2>7. state = "done" => Told(handed) = applied
    <3> SUFFICES ASSUME state = "done" PROVE Told(handed) = applied
      OBVIOUS
    <3>1. All = handed /\ answers = <<>> /\ applied = Told(All) \cup Told(answers)
      BY AllIs DEF Batching, Requested, Truthful
    <3> QED
      BY <3>1, ToldNothing
  <2> QED
    BY <2>3, <2>6, <2>7
<1> QED
  BY <1>1, ConsumerHolds, PTL

(* However the stage is cut short, and even while the server goes on with its last
   request: what is written and told nobody is one batch at the most, of values before
   the first that will not do (putPipeline, rmPipeline). *)
THEOREM UntoldIsBounded == ConsumeSpec => []WrittenAccounted
<1>1. ConsumeInv => WrittenAccounted
  <2> SUFFICES ASSUME ConsumeInv PROVE WrittenAccounted
    OBVIOUS
  <2> USE DEF ConsumeInv
  <2>1. /\ Cardinality(Sent) \in Nat /\ Len(answers) \in Nat /\ Batch \in Nat
        /\ Len(answers) =< Cardinality(Sent)
    BY SentIs, ConsumeAssumption DEF ConsumeTypes, Requested
  <2>2. Cardinality(applied \ Told(handed)) + Cardinality(Sent) =< Batch + Len(answers)
    BY EndsUntold DEF Untold
  <2>3. Cardinality(applied \ Told(handed)) \in Nat
    BY FS_Difference, FS_CardinalityType DEF Untold
  <2>4. Cardinality(applied \ Told(handed)) =< Batch
    BY <2>1, <2>2, <2>3
  <2>5. \A w \in applied : \E k \in 1..Len(input) :
          input[k].id = w[1] /\ \A j \in 1..k : input[j] # Bad
    BY DEF Untold, Good
  <2> QED
    BY <2>4, <2>5 DEF WrittenAccounted
<1> QED
  BY <1>1, ConsumerHolds, PTL
=============================================================================
