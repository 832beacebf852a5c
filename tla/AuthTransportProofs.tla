------------------------- MODULE AuthTransportProofs ------------------------
(***************************************************************************)
(* Proofs about AuthTransport: a replay carries a newer credential, and    *)
(* the server is asked for no credential that nothing called for, for      *)
(* every set of requests.                                                  *)
(***************************************************************************)
EXTENDS AuthTransport, FiniteSetTheorems, TLAPS

Places ==
  {"idle", "ask", "renewing", "send", "sent", "invalidate", "done"}

Types ==
  /\ kind \in {"session", "iam"}
  /\ issued \in Nat /\ refusals \in Nat /\ events \in Nat
  /\ held = issued /\ usable \in BOOLEAN
  /\ pc \in [Requests -> Places]
  /\ token \in [Requests -> 0..issued] /\ first \in [Requests -> 0..issued]
  /\ minted \in [Requests -> BOOLEAN] /\ asked \in [Requests -> Nat]
  /\ tries \in [Requests -> 0..2]

(* The mutex is held by the one request that renews; nothing else makes a
   credential good, so the one it found wanting still is. *)
Exclusive ==
  \A r \in Requests : pc[r] = "renewing" =>
    /\ lock = r
    /\ usable => kind = "iam" /\ tries[r] = 1

(* Where a request has been sent once, or twice. *)
Sent ==
  \A r \in Requests :
    /\ pc[r] = "idle" => tries[r] = 0
    /\ pc[r] = "invalidate" => kind = "session" /\ tries[r] = 1
    /\ tries[r] = 2 => pc[r] \in {"sent", "done"} /\ first[r] < token[r]

(* After a 401 the next credential to be carried is newer: a session that is
   good again has been renewed since this request invalidated it. *)
Renewing ==
  \A r \in Requests : tries[r] = 1 =>
    /\ kind = "session" /\ usable /\ pc[r] = "ask" => first[r] < held
    /\ kind = "session" /\ pc[r] = "send" => first[r] < held
    /\ kind = "iam" /\ pc[r] = "send" => first[r] < token[r]

(* An IAM request makes no second exchange: the 401 of a token that was issued
   to it is not worth another try. *)
Once ==
  kind = "iam" => \A r \in Requests :
    /\ pc[r] \in {"idle", "ask", "renewing"} => asked[r] = 0
    /\ asked[r] =< 1
    /\ asked[r] = 1 => minted[r] \/ pc[r] = "done"

(* The requests whose 401 has not yet had its effect. *)
Due ==
  {r \in Requests : \/ pc[r] = "invalidate"
                    \/ kind = "iam" /\ tries[r] = 1 /\ pc[r] \in {"ask", "renewing"}}

Stale == IF usable THEN 0 ELSE 1

(* Each 401 and each expiry pays for one credential. *)
Paid ==
  /\ IsFiniteSet(Due)
  /\ issued + Stale + Cardinality(Due) =< 1 + refusals + events

Inv == Types /\ Exclusive /\ Sent /\ Renewing /\ Once /\ Paid

-----------------------------------------------------------------------------

LEMMA Initially == Init => Inv
<1> SUFFICES ASSUME Init PROVE Inv
  OBVIOUS
<1>1. Due = {}
  BY DEF Init, Due
<1>2. IsFiniteSet(Due) /\ Cardinality(Due) = 0
  BY <1>1, FS_EmptySet
<1>3. Paid
  BY <1>2 DEF Init, Paid, Stale
<1>4. Types
  <2>1. usable \in BOOLEAN
    BY DEF Init
  <2>2. minted \in [Requests -> BOOLEAN]
    BY DEF Init
  <2> QED
    BY <2>1, <2>2 DEF Init, Types, Places
<1> QED
  BY <1>3, <1>4 DEF Init, Inv, Exclusive, Sent, Renewing, Once

(* What every variable may hold. *)
LEMMA TypesKept == Inv /\ [Next]_vars => Types'
<1> SUFFICES ASSUME Inv, [Next]_vars PROVE Types'
  OBVIOUS
<1> USE AuthAssumption DEF Inv, Types, Places, Sent
<1>1. CASE Revoke
  BY <1>1 DEF Revoke
<1>2. CASE Age
  <2>1. usable' \in BOOLEAN
    BY <1>2 DEF Age
  <2>2. events' \in Nat
    BY <1>2 DEF Age
  <2> QED
    BY <1>2, <2>1, <2>2 DEF Age
<1>3. ASSUME NEW r \in Requests, Begin(r) PROVE Types'
  BY <1>3 DEF Begin, Goto, LoggedIn
<1>4. ASSUME NEW r \in Requests, Locked(r) PROVE Types'
  BY <1>4 DEF Locked, Goto, Needed
<1>5. ASSUME NEW r \in Requests, Renewed(r) PROVE Types'
  BY <1>5 DEF Renewed, Goto
<1>6. ASSUME NEW r \in Requests, RenewFails(r) PROVE Types'
  BY <1>6 DEF RenewFails, Goto, Unlocked
<1>7. ASSUME NEW r \in Requests, Send(r) PROVE Types'
  BY <1>7 DEF Send, Goto, Carried
<1>8. ASSUME NEW r \in Requests, NEW a \in {"ok", "failed"}, Answered(r, a)
      PROVE  Types'
  BY <1>8 DEF Answered, Goto
<1>9. ASSUME NEW r \in Requests, Unauthorized(r) PROVE Types'
  BY <1>9 DEF Unauthorized, Goto, Worth
<1>10. ASSUME NEW r \in Requests, Invalidate(r) PROVE Types'
  BY <1>10 DEF Invalidate, Goto, Invalidated
<1>11. CASE UNCHANGED vars
  BY <1>11 DEF vars
<1> QED
  BY <1>1, <1>2, <1>3, <1>4, <1>5, <1>6, <1>7, <1>8, <1>9, <1>10, <1>11 DEF Next, Step

(* Who holds the mutex. *)
LEMMA ExclusiveKept == Inv /\ [Next]_vars => Exclusive'
<1> SUFFICES ASSUME Inv, [Next]_vars PROVE Exclusive'
  OBVIOUS
<1> USE AuthAssumption DEF Inv, Types, Places, Exclusive
<1>1. CASE Revoke
  BY <1>1 DEF Revoke
<1>2. CASE Age
  BY <1>2 DEF Age
<1>3. ASSUME NEW r \in Requests, Begin(r) PROVE Exclusive'
  BY <1>3 DEF Begin, Goto, LoggedIn
<1>4. ASSUME NEW r \in Requests, Locked(r) PROVE Exclusive'
  <2>1. CASE Needed(r)
    <3>1. usable => kind = "iam" /\ tries[r] = 1
      BY <1>4, <2>1 DEF Locked, Needed, Sent
    <3>2. \A q \in Requests : pc[q] # "renewing"
      BY <1>4 DEF Locked
    <3> QED
      BY <1>4, <2>1, <3>1, <3>2 DEF Locked, Goto
  <2>2. CASE ~Needed(r)
    BY <1>4, <2>2 DEF Locked, Goto
  <2> QED
    BY <2>1, <2>2
<1>5. ASSUME NEW r \in Requests, Renewed(r) PROVE Exclusive'
  BY <1>5 DEF Renewed, Goto
<1>6. ASSUME NEW r \in Requests, RenewFails(r) PROVE Exclusive'
  BY <1>6 DEF RenewFails, Goto, Unlocked
<1>7. ASSUME NEW r \in Requests, Send(r) PROVE Exclusive'
  BY <1>7 DEF Send, Goto, Carried
<1>8. ASSUME NEW r \in Requests, NEW a \in {"ok", "failed"}, Answered(r, a)
      PROVE  Exclusive'
  BY <1>8 DEF Answered, Goto
<1>9. ASSUME NEW r \in Requests, Unauthorized(r) PROVE Exclusive'
  BY <1>9 DEF Unauthorized, Goto, Worth
<1>10. ASSUME NEW r \in Requests, Invalidate(r) PROVE Exclusive'
  BY <1>10 DEF Invalidate, Goto, Invalidated
<1>11. CASE UNCHANGED vars
  BY <1>11 DEF vars
<1> QED
  BY <1>1, <1>2, <1>3, <1>4, <1>5, <1>6, <1>7, <1>8, <1>9, <1>10, <1>11 DEF Next, Step

(* How often a request has been sent, and that a replay carries what is newer. *)
LEMMA SentKept == Inv /\ [Next]_vars => Sent'
<1> SUFFICES ASSUME Inv, [Next]_vars PROVE Sent'
  OBVIOUS
<1> USE AuthAssumption DEF Inv, Types, Places, Sent, Renewing
<1>1. CASE Revoke
  BY <1>1 DEF Revoke
<1>2. CASE Age
  BY <1>2 DEF Age
<1>3. ASSUME NEW r \in Requests, Begin(r) PROVE Sent'
  BY <1>3 DEF Begin, Goto, LoggedIn
<1>4. ASSUME NEW r \in Requests, Locked(r) PROVE Sent'
  BY <1>4 DEF Locked, Goto, Needed
<1>5. ASSUME NEW r \in Requests, Renewed(r) PROVE Sent'
  BY <1>5 DEF Renewed, Goto
<1>6. ASSUME NEW r \in Requests, RenewFails(r) PROVE Sent'
  BY <1>6 DEF RenewFails, Goto, Unlocked
<1>7. ASSUME NEW r \in Requests, Send(r) PROVE Sent'
  BY <1>7 DEF Send, Goto, Carried
<1>8. ASSUME NEW r \in Requests, NEW a \in {"ok", "failed"}, Answered(r, a)
      PROVE  Sent'
  BY <1>8 DEF Answered, Goto
<1>9. ASSUME NEW r \in Requests, Unauthorized(r) PROVE Sent'
  BY <1>9 DEF Unauthorized, Goto, Worth
<1>10. ASSUME NEW r \in Requests, Invalidate(r) PROVE Sent'
  BY <1>10 DEF Invalidate, Goto, Invalidated
<1>11. CASE UNCHANGED vars
  BY <1>11 DEF vars
<1> QED
  BY <1>1, <1>2, <1>3, <1>4, <1>5, <1>6, <1>7, <1>8, <1>9, <1>10, <1>11 DEF Next, Step

(* Between the 401 and the replay. *)
LEMMA RenewingKept == Inv /\ [Next]_vars => Renewing'
<1> SUFFICES ASSUME Inv, [Next]_vars PROVE Renewing'
  OBVIOUS
<1> USE AuthAssumption DEF Inv, Types, Places, Sent, Renewing
<1>1. CASE Revoke
  BY <1>1 DEF Revoke
<1>2. CASE Age
  BY <1>2 DEF Age
<1>3. ASSUME NEW r \in Requests, Begin(r) PROVE Renewing'
  BY <1>3 DEF Begin, Goto, LoggedIn
<1>4. ASSUME NEW r \in Requests, Locked(r) PROVE Renewing'
  BY <1>4 DEF Locked, Goto, Needed
<1>5. ASSUME NEW r \in Requests, Renewed(r) PROVE Renewing'
  BY <1>5 DEF Renewed, Goto
<1>6. ASSUME NEW r \in Requests, RenewFails(r) PROVE Renewing'
  BY <1>6 DEF RenewFails, Goto, Unlocked
<1>7. ASSUME NEW r \in Requests, Send(r) PROVE Renewing'
  BY <1>7 DEF Send, Goto, Carried
<1>8. ASSUME NEW r \in Requests, NEW a \in {"ok", "failed"}, Answered(r, a)
      PROVE  Renewing'
  BY <1>8 DEF Answered, Goto
<1>9. ASSUME NEW r \in Requests, Unauthorized(r) PROVE Renewing'
  BY <1>9 DEF Unauthorized, Goto, Worth
<1>10. ASSUME NEW r \in Requests, Invalidate(r) PROVE Renewing'
  BY <1>10 DEF Invalidate, Goto, Invalidated
<1>11. CASE UNCHANGED vars
  BY <1>11 DEF vars
<1> QED
  BY <1>1, <1>2, <1>3, <1>4, <1>5, <1>6, <1>7, <1>8, <1>9, <1>10, <1>11 DEF Next, Step

(* One exchange for an IAM request. *)
LEMMA OnceKept == Inv /\ [Next]_vars => Once'
<1> SUFFICES ASSUME Inv, [Next]_vars PROVE Once'
  OBVIOUS
<1> USE AuthAssumption DEF Inv, Types, Places, Sent, Once
<1>1. CASE Revoke
  BY <1>1 DEF Revoke
<1>2. CASE Age
  BY <1>2 DEF Age
<1>3. ASSUME NEW r \in Requests, Begin(r) PROVE Once'
  BY <1>3 DEF Begin, Goto, LoggedIn
<1>4. ASSUME NEW r \in Requests, Locked(r) PROVE Once'
  BY <1>4 DEF Locked, Goto, Needed
<1>5. ASSUME NEW r \in Requests, Renewed(r) PROVE Once'
  BY <1>5 DEF Renewed, Goto
<1>6. ASSUME NEW r \in Requests, RenewFails(r) PROVE Once'
  BY <1>6 DEF RenewFails, Goto, Unlocked
<1>7. ASSUME NEW r \in Requests, Send(r) PROVE Once'
  BY <1>7 DEF Send, Goto, Carried
<1>8. ASSUME NEW r \in Requests, NEW a \in {"ok", "failed"}, Answered(r, a)
      PROVE  Once'
  BY <1>8 DEF Answered, Goto
<1>9. ASSUME NEW r \in Requests, Unauthorized(r) PROVE Once'
  BY <1>9 DEF Unauthorized, Goto, Worth
<1>10. ASSUME NEW r \in Requests, Invalidate(r) PROVE Once'
  BY <1>10 DEF Invalidate, Goto, Invalidated
<1>11. CASE UNCHANGED vars
  BY <1>11 DEF vars
<1> QED
  BY <1>1, <1>2, <1>3, <1>4, <1>5, <1>6, <1>7, <1>8, <1>9, <1>10, <1>11 DEF Next, Step

-----------------------------------------------------------------------------
(* Counting.                                                               *)

LEMMA DueCount ==
  ASSUME Inv, NEW r
  PROVE  /\ IsFiniteSet(Due) /\ Cardinality(Due) \in Nat
         /\ IsFiniteSet(Due \cup {r}) /\ Cardinality(Due \cup {r}) \in Nat
         /\ Cardinality(Due \cup {r}) =< Cardinality(Due) + 1
         /\ IsFiniteSet(Due \ {r}) /\ Cardinality(Due \ {r}) \in Nat
         /\ Cardinality(Due \ {r}) =< Cardinality(Due)
         /\ r \in Due => Cardinality(Due \ {r}) = Cardinality(Due) - 1
<1>1. IsFiniteSet(Due)
  BY DEF Inv, Paid
<1>2. Cardinality(Due) \in Nat
  BY <1>1, FS_CardinalityType
<1>3. /\ IsFiniteSet(Due \cup {r})
      /\ Cardinality(Due \cup {r}) =
           IF r \in Due THEN Cardinality(Due) ELSE Cardinality(Due) + 1
  BY <1>1, FS_AddElement
<1>4. /\ IsFiniteSet(Due \ {r})
      /\ Cardinality(Due \ {r}) =
           IF r \in Due THEN Cardinality(Due) - 1 ELSE Cardinality(Due)
  BY <1>1, FS_RemoveElement
<1>5. Cardinality(Due \cup {r}) \in Nat /\ Cardinality(Due \ {r}) \in Nat
  BY <1>3, <1>4, FS_CardinalityType
<1> QED
  BY <1>1, <1>2, <1>3, <1>4, <1>5

(* Nothing is paid for twice: a step that makes no request due leaves at most as
   many, and what is found wanting is paid by the event that made it so. *)
LEMMA PaidKept == Inv /\ [Next]_vars => Paid'
<1> SUFFICES ASSUME Inv, [Next]_vars PROVE Paid'
  OBVIOUS
<1>0. IsFiniteSet(Due) /\ Cardinality(Due) \in Nat
  BY DueCount
<1>1. CASE Revoke
  <2>1. Due' = Due
    BY <1>1 DEF Revoke, Due, Inv, Types
  <2> QED
    BY <1>0, <1>1, <2>1 DEF Revoke, Inv, Types, Paid, Stale
<1>2. CASE Age
  <2>1. Due' = Due
    BY <1>2 DEF Age, Due, Inv, Types
  <2> QED
    BY <1>0, <1>2, <2>1 DEF Age, Inv, Types, Paid, Stale
<1>3. ASSUME NEW r \in Requests, Begin(r) PROVE Paid'
  <2>1. Due' = Due
    BY <1>3 DEF Begin, Goto, Due, Sent, Places, Inv, Types
  <2> QED
    BY <1>3, <2>1 DEF Begin, Inv, Types, Paid, Stale
<1>4. ASSUME NEW r \in Requests, Locked(r) PROVE Paid'
  <2>1. Due' = Due
    BY <1>4 DEF Locked, Goto, Due, Needed, Places, Inv, Types
  <2> QED
    BY <1>4, <2>1 DEF Locked, Inv, Types, Paid, Stale
<1>5. ASSUME NEW r \in Requests, Renewed(r) PROVE Paid'
  <2>1. Due' = Due \ {r}
    BY <1>5 DEF Renewed, Goto, Due, Places, Inv, Types
  <2>2. usable => r \in Due
    BY <1>5 DEF Renewed, Due, Exclusive, Inv
  <2>3. usable' = TRUE /\ issued' = issued + 1
        /\ refusals' = refusals /\ events' = events
    BY <1>5 DEF Renewed
  <2>4. /\ IsFiniteSet(Due \ {r}) /\ Cardinality(Due \ {r}) \in Nat
        /\ Cardinality(Due \ {r}) =< Cardinality(Due)
        /\ r \in Due => Cardinality(Due \ {r}) = Cardinality(Due) - 1
    BY DueCount
  <2>5. CASE usable
    BY <1>0, <2>1, <2>2, <2>3, <2>4, <2>5 DEF Inv, Types, Paid, Stale
  <2>6. CASE ~usable
    BY <1>0, <2>1, <2>3, <2>4, <2>6 DEF Inv, Types, Paid, Stale
  <2> QED
    BY <2>5, <2>6
<1>6. ASSUME NEW r \in Requests, RenewFails(r) PROVE Paid'
  <2>1. Due' = Due \ {r}
    BY <1>6 DEF RenewFails, Goto, Due, Places, Inv, Types
  <2>2. /\ IsFiniteSet(Due \ {r}) /\ Cardinality(Due \ {r}) \in Nat
        /\ Cardinality(Due \ {r}) =< Cardinality(Due)
        /\ r \in Due => Cardinality(Due \ {r}) = Cardinality(Due) - 1
    BY DueCount
  <2> QED
    BY <1>0, <1>6, <2>1, <2>2 DEF RenewFails, Inv, Types, Paid, Stale
<1>7. ASSUME NEW r \in Requests, Send(r) PROVE Paid'
  <2>1. Due' = Due
    BY <1>7 DEF Send, Goto, Due, Places, Inv, Types
  <2> QED
    BY <1>7, <2>1 DEF Send, Inv, Types, Paid, Stale
<1>8. ASSUME NEW r \in Requests, NEW a \in {"ok", "failed"}, Answered(r, a)
      PROVE  Paid'
  <2>1. Due' = Due
    BY <1>8 DEF Answered, Goto, Due, Places, Inv, Types
  <2> QED
    BY <1>8, <2>1 DEF Answered, Inv, Types, Paid, Stale
<1>9. ASSUME NEW r \in Requests, Unauthorized(r) PROVE Paid'
  <2>1. Due' = Due \/ Due' = Due \cup {r}
    <3>1. CASE Worth(r)
      BY <1>9, <3>1 DEF Unauthorized, Goto, Due, Places, Worth, Inv, Types
    <3>2. CASE ~Worth(r)
      BY <1>9, <3>2 DEF Unauthorized, Goto, Due, Places, Inv, Types
    <3> QED
      BY <3>1, <3>2
  <2>2. refusals' = refusals + 1 /\ events' = events
        /\ issued' = issued /\ usable' = usable
    BY <1>9 DEF Unauthorized
  <2>3. /\ IsFiniteSet(Due \cup {r}) /\ Cardinality(Due \cup {r}) \in Nat
        /\ Cardinality(Due \cup {r}) =< Cardinality(Due) + 1
    BY DueCount
  <2>4. IsFiniteSet(Due') /\ Cardinality(Due') \in Nat
        /\ Cardinality(Due') =< Cardinality(Due) + 1
    BY <1>0, <2>1, <2>3
  <2>5. Stale \in 0..1 /\ Stale' = Stale
    BY <2>2 DEF Stale
  <2> QED
    BY <1>0, <2>2, <2>4, <2>5 DEF Inv, Types, Paid
<1>10. ASSUME NEW r \in Requests, Invalidate(r) PROVE Paid'
  <2>1. Due' = Due \ {r} /\ r \in Due
    BY <1>10 DEF Invalidate, Goto, Due, Places, Sent, Inv, Types
  <2>2. usable' = FALSE /\ issued' = issued
        /\ refusals' = refusals /\ events' = events
    BY <1>10 DEF Invalidate, Invalidated
  <2>3. /\ IsFiniteSet(Due \ {r}) /\ Cardinality(Due \ {r}) \in Nat
        /\ Cardinality(Due \ {r}) =< Cardinality(Due)
        /\ r \in Due => Cardinality(Due \ {r}) = Cardinality(Due) - 1
    BY DueCount
  <2> QED
    BY <1>0, <2>1, <2>2, <2>3 DEF Inv, Types, Paid, Stale
<1>11. CASE UNCHANGED vars
  <2>1. Due' = Due
    BY <1>11 DEF vars, Due, Inv, Types
  <2> QED
    BY <1>11, <2>1 DEF vars, Inv, Types, Paid, Stale
<1> QED
  BY <1>1, <1>2, <1>3, <1>4, <1>5, <1>6, <1>7, <1>8, <1>9, <1>10, <1>11
     DEF Next, Step

LEMMA Invariant == Spec => []Inv
<1>1. Inv /\ [Next]_vars => Inv'
  BY TypesKept, ExclusiveKept, SentKept, RenewingKept, OnceKept, PaidKept DEF Inv
<1> QED
  BY Initially, <1>1, PTL DEF Spec

-----------------------------------------------------------------------------

(* What the transport holds is of the types the invariant says, and one request
   at a time renews it. *)
THEOREM OneRenewal ==
  Spec => [](\A q, r \in Requests :
               pc[q] = "renewing" /\ pc[r] = "renewing" => q = r)
<1>1. Inv => \A q, r \in Requests :
                pc[q] = "renewing" /\ pc[r] = "renewing" => q = r
  BY DEF Inv, Exclusive
<1> QED
  BY <1>1, Invariant, PTL

(* A request that is sent again carries a newer credential than the one the
   server refused, for any requests in any order. *)
THEOREM ReplayIsFresh == Spec => []FreshReplay
<1>1. Inv => FreshReplay
  BY DEF Inv, Sent, FreshReplay
<1> QED
  BY <1>1, Invariant, PTL

(* The server issues no more credentials than refusals and expiries call for,
   and exchanges an IAM key once at most on behalf of a request, however many
   requests there are. *)
THEOREM NoStampedeOfLogins == Spec => []NoStampede
<1>1. ASSUME Inv PROVE NoStampede
  <2>1. Cardinality(Due) \in Nat
    BY <1>1, DueCount
  <2>2. issued =< 1 + refusals + events
    BY <1>1, <2>1 DEF Inv, Types, Paid, Stale
  <2>3. kind = "iam" => \A r \in Requests : asked[r] =< 1
    BY <1>1 DEF Inv, Once
  <2> QED
    BY <2>2, <2>3 DEF NoStampede
<1> QED
  BY <1>1, Invariant, PTL
=============================================================================
