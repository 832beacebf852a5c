---------------------------- MODULE AccountsProofs --------------------------
(***************************************************************************)
(* Proofs about Accounts: a role survives a password change, and a server  *)
(* admin's password that was told to be set stands, for any number of      *)
(* operators and of roles given meanwhile.                                 *)
(***************************************************************************)
EXTENDS Accounts, TLAPS

-----------------------------------------------------------------------------
(* The document.                                                           *)

User == [live : BOOLEAN, rev : Nat, pw : Operators \cup {Before}, roles : SUBSET Nat]

Documents ==
  /\ user \in User /\ seen \in [Operators -> User]
  /\ grants \in Nat /\ granted \in SUBSET Nat

(* A revision is never used twice: what a command has read is older than the
   document, or is the document. *)
Revisions ==
  /\ user.live => user.rev > 0
  /\ \A o \in Operators :
       /\ seen[o].rev =< user.rev
       /\ user.live /\ seen[o].rev = user.rev => seen[o] = user

DocInv == Documents /\ Revisions /\ RolesSurvive

-----------------------------------------------------------------------------
(* The key.                                                                *)

Places == {"start", "ask", "password", "ensure", "look", "create", "read",
           "getrev", "write", "wait", "done"}
Words  == {"running", "error", "done", "hinted", "unseen"}

Standing ==
  /\ pc \in [Operators -> Places] /\ told \in [Operators -> Words]
  /\ alone \in [Operators -> BOOLEAN]

(* A command has written the key only when it waits for the hash or is over,
   and has told nothing before it is over. *)
Written ==
  \A o \in Operators :
    /\ alone[o] => pc[o] \in {"wait", "done"}
    /\ pc[o] # "done" => told[o] = "running"

(* The last to write the key, if no hash was then outstanding: none but its own
   may still land. *)
LastStands ==
  \A o \in Operators : alone[o] /\ last = o =>
    /\ hashing \subseteq {o}
    /\ \/ admins = [there |-> TRUE, pw |-> o, hashed |-> TRUE]
       \/ admins = [there |-> TRUE, pw |-> o, hashed |-> FALSE] /\ told[o] # "done"

KeyInv == Standing /\ Written /\ LastStands

Inv == DocInv /\ KeyInv
-----------------------------------------------------------------------------

LEMMA Initially == Init => Inv
<1> SUFFICES ASSUME Init PROVE Inv
  OBVIOUS
<1>1. /\ NoUser \in User /\ ~NoUser.live /\ NoUser.rev = 0
      /\ [NoUser EXCEPT !.live = TRUE, !.rev = 1] \in User
      /\ [NoUser EXCEPT !.live = TRUE, !.rev = 1].rev = 1
  BY DEF User, NoUser
<1>2. user = NoUser \/ user = [NoUser EXCEPT !.live = TRUE, !.rev = 1]
  BY DEF Init
<1>3. /\ user \in User /\ user.rev >= 0
      /\ user.live => user.rev = 1
  <2>1. CASE user = NoUser
    BY <1>1, <2>1
  <2>2. CASE user = [NoUser EXCEPT !.live = TRUE, !.rev = 1]
    BY <1>1, <2>2
  <2> QED
    BY <1>2, <2>1, <2>2
<1>4. \A o \in Operators : seen[o] = NoUser
  BY DEF Init
<1>5. DocInv
  <2>1. Documents
    BY <1>1, <1>3 DEF Init, Documents
  <2>2. Revisions
    BY <1>1, <1>3, <1>4 DEF Revisions
  <2>3. RolesSurvive
    BY DEF Init, RolesSurvive
  <2> QED
    BY <2>1, <2>2, <2>3 DEF DocInv
<1>6. alone \in [Operators -> BOOLEAN] /\ \A o \in Operators : ~alone[o]
  BY DEF Init
<1>7. KeyInv
  BY <1>6 DEF Init, KeyInv, Standing, Written, LastStands, Places, Words
<1> QED
  BY <1>5, <1>7 DEF Inv

-----------------------------------------------------------------------------
(* The document is kept.                                                   *)

docVars == <<user, seen, grants, granted>>

LEMMA DocUnchanged == DocInv /\ UNCHANGED docVars => DocInv'
BY DEF DocInv, Documents, Revisions, RolesSurvive, docVars

(* What the writes make of a document's record. *)
LEMMA UserGiven ==
  ASSUME NEW u \in User, NEW g \in Nat
  PROVE  LET v == [u EXCEPT !.rev = @ + 1, !.roles = @ \cup {g}]
         IN  v \in User /\ v.rev = u.rev + 1 /\ v.roles = u.roles \cup {g}
<1>1. u.rev + 1 \in Nat /\ u.roles \cup {g} \in SUBSET Nat
  BY DEF User
<1>2. [u EXCEPT !.rev = u.rev + 1, !.roles = u.roles \cup {g}] \in User
  BY <1>1 DEF User
<1> QED
  BY <1>2 DEF User

LEMMA UserPassword ==
  ASSUME NEW u \in User, NEW p \in Operators
  PROVE  LET v == [u EXCEPT !.rev = @ + 1, !.pw = p]
         IN  v \in User /\ v.rev = u.rev + 1 /\ v.roles = u.roles
<1>1. u.rev + 1 \in Nat
  BY DEF User
<1>2. [u EXCEPT !.rev = u.rev + 1, !.pw = p] \in User
  BY <1>1 DEF User
<1> QED
  BY <1>2 DEF User

LEMMA UserDeleted ==
  ASSUME NEW n \in Nat
  PROVE  LET v == [NoUser EXCEPT !.rev = n] IN v \in User /\ v.rev = n
BY DEF User, NoUser

(* What a write makes of the document: the revision it has then is one that
   nothing was read at. *)
LEMMA DocWritten ==
  ASSUME DocInv, user' \in User, user'.rev = user.rev + 1, UNCHANGED seen,
         grants' \in Nat, granted' \in SUBSET Nat, RolesSurvive'
  PROVE  DocInv'
<1>1. user.rev \in Nat /\ \A o \in Operators : seen[o].rev \in Nat
  BY DEF DocInv, Documents, User
<1>2. Revisions'
  BY <1>1 DEF DocInv, Revisions
<1> QED
  BY <1>2 DEF DocInv, Documents

(* What a read finds is the document. *)
LEMMA DocRead ==
  ASSUME DocInv, NEW o \in Operators, seen' = [seen EXCEPT ![o] = user],
         UNCHANGED <<user, grants, granted>>
  PROVE  DocInv'
<1>1. user \in User /\ user.rev \in Nat
  BY DEF DocInv, Documents, User
<1>2. Documents' /\ RolesSurvive'
  BY DEF DocInv, Documents, RolesSurvive
<1>3. Revisions'
  BY <1>1 DEF DocInv, Documents, Revisions
<1> QED
  BY <1>2, <1>3 DEF DocInv

LEMMA DocStep == DocInv /\ [Next]_vars => DocInv'
<1> SUFFICES ASSUME DocInv, [Next]_vars PROVE DocInv'
  OBVIOUS
<1>1. CASE Hash
  <2>1. UNCHANGED docVars
    BY <1>1 DEF Hash, docVars, history
  <2> QED
    BY <2>1, DocUnchanged
<1>2. CASE Grant
  <2>1. /\ user \in User /\ user.rev \in Nat /\ user.roles \in SUBSET Nat
        /\ grants \in Nat /\ granted \in SUBSET Nat
    BY DEF DocInv, Documents, User
  <2>2. /\ grants' \in Nat /\ granted' = granted \cup {grants'} /\ seen' = seen
        /\ user' = [user EXCEPT !.rev = @ + 1, !.roles = @ \cup {grants'}]
        /\ user.live
    BY <1>2, <2>1 DEF Grant
  <2>3. /\ user' \in User /\ user'.rev = user.rev + 1
        /\ user'.roles = user.roles \cup {grants'}
    BY <2>1, <2>2, UserGiven
  <2>4. RolesSurvive'
    BY <2>2, <2>3 DEF DocInv, RolesSurvive
  <2> QED
    BY <2>1, <2>2, <2>3, <2>4, DocWritten
<1>3. ASSUME NEW o \in Operators, IsServerAdmin(o) PROVE DocInv'
  <2>1. UNCHANGED docVars
    BY <1>3 DEF IsServerAdmin, server, history, docVars
  <2> QED
    BY <2>1, DocUnchanged
<1>4. ASSUME NEW o \in Operators, EnsureUsersDB(o) PROVE DocInv'
  <2>1. UNCHANGED docVars
    BY <1>4 DEF EnsureUsersDB, server, history, docVars
  <2> QED
    BY <2>1, DocUnchanged
<1>5. ASSUME NEW o \in Operators, CreateDatabase(o) PROVE DocInv'
  <2>1. UNCHANGED docVars
    BY <1>5 DEF CreateDatabase, server, history, docVars
  <2> QED
    BY <2>1, DocUnchanged
<1>6. ASSUME NEW o \in Operators, LookForUser(o) PROVE DocInv'
  <2>1. UNCHANGED docVars
    BY <1>6 DEF LookForUser, server, history, docVars
  <2> QED
    BY <2>1, DocUnchanged
<1>7. ASSUME NEW o \in Operators, Read(o) PROVE DocInv'
  <2>1. CASE user.live
    <3>1. seen' = [seen EXCEPT ![o] = user] /\ UNCHANGED <<user, grants, granted>>
      BY <1>7, <2>1 DEF Read, Reread, server, history
    <3> QED
      BY <3>1, DocRead
  <2>2. CASE ~user.live
    <3>1. UNCHANGED docVars
      BY <1>7, <2>2 DEF Read, server, history, docVars
    <3> QED
      BY <3>1, DocUnchanged
  <2> QED
    BY <2>1, <2>2
<1>8. ASSUME NEW o \in Operators, PasswordFor(o) PROVE DocInv'
  <2>1. UNCHANGED docVars
    BY <1>8 DEF PasswordFor, server, history, docVars
  <2> QED
    BY <2>1, DocUnchanged
<1>9. ASSUME NEW o \in Operators, Confirm(o) PROVE DocInv'
  <2>1. UNCHANGED docVars
    BY <1>9 DEF Confirm, server, history, docVars
  <2> QED
    BY <2>1, DocUnchanged
<1>10. ASSUME NEW o \in Operators, GetRev(o) PROVE DocInv'
  <2>1. CASE user.live
    <3>1. seen' = [seen EXCEPT ![o] = user] /\ UNCHANGED <<user, grants, granted>>
      BY <1>10, <2>1 DEF GetRev, Reread, server, history
    <3> QED
      BY <3>1, DocRead
  <2>2. CASE ~user.live
    <3>1. UNCHANGED docVars
      BY <1>10, <2>2 DEF GetRev, server, history, docVars
    <3> QED
      BY <3>1, DocUnchanged
  <2> QED
    BY <2>1, <2>2
<1>11. ASSUME NEW o \in Operators, PutUser(o) PROVE DocInv'
  <2>1. CASE user.live
    <3>1. UNCHANGED docVars
      BY <1>11, <2>1 DEF PutUser, docVars
    <3> QED
      BY <3>1, DocUnchanged
  <2>2. CASE ~user.live
    <3>1. /\ user' = [live |-> TRUE, rev |-> user.rev + 1, pw |-> o, roles |-> {}]
          /\ granted' = {} /\ UNCHANGED <<seen, grants>>
      BY <1>11, <2>2 DEF PutUser
    <3>2. user' \in User /\ user'.rev = user.rev + 1
      BY <3>1 DEF DocInv, Documents, User
    <3>3. grants' \in Nat /\ granted' \in SUBSET Nat /\ RolesSurvive'
      BY <3>1 DEF DocInv, Documents, RolesSurvive
    <3> QED
      BY <3>1, <3>2, <3>3, DocWritten
  <2> QED
    BY <2>1, <2>2
<1>12. ASSUME NEW o \in Operators, PutUserPassword(o) PROVE DocInv'
  <2>1. user.live /\ seen[o] = user
    BY <1>12 DEF PutUserPassword, Current, DocInv, Revisions
  <2>2. user' = [user EXCEPT !.rev = @ + 1, !.pw = o]
    BY <1>12, <2>1 DEF PutUserPassword
  <2>3. user' \in User /\ user'.rev = user.rev + 1 /\ user'.roles = user.roles
    BY <2>2, UserPassword DEF DocInv, Documents
  <2>4. UNCHANGED <<seen, grants, granted>>
    BY <1>12 DEF PutUserPassword, history
  <2>5. grants' \in Nat /\ granted' \in SUBSET Nat /\ RolesSurvive'
    BY <2>1, <2>3, <2>4 DEF DocInv, Documents, RolesSurvive
  <2> QED
    BY <2>3, <2>4, <2>5, DocWritten
<1>13. ASSUME NEW o \in Operators, Conflict(o) PROVE DocInv'
  <2>1. UNCHANGED docVars
    BY <1>13 DEF Conflict, server, history, docVars
  <2> QED
    BY <2>1, DocUnchanged
<1>14. ASSUME NEW o \in Operators, DeleteUser(o) PROVE DocInv'
  <2>1. CASE Current(o)
    <3>1. /\ user' = [NoUser EXCEPT !.rev = user.rev + 1]
          /\ granted' = {} /\ UNCHANGED <<seen, grants>>
      BY <1>14, <2>1 DEF DeleteUser
    <3>2. user' \in User /\ user'.rev = user.rev + 1
      <4>1. user.rev + 1 \in Nat
        BY DEF DocInv, Documents, User
      <4> QED
        BY <3>1, <4>1, UserDeleted
    <3>3. grants' \in Nat /\ granted' \in SUBSET Nat /\ RolesSurvive'
      BY <3>1 DEF DocInv, Documents, RolesSurvive
    <3> QED
      BY <3>1, <3>2, <3>3, DocWritten
  <2>2. CASE ~Current(o)
    <3>1. UNCHANGED docVars
      BY <1>14, <2>2 DEF DeleteUser, docVars
    <3> QED
      BY <3>1, DocUnchanged
  <2> QED
    BY <2>1, <2>2
<1>15. ASSUME NEW o \in Operators, SetConfig(o) PROVE DocInv'
  <2>1. UNCHANGED docVars
    BY <1>15 DEF SetConfig, server, history, docVars
  <2> QED
    BY <2>1, DocUnchanged
<1>16. ASSUME NEW o \in Operators, DeleteConfig(o) PROVE DocInv'
  <2>1. UNCHANGED docVars
    BY <1>16 DEF DeleteConfig, server, history, docVars
  <2> QED
    BY <2>1, DocUnchanged
<1>17. ASSUME NEW o \in Operators, Hashed(o) PROVE DocInv'
  <2>1. UNCHANGED docVars
    BY <1>17 DEF Hashed, server, history, docVars
  <2> QED
    BY <2>1, DocUnchanged
<1>18. ASSUME NEW o \in Operators, Hinted(o) PROVE DocInv'
  <2>1. UNCHANGED docVars
    BY <1>18 DEF Hinted, server, history, docVars
  <2> QED
    BY <2>1, DocUnchanged
<1>19. ASSUME NEW o \in Operators, Fail(o) PROVE DocInv'
  <2>1. UNCHANGED docVars
    BY <1>19 DEF Fail, server, history, docVars
  <2> QED
    BY <2>1, DocUnchanged
<1>20. ASSUME NEW o \in Operators, Unseen(o) PROVE DocInv'
  <2>1. UNCHANGED docVars
    BY <1>20 DEF Unseen, server, history, docVars
  <2> QED
    BY <2>1, DocUnchanged
<1>21. ASSUME NEW o \in Operators, Deadline(o) PROVE DocInv'
  <2>1. UNCHANGED docVars
    BY <1>21 DEF Deadline, server, history, docVars
  <2> QED
    BY <2>1, DocUnchanged
<1>22. CASE UNCHANGED vars
  <2>1. UNCHANGED docVars
    BY <1>22 DEF vars, server, history, docVars
  <2> QED
    BY <2>1, DocUnchanged
<1> QED
  BY <1>1, <1>2, <1>3, <1>4, <1>5, <1>6, <1>7, <1>8, <1>9, <1>10, <1>11,
     <1>12, <1>13, <1>14, <1>15, <1>16, <1>17, <1>18, <1>19, <1>20, <1>21, <1>22
     DEF Next, Work

-----------------------------------------------------------------------------
(* The key is kept.                                                        *)

keyVars == <<pc, told, admins, hashing, alone, last>>

LEMMA KeyUnchanged == KeyInv /\ UNCHANGED keyVars => KeyInv'
BY DEF KeyInv, Standing, Written, LastStands, keyVars

(* A command that has yet to write goes on, or ends. *)
Moves(o) ==
  /\ pc[o] \notin {"wait", "done"}
  /\ \/ \E where \in Places : Goto(o, where)
     \/ \E word \in Words : End(o, word)
  /\ UNCHANGED <<admins, hashing, alone, last>>

LEMMA KeyMoves == ASSUME KeyInv, NEW o \in Operators, Moves(o) PROVE KeyInv'
<1>1. alone[o] = FALSE
  BY DEF Moves, KeyInv, Written, Standing
<1>2. ASSUME NEW where \in Places, Goto(o, where) PROVE KeyInv'
  BY <1>1, <1>2 DEF Moves, Goto, KeyInv, Standing, Written, LastStands
<1>3. ASSUME NEW word \in Words, End(o, word) PROVE KeyInv'
  BY <1>1, <1>3 DEF Moves, End, KeyInv, Standing, Written, LastStands, Places
<1> QED
  BY <1>2, <1>3 DEF Moves

LEMMA KeyStep == KeyInv /\ [Next]_vars => KeyInv'
<1> SUFFICES ASSUME KeyInv, [Next]_vars PROVE KeyInv'
  OBVIOUS
<1>1. CASE Hash
  BY <1>1 DEF Hash, history, KeyInv, Standing, Written, LastStands
<1>2. CASE Grant
  <2>1. UNCHANGED keyVars
    BY <1>2 DEF Grant, keyVars
  <2> QED
    BY <2>1, KeyUnchanged
<1>3. ASSUME NEW o \in Operators, IsServerAdmin(o) PROVE KeyInv'
  <2>1. Moves(o)
    BY <1>3 DEF IsServerAdmin, Moves, Places, Words, server, history
  <2> QED
    BY <2>1, KeyMoves
<1>4. ASSUME NEW o \in Operators, EnsureUsersDB(o) PROVE KeyInv'
  <2>1. Moves(o)
    BY <1>4 DEF EnsureUsersDB, Moves, Places, Words, server, history
  <2> QED
    BY <2>1, KeyMoves
<1>5. ASSUME NEW o \in Operators, CreateDatabase(o) PROVE KeyInv'
  <2>1. Moves(o)
    BY <1>5 DEF CreateDatabase, Moves, Places, Words, server, history
  <2> QED
    BY <2>1, KeyMoves
<1>6. ASSUME NEW o \in Operators, LookForUser(o) PROVE KeyInv'
  <2>1. Moves(o)
    BY <1>6 DEF LookForUser, Moves, Places, Words, server, history
  <2> QED
    BY <2>1, KeyMoves
<1>7. ASSUME NEW o \in Operators, Read(o) PROVE KeyInv'
  <2>1. Moves(o)
    BY <1>7 DEF Read, Moves, Places, Words, server, history
  <2> QED
    BY <2>1, KeyMoves
<1>8. ASSUME NEW o \in Operators, PasswordFor(o) PROVE KeyInv'
  <2>1. Moves(o)
    BY <1>8 DEF PasswordFor, Moves, Places, Words, server, history
  <2> QED
    BY <2>1, KeyMoves
<1>9. ASSUME NEW o \in Operators, Confirm(o) PROVE KeyInv'
  <2>1. Moves(o)
    BY <1>9 DEF Confirm, Moves, Places, Words, server, history
  <2> QED
    BY <2>1, KeyMoves
<1>10. ASSUME NEW o \in Operators, GetRev(o) PROVE KeyInv'
  <2>1. Moves(o)
    BY <1>10 DEF GetRev, Moves, Places, Words, server, history
  <2> QED
    BY <2>1, KeyMoves
<1>11. ASSUME NEW o \in Operators, PutUser(o) PROVE KeyInv'
  <2>1. Moves(o)
    BY <1>11 DEF PutUser, Moves, Places, Words, server, history, Writing, Answer
  <2> QED
    BY <2>1, KeyMoves
<1>12. ASSUME NEW o \in Operators, PutUserPassword(o) PROVE KeyInv'
  <2>1. Moves(o)
    BY <1>12 DEF PutUserPassword, Moves, Places, Words, server, history, Writing, Answer
  <2> QED
    BY <2>1, KeyMoves
<1>13. ASSUME NEW o \in Operators, Conflict(o) PROVE KeyInv'
  <2>1. Moves(o)
    BY <1>13 DEF Conflict, Moves, Places, Words, server, history, Writing
  <2> QED
    BY <2>1, KeyMoves
<1>14. ASSUME NEW o \in Operators, DeleteUser(o) PROVE KeyInv'
  <2>1. Moves(o)
    BY <1>14 DEF DeleteUser, Moves, Places, Words, server, history, Writing, Answer
  <2> QED
    BY <2>1, KeyMoves
<1>15. ASSUME NEW o \in Operators, SetConfig(o) PROVE KeyInv'
  <2>1. alone' \in [Operators -> BOOLEAN]
    BY <1>15 DEF SetConfig, KeyInv, Standing
  <2>2. Standing' /\ Written'
    BY <1>15, <2>1 DEF SetConfig, Writing, Goto, End, KeyInv, Standing, Written,
       Places, Words
  <2>3. told'[o] # "done"
    BY <1>15 DEF SetConfig, Writing, Goto, End, KeyInv, Standing, Written
  <2>4. alone'[o] => hashing = {}
    BY <1>15 DEF SetConfig, KeyInv, Standing
  <2>5. LastStands'
    BY <1>15, <2>3, <2>4 DEF SetConfig, LastStands
  <2> QED
    BY <2>2, <2>5 DEF KeyInv
<1>16. ASSUME NEW o \in Operators, DeleteConfig(o) PROVE KeyInv'
  <2>1. CASE ~admins.there
    <3>1. Moves(o)
      BY <1>16, <2>1 DEF DeleteConfig, Moves, Words, Writing
    <3> QED
      BY <3>1, KeyMoves
  <2>2. CASE admins.there
    BY <1>16, <2>2, AccountsAssumption
       DEF DeleteConfig, Writing, Answer, End, KeyInv, Standing, Written, LastStands,
           Places, Words
  <2> QED
    BY <2>1, <2>2
<1>17. ASSUME NEW o \in Operators, Hashed(o) PROVE KeyInv'
  BY <1>17 DEF Hashed, IsHash, End, server, history, KeyInv, Standing, Written,
     LastStands, Places, Words
<1>18. ASSUME NEW o \in Operators, Hinted(o) PROVE KeyInv'
  BY <1>18 DEF Hinted, IsHash, End, server, history, KeyInv, Standing, Written,
     LastStands, Places, Words
<1>19. ASSUME NEW o \in Operators, Fail(o) PROVE KeyInv'
  <2>1. Moves(o)
    BY <1>19 DEF Fail, Moves, Places, Words, server, history
  <2> QED
    BY <2>1, KeyMoves
<1>20. ASSUME NEW o \in Operators, Unseen(o) PROVE KeyInv'
  BY <1>20 DEF Unseen, End, server, history, KeyInv, Standing, Written,
     LastStands, Places, Words
<1>21. ASSUME NEW o \in Operators, Deadline(o) PROVE KeyInv'
  <2>1. UNCHANGED keyVars
    BY <1>21 DEF Deadline, server, history, keyVars
  <2> QED
    BY <2>1, KeyUnchanged
<1>22. CASE UNCHANGED vars
  <2>1. UNCHANGED keyVars
    BY <1>22 DEF vars, server, history, keyVars
  <2> QED
    BY <2>1, KeyUnchanged
<1> QED
  BY <1>1, <1>2, <1>3, <1>4, <1>5, <1>6, <1>7, <1>8, <1>9, <1>10, <1>11,
     <1>12, <1>13, <1>14, <1>15, <1>16, <1>17, <1>18, <1>19, <1>20, <1>21, <1>22
     DEF Next, Work

-----------------------------------------------------------------------------

LEMMA Invariant == Spec => []Inv
<1>1. Inv /\ [Next]_vars => Inv'
  BY DocStep, KeyStep DEF Inv
<1> QED
  BY Initially, <1>1, PTL DEF Spec

(* A role given while a password is being changed is in the document afterwards,
   whatever the number of operators and whatever else they do to the name. *)
THEOREM RolesAreKept == Spec => []RolesSurvive
<1>1. Inv => RolesSurvive
  BY DEF Inv, DocInv
<1> QED
  BY <1>1, Invariant, PTL

(* A server admin's password that was told to be set is the one the server knows
   until the key is written again, unless a hash was outstanding at the write. *)
THEOREM PasswordIsKept == Spec => []PasswordStands
<1>1. Inv => PasswordStands
  BY DEF Inv, KeyInv, LastStands, PasswordStands
<1> QED
  BY <1>1, Invariant, PTL
=============================================================================
