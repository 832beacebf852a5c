------------------------------ MODULE Accounts ------------------------------
(***************************************************************************)
(* The accounts of a server, managed by several operators at once: users   *)
(* add, passwd and rm (internal/command/users.go).                         *)
(*                                                                         *)
(* A name may be a document of the _users database, which has revisions,   *)
(* and a key of the [admins] section, which has none and whose password    *)
(* the server replaces by its hash some time after the write.  Which of    *)
(* the two a command is about is settled when it starts, and the operator  *)
(* then types a password or answers a question.  All here is about one     *)
(* name; a password is the operator who chose it, or what was there.       *)
(***************************************************************************)
EXTENDS Naturals, FiniteSets

CONSTANTS Operators,
          Commands,     \* the commands they may run
          MaxGrants     \* bound: roles given by other clients

Before == "before"

ASSUME AccountsAssumption == Before \notin Operators /\ MaxGrants \in Nat

VARIABLES usersdb,      \* the _users database exists
          user,         \* the document: [live, rev, pw, roles]
          admins,       \* the key: [there, pw, hashed]
          hashing,      \* passwords the server has yet to hash
          grants,       \* roles given by other clients so far
          pc,           \* where each operator's command stands
          cmd,          \* which command it is
          target,       \* what it is about: "key" or "doc"
          seen,         \* the document it has read
          tries,        \* conflicts met
          late,         \* the wait for the hash has run out
          told,         \* what the command ended with, "running" before
          granted,      \* history: roles given since the document was made
          alone,        \* history: no hash was outstanding at its write
          last          \* history: the last to write the key

server  == <<usersdb, user, admins, hashing, grants>>
history == <<granted, alone, last>>
vars == <<server, pc, cmd, target, seen, tries, late, told, history>>

NoUser == [live |-> FALSE, rev |-> 0, pw |-> Before, roles |-> {}]
NoKey  == [there |-> FALSE, pw |-> Before, hashed |-> FALSE]

Init ==
  /\ usersdb \in BOOLEAN
  /\ user \in {NoUser} \cup IF usersdb THEN {[NoUser EXCEPT !.live = TRUE, !.rev = 1]} ELSE {}
  /\ admins \in {NoKey, [there |-> TRUE, pw |-> Before, hashed |-> TRUE]}
  /\ hashing = {} /\ grants = 0 /\ granted = {}
  /\ cmd \in [Operators -> Commands]
  /\ pc = [o \in Operators |-> "start"]
  /\ target = [o \in Operators |-> "doc"]
  /\ seen = [o \in Operators |-> NoUser]
  /\ tries = [o \in Operators |-> 0]
  /\ late = [o \in Operators |-> FALSE]
  /\ told = [o \in Operators |-> "running"]
  /\ alone = [o \in Operators |-> FALSE]
  /\ last = Before

(***************************************************************************)
(* The server and its other clients.                                       *)
(***************************************************************************)
\* The hash of an older password may land after a newer password was written, or
\* after the key was deleted.
Hash ==
  \E w \in hashing :
    /\ hashing' = hashing \ {w}
    /\ admins' \in {[there |-> TRUE, pw |-> w, hashed |-> TRUE]} \cup IF admins.there THEN {} ELSE {admins}
    /\ UNCHANGED <<usersdb, user, grants, pc, cmd, target, seen, tries, late, told, history>>

Grant ==
  /\ user.live /\ grants < MaxGrants
  /\ grants' = grants + 1
  /\ user' = [user EXCEPT !.rev = @ + 1, !.roles = @ \cup {grants'}]
  /\ granted' = granted \cup {grants'}
  /\ UNCHANGED <<usersdb, admins, hashing, pc, cmd, target, seen, tries, late, told, alone, last>>

(***************************************************************************)
(* A command.                                                              *)
(***************************************************************************)
Goto(o, where) == pc' = [pc EXCEPT ![o] = where] /\ UNCHANGED told
End(o, word) == pc' = [pc EXCEPT ![o] = "done"] /\ told' = [told EXCEPT ![o] = word]
Adds(o) == cmd[o] \in {"add", "addadmin"}
Removes(o) == cmd[o] \in {"rm", "rmadmin"}
Flagged(o) == cmd[o] \in {"addadmin", "passwdadmin", "rmadmin"}

\* A name that is a key is treated as one, --admin or not; --admin with a name
\* that is none is for add and rm only.
IsServerAdmin(o) ==
  /\ pc[o] = "start"
  /\ target' = [target EXCEPT ![o] = IF admins.there \/ Flagged(o) THEN "key" ELSE "doc"]
  /\ IF Removes(o) THEN Goto(o, "ask")
     ELSE IF Adds(o) /\ admins.there THEN End(o, "error")
     ELSE IF ~Adds(o) /\ ~admins.there /\ Flagged(o) THEN End(o, "error")
     ELSE IF admins.there \/ Flagged(o) THEN Goto(o, "password")
     ELSE Goto(o, IF Adds(o) THEN "ensure" ELSE "read")
  /\ UNCHANGED <<server, cmd, seen, tries, late, history>>

\* users add creates the database if it must.
EnsureUsersDB(o) ==
  /\ pc[o] = "ensure"
  /\ Goto(o, IF usersdb THEN "look" ELSE "create")
  /\ UNCHANGED <<server, cmd, target, seen, tries, late, history>>

CreateDatabase(o) ==
  /\ pc[o] = "create"
  /\ usersdb' = TRUE
  /\ IF usersdb THEN End(o, "error") ELSE Goto(o, "password")
  /\ UNCHANGED <<user, admins, hashing, grants, cmd, target, seen, tries, late, history>>

LookForUser(o) ==
  /\ pc[o] = "look"
  /\ IF user.live THEN End(o, "error") ELSE Goto(o, "password")
  /\ UNCHANGED <<server, cmd, target, seen, tries, late, history>>

\* passwd reads the document before the password is asked for, and again after
\* a conflict.
RereadRev(o) == IF tries[o] = 0 THEN [seen EXCEPT ![o] = user] ELSE [seen EXCEPT ![o].rev = user.rev]
Reread(o) == [seen EXCEPT ![o] = user]
Read(o) ==
  /\ pc[o] = "read"
  /\ IF ~user.live THEN End(o, "error") /\ UNCHANGED seen
     ELSE /\ seen' = Reread(o)
          /\ Goto(o, IF tries[o] = 0 THEN "password" ELSE "write")
  /\ UNCHANGED <<server, cmd, target, tries, late, history>>

\* Typed twice, or one line of standard input.
PasswordFor(o) ==
  /\ pc[o] = "password"
  /\ Goto(o, "write")
  /\ UNCHANGED <<server, cmd, target, seen, tries, late, history>>

Confirm(o) ==
  /\ pc[o] = "ask"
  /\ Goto(o, IF target[o] = "doc" THEN "getrev" ELSE "write")
  /\ UNCHANGED <<server, cmd, target, seen, tries, late, history>>

GetRev(o) ==
  /\ pc[o] = "getrev"
  /\ IF user.live THEN Goto(o, "write") /\ seen' = Reread(o) ELSE End(o, "error") /\ UNCHANGED seen
  /\ UNCHANGED <<server, cmd, target, tries, late, history>>

\* No password, a no, Ctrl-C, a request that fails before the server has seen it.
Fail(o) ==
  /\ pc[o] \notin {"wait", "done"}
  /\ End(o, "error")
  /\ UNCHANGED <<server, cmd, target, seen, tries, late, history>>

(***************************************************************************)
(* The writes.                                                             *)
(***************************************************************************)
Writing(o, what) == pc[o] = "write" /\ target[o] = what

\* The server's answer may be lost on its way.
Answer(o) == End(o, "done") \/ End(o, "error")

\* add names no revision, so that a document that is there is not replaced.
PutUser(o) ==
  /\ Writing(o, "doc") /\ Adds(o)
  /\ IF user.live THEN End(o, "error") /\ UNCHANGED <<user, granted>>
     ELSE /\ user' = [live |-> TRUE, rev |-> user.rev + 1, pw |-> o, roles |-> {}]
          /\ granted' = {}
          /\ Answer(o)
  /\ UNCHANGED <<usersdb, admins, hashing, grants, cmd, target, seen, tries, late, alone, last>>

Current(o) == user.live /\ user.rev = seen[o].rev

\* The document goes back as it was read but for the password.
PutUserPassword(o) ==
  /\ Writing(o, "doc") /\ ~Adds(o) /\ ~Removes(o) /\ Current(o)
  /\ user' = [seen[o] EXCEPT !.rev = @ + 1, !.pw = o]
  /\ Answer(o)
  /\ UNCHANGED <<usersdb, admins, hashing, grants, cmd, target, seen, tries, late, history>>

\* A conflict is answered by reading again, once.
Conflict(o) ==
  /\ Writing(o, "doc") /\ ~Adds(o) /\ ~Removes(o) /\ ~Current(o)
  /\ tries' = [tries EXCEPT ![o] = @ + 1]
  /\ IF tries[o] = 0 THEN Goto(o, "read") ELSE End(o, "error")
  /\ UNCHANGED <<server, cmd, target, seen, late, history>>

DeleteUser(o) ==
  /\ Writing(o, "doc") /\ Removes(o)
  /\ IF Current(o) THEN user' = [NoUser EXCEPT !.rev = user.rev + 1] /\ granted' = {} /\ Answer(o)
     ELSE End(o, "error") /\ UNCHANGED <<user, granted>>
  /\ UNCHANGED <<usersdb, admins, hashing, grants, cmd, target, seen, tries, late, alone, last>>

SetConfig(o) ==
  /\ Writing(o, "key") /\ ~Removes(o)
  /\ admins' = [there |-> TRUE, pw |-> o, hashed |-> FALSE]
  /\ hashing' = hashing \cup {o}
  /\ alone' = [alone EXCEPT ![o] = hashing = {}]
  /\ last' = o
  /\ Goto(o, "wait") \/ End(o, "error")
  /\ UNCHANGED <<usersdb, user, grants, cmd, target, seen, tries, late, granted>>

DeleteConfig(o) ==
  /\ Writing(o, "key") /\ Removes(o)
  /\ IF admins.there THEN admins' = NoKey /\ last' = Before /\ Answer(o)
     ELSE End(o, "error") /\ UNCHANGED <<admins, last>>
  /\ UNCHANGED <<usersdb, user, hashing, grants, cmd, target, seen, tries, late, granted, alone>>

(***************************************************************************)
(* waitForAdminHash: success is told once the value is a hash; the wait is *)
(* bounded, and its end is told with a hint.                               *)
(***************************************************************************)
AnyValue(key) == key.there
IsHash(key) == key.there /\ key.hashed

TimedNever(o) == FALSE
TimedOut(o) == late[o]

Hashed(o) ==
  /\ pc[o] = "wait" /\ IsHash(admins)
  /\ End(o, "done")
  /\ UNCHANGED <<server, cmd, target, seen, tries, late, history>>

Hinted(o) ==
  /\ pc[o] = "wait" /\ ~IsHash(admins) /\ TimedOut(o)
  /\ End(o, "hinted")
  /\ UNCHANGED <<server, cmd, target, seen, tries, late, history>>

\* A look that fails, at a key that is gone for one, or Ctrl-C, ends the wait
\* without a hint.
Unseen(o) ==
  /\ pc[o] = "wait"
  /\ End(o, "unseen")
  /\ UNCHANGED <<server, cmd, target, seen, tries, late, history>>

Deadline(o) ==
  /\ pc[o] = "wait" /\ ~late[o]
  /\ late' = [late EXCEPT ![o] = TRUE]
  /\ UNCHANGED <<server, pc, cmd, target, seen, tries, told, history>>

Work(o) ==
  \/ IsServerAdmin(o) \/ EnsureUsersDB(o) \/ CreateDatabase(o) \/ LookForUser(o) \/ Read(o)
  \/ PasswordFor(o) \/ Confirm(o) \/ GetRev(o)
  \/ PutUser(o) \/ PutUserPassword(o) \/ Conflict(o) \/ DeleteUser(o)
  \/ SetConfig(o) \/ DeleteConfig(o) \/ Hashed(o) \/ Hinted(o)

Next == \/ Hash \/ Grant
        \/ \E o \in Operators : Work(o) \/ Fail(o) \/ Unseen(o) \/ Deadline(o)

(* A command goes on, its operator types what is asked, and time passes: the     *)
(* server need neither hash a password nor stop changing.                       *)
Fairness == \A o \in Operators : WF_vars(Work(o)) /\ WF_vars(Deadline(o))

Spec == Init /\ [][Next]_vars /\ Fairness

(***************************************************************************)
(* Properties                                                              *)
(***************************************************************************)
(* "Everything else in the document is kept, so a role an operator added        *)
(* elsewhere survives a password change" (putUserPassword), the one that met a *)
(* conflict as well.                                                           *)
RolesSurvive == user.live => granted \subseteq user.roles

(* A server admin's password that was reported set, the wait having seen its    *)
(* hash, is the one the server knows from then on, until somebody writes the   *)
(* key again.  It takes that nobody else's hash was outstanding at the write:  *)
(* "the hashing of the first can land after the second value and put the first *)
(* password back" (waitForAdminHash).                                          *)
PasswordStands ==
  \A o \in Operators :
    told[o] = "done" /\ alone[o] /\ last = o
      => admins = [there |-> TRUE, pw |-> o, hashed |-> TRUE]

(* Every command ends, even if the server never hashes the password it was      *)
(* given (adminHashWait).                                                      *)
Answered == \A o \in Operators : <>(told[o] # "running")
=============================================================================
