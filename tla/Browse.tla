------------------------------- MODULE Browse -------------------------------
(***************************************************************************)
(* The prompt of a shell: where it stands, the connection it has, and the  *)
(* names it remembers for completion (internal/session/session.go and      *)
(* cache.go), under cd, mkdir, rmdir, users add, restore --create, connect *)
(* and Tab, while other clients create, fill and remove databases.         *)
(*                                                                         *)
(* A database is the ids of its documents; of the field names that were    *)
(* sampled only the server they came from is kept.  Tab runs in the line   *)
(* editor, so that it never overlaps a command (internal/shell/            *)
(* complete.go); what it can overlap with is the server.                   *)
(***************************************************************************)
EXTENDS Paths, FiniteSets, Functions

CONSTANTS
  Servers,     \* Servers[h]: for each database of h at the start, its ids
  Members,     \* Members[id]: the <<kind, name>> a document holds
  Inputs,      \* the paths that are typed
  Restored,    \* the ids in the dump that is restored
  MaxTyped,    \* bound: commands typed
  MaxOutside   \* bound: changes by other clients

ASSUME BrowseAssumption ==
  /\ Inputs \subseteq [abs : BOOLEAN, segs : Seq(Segments)]
  /\ "x" \notin DOMAIN Unescaped \cup Malformed

Hosts == DOMAIN Servers
None  == "none"
Users == "_users"
NotLoaded == {None}
NoTarget  == [Resolve(<<>>, Here) EXCEPT !.kind = "none"]

VARIABLES
  dbs,      \* dbs[h]: for each database, the ids of its documents
  host,     \* the server of the session's client
  cwd,      \* session.cwd
  names,    \* cache.databases, or NotLoaded
  fields,   \* cache.fields: for a database that was sampled, where
  rmdir,    \* the target rmdir asks about, or NoTarget
  typed, outside,
  last,     \* last[h]: how each database last came or went: "mine" if this
            \* session made it so and knows, else "other"
  left      \* how the database that rmdir has just removed was spelled, or None

browseVars == <<dbs, host, cwd, names, fields, rmdir, typed, outside, last, left>>

BrowseInit ==
  /\ dbs = Servers
  /\ host \in Hosts /\ cwd = <<>> /\ names = NotLoaded /\ fields = <<>> /\ rmdir = NoTarget
  /\ typed = 0 /\ outside = 0
  /\ last = [h \in Hosts |-> <<>>] /\ left = None

Exists(d) == d \in DOMAIN dbs[host]
Docs(d)   == IF Exists(d) THEN dbs[host][d] ELSE {}

With(f, x, y) == [z \in DOMAIN f \cup {x} |-> IF z = x THEN y ELSE f[z]]
Without(f, x) == Restrict(f, DOMAIN f \ {x})

Created(h, d, ids, who) ==
  /\ dbs'  = [dbs EXCEPT ![h] = With(@, d, ids)]
  /\ last' = [last EXCEPT ![h] = With(@, d, who)]
Destroyed(h, d, who) ==
  /\ dbs'  = [dbs EXCEPT ![h] = Without(@, d)]
  /\ last' = [last EXCEPT ![h] = With(@, d, who)]

-----------------------------------------------------------------------------
(* Other clients, and a replication with create_target.                    *)

Outside ==
  /\ outside < MaxOutside /\ outside' = outside + 1
  /\ \/ \E d \in DOMAIN Servers[host] : Exists(d) /\ Destroyed(host, d, "other")
     \/ \E d \in DOMAIN Servers[host], ids \in {{}, Restored} :
          ~Exists(d) /\ Created(host, d, ids, "other")
  /\ UNCHANGED <<host, cwd, names, fields, rmdir, typed, left>>

-----------------------------------------------------------------------------
(* The commands.  One that is refused, or does not get through, changes nothing
   and is no step.  One that changes the server may have done so though its
   answer is lost; the session then goes on as if it had failed.           *)

Types == rmdir = NoTarget /\ typed < MaxTyped /\ typed' = typed + 1

Answers == {"done", "lost"}
Who(answer) == IF answer = "done" THEN "mine" ELSE "other"

(* verifyTarget: what cd makes sure of before the prompt moves. *)
Verified(t) ==
  CASE t.kind = "server"                    -> TRUE
    [] t.kind \in {"database", "partition"} -> Exists(t.db)
    [] t.kind \in {"document", "designdoc"} -> t.id \in Docs(t.db)
    [] t.kind = "none"                      -> FALSE
    [] OTHER -> t.id \in Docs(t.db) /\ <<t.kind, t.name>> \in Members[t.id]

Cd(input) ==
  /\ Types
  /\ LET t == Resolve(cwd, input) IN Verified(t) /\ cwd' = t.path
  /\ left' = None
  /\ UNCHANGED <<dbs, host, names, fields, rmdir, outside, last>>

ForgetNever == names                                              \* mutant
InvalidateDatabases == NotLoaded

Mkdir(input, answer) ==
  /\ Types
  /\ LET t == Resolve(cwd, input) IN
     t.kind = "database" /\ ~Exists(t.db) /\ Created(host, t.db, {}, Who(answer))
  /\ names' = IF answer = "done" THEN InvalidateDatabases ELSE names
  /\ UNCHANGED <<host, cwd, fields, rmdir, outside, left>>

(* rmdir reads the size of the database, then asks. *)
Rmdir(input) ==
  /\ Types
  /\ LET t == Resolve(cwd, input) IN t.kind = "database" /\ Exists(t.db) /\ rmdir' = t
  /\ UNCHANGED <<dbs, host, cwd, names, fields, outside, last, left>>

WithinSame(path, of) == path = of                                 \* mutant
Within(path, of) == IsPrefix(of, path)

ConfirmRmdir(answer) ==
  /\ rmdir # NoTarget /\ rmdir' = NoTarget
  /\ Exists(rmdir.db) /\ Destroyed(host, rmdir.db, Who(answer))
  /\ IF answer = "done"
       THEN /\ names' = InvalidateDatabases
            /\ fields' = Without(fields, rmdir.db)
            /\ cwd' = IF Within(cwd, rmdir.path) THEN <<>> ELSE cwd
            /\ left' = rmdir.path[1]
       ELSE UNCHANGED <<names, fields, cwd, left>>
  /\ UNCHANGED <<host, typed, outside>>

(* The operator declines, or the database is gone by now. *)
EndRmdir ==
  /\ rmdir # NoTarget /\ rmdir' = NoTarget
  /\ UNCHANGED <<dbs, host, cwd, names, fields, typed, outside, last, left>>

(* ensureUsersDB: users add makes the authentication database. *)
UsersAdd(answer) ==
  /\ Types
  /\ ~Exists(Users) /\ Created(host, Users, {}, Who(answer))
  /\ names' = IF answer = "done" THEN InvalidateDatabases ELSE names
  /\ UNCHANGED <<host, cwd, fields, rmdir, outside, left>>

(* prepareTarget: restore --create makes its target, and says so to nobody. *)
RestoreCreate(input) ==
  /\ Types
  /\ LET t == Resolve(cwd, input) IN
     t.kind = "database" /\ ~Exists(t.db) /\ Created(host, t.db, Restored, "other")
  /\ UNCHANGED <<host, cwd, names, fields, rmdir, outside, left>>

(* Attach, by connect. *)
Reset == <<>>
Connect(h) ==
  /\ Types
  /\ host' = h /\ cwd' = <<>> /\ names' = InvalidateDatabases /\ fields' = Reset
  /\ left' = None
  /\ UNCHANGED <<dbs, rmdir, outside, last>>

-----------------------------------------------------------------------------
(* Tab.                                                                    *)

(* Names of databases: cached, or asked for; a server that does not answer in
   time changes nothing. *)
TabNames ==
  /\ rmdir = NoTarget /\ names = NotLoaded
  /\ names' = DOMAIN dbs[host]
  /\ UNCHANGED <<dbs, host, cwd, fields, rmdir, typed, outside, last, left>>

(* CompleteFields, for the database of a path on the line or the prompt's. *)
TabFields(input) ==
  /\ rmdir = NoTarget
  /\ LET t == Resolve(cwd, input)
         d == t.db
     IN
     /\ t.kind # "none" /\ Exists(d) /\ d \notin DOMAIN fields
     /\ fields' = With(fields, d, host)
  /\ UNCHANGED <<dbs, host, cwd, names, rmdir, typed, outside, last, left>>

BrowseNext ==
  \/ Outside
  \/ \E i \in Inputs : Cd(i) \/ Rmdir(i) \/ RestoreCreate(i)
  \/ \E i \in Inputs \cup {Here} : TabFields(i)
  \/ \E i \in Inputs, a \in Answers : Mkdir(i, a)
  \/ \E a \in Answers : ConfirmRmdir(a) \/ UsersAdd(a)
  \/ EndRmdir \/ TabNames
  \/ \E h \in Hosts : Connect(h)

-----------------------------------------------------------------------------
(* What must hold.                                                         *)

Mine(d) == d \in DOMAIN last[host] /\ last[host][d] = "mine"

(* The prompt is never left in a database that this session removed, at
   whatever depth it stood and whoever else removes and creates databases
   meanwhile (Rmdir).  The code compares spellings: of a database written with
   an escape here and without it there this is not true, and nothing is said. *)
NotStranded ==
  (cwd # <<>> /\ cwd[1] = left /\ Mine(Decode(left))) => Exists(Decode(left))

(* What is remembered for completion is of the server the session is connected
   to, and agrees with each database that the session itself made or removed,
   and knows of, last of all (Cache.InvalidateDatabases, InvalidateFields,
   Reset). *)
OwnChangesOffered ==
  /\ names # NotLoaded =>
       \A d \in DOMAIN last[host] : Mine(d) => (d \in names <=> Exists(d))
  /\ \A d \in DOMAIN fields : fields[d] = host /\ (Mine(d) => Exists(d))

Ups(n) == From([i \in 1..n |-> ".."])
Climb(path, n) ==
  LET at[i \in 0..n] == IF i = 0 THEN path ELSE Clean(at[i - 1], Ups(1)) IN at[n]

(* Several ".." at once lead where they lead one by one, never to a bare
   separator; a name after them is looked up there; and a name after one ".."
   out of a partition is the partition beside it (Clean).  The separator is
   meant as it is spelled: one that is typed with an escape is stepped on. *)
UpStepsOver ==
  /\ \A n \in 1..4 : Clean(cwd, Ups(n)) = Climb(cwd, n)
  /\ \A n \in 2..4 : Clean(cwd, From(Append(Ups(n).segs, "x"))) = Append(Climb(cwd, n), "x")
  /\ Resolve(cwd, Here).kind = "partition" /\ cwd[2] = "_partition" =>
       /\ Resolve(cwd, Ups(1)).kind = "database"
       /\ Resolve(cwd, From(<<"..", "x">>)).kind = "partition"
=============================================================================
