------------------------------ MODULE Profiles ------------------------------
(***************************************************************************)
(* Connections and the profiles they are saved as: how a command settles   *)
(* which server it talks to, as whom and with what credential, and what it *)
(* writes to the two places every cdb process of a user shares, the file   *)
(* config.toml and the keyring (internal/command/connect.go and            *)
(* internal/config).                                                       *)
(*                                                                         *)
(* A process runs one command at a time.  Reading the file, reading the    *)
(* keyring, logging in, writing the keyring and writing the file are       *)
(* separate steps, between which another process may run, and at each of   *)
(* which the command may end: Ctrl-C, a keyring that will not open, a disk *)
(* that is full.  A rename makes the write of the file atomic.  Roles, TLS *)
(* settings and the addresses of IAM and of replication go wherever the    *)
(* rest of the profile goes, and are left out.                             *)
(***************************************************************************)
EXTENDS Naturals, FiniteSets

CONSTANTS Procs, Names, Servers, Users, Secrets,
          None,         \* nothing: an empty name, secret, flag or variable
          Creds,        \* what each server accepts: [kind, user, secret]
          Sha1Only,     \* servers that verify no proxy token but SHA-1
          HostName,     \* the profile name a server's URL suggests
          Commands,     \* the commands each process may be given
          Envs,         \* the environments they may be run in
          Answers,      \* what an operator may type: [user, secret]
          Guided,       \* what an operator may answer to the walk-through
          Seeds,        \* what the file and the keyring may hold at first
          MaxCommands   \* bound: commands run altogether

\* The shapes of what comes from outside.
Kinds   == {"session", "jwt", "proxy", "iam", "none"}
Maybe(S) == S \cup {None}
Address == [server : Servers, user : Maybe(Users), secret : Maybe(Secrets)]
Profile == [url : Address, auth : Kinds, user : Maybe(Users), hash : {"sha1", "sha256", None}]
File    == [profiles : [Names -> Maybe(Profile)], default : Maybe(Names)]
Command == [op : {"connect", "add", "remove", "default"}, arg : Maybe(Names \cup Address),
            flag : Maybe(Names \cup Address), kind : Maybe(Kinds), as : Maybe(Names),
            save : BOOLEAN, tty : BOOLEAN, anon : BOOLEAN]
Env     == [profile : Maybe(Names), url : Maybe(Address), user : Maybe(Users),
            password : Maybe(Secrets), token : Maybe(Secrets), key : Maybe(Secrets)]

\* A credential has a secret, and that of a session a user; profiles add is given
\* a name and an address; and the default is a profile there is.
ASSUME ProfilesAssumption ==
  /\ None \notin Names \cup Users \cup Secrets \cup Address \cup Profile
  /\ None \notin {"sha1", "sha256", "service", "nobody"}
  /\ Names \cap Address = {}
  /\ \A s \in Servers : \A c \in Creds[s] :
       c.secret \in Secrets /\ (c.kind = "session" => c.user \in Users)
  /\ HostName \in [Servers -> Names]
  /\ \A p \in Procs : \A c \in Commands[p] :
       c \in Command /\ (c.op = "add" => c.as \in Names /\ c.arg \in Address)
  /\ Envs \subseteq Env
  /\ Answers \subseteq [user : Maybe(Users), secret : Maybe(Secrets)]
  /\ Guided \subseteq [url : Address, kind : Kinds, name : Names]
  /\ \A s \in Seeds : /\ s.file \in File /\ s.ring \in [Names -> Maybe(Secrets)]
                      /\ s.file.default # None => s.file.profiles[s.file.default] # None

VARIABLES file,         \* config.toml: [profiles, default]
          ring,         \* the keyring: a secret for each name, or None
          at,           \* where each process is
          job,          \* what its command is working on
          copy,         \* the configuration it has read
          left,         \* commands still to come
          overlap,      \* two commands have been under way at once
          kept          \* history: what each profile was saved from

profilesVars == <<file, ring, at, job, copy, left, overlap, kept>>

Url(s, u, k) == [server |-> s, user |-> u, secret |-> k]
Clean(url) == Url(url.server, None, None)

EmptyFile == [profiles |-> [n \in Names |-> None], default |-> None]
Saved(f) == {n \in Names : f.profiles[n] # None}

NoJob == [cmd |-> None, env |-> None, prof |-> None, name |-> None, secret |-> None,
          bare |-> FALSE, userOnly |-> FALSE, guided |-> FALSE, who |-> None]

ProfilesInit == /\ \E s \in Seeds : file = s.file /\ ring = s.ring
        /\ at = [p \in Procs |-> "idle"]
        /\ job = [p \in Procs |-> NoJob]
        /\ copy = [p \in Procs |-> EmptyFile]
        /\ left = MaxCommands
        /\ overlap = FALSE
        /\ kept = [n \in Names |-> None]

(***************************************************************************)
(* Which profile a command opens.                                          *)
(***************************************************************************)
\* --url or --profile and the argument name one target between them; when they
\* disagree the command is refused.
Agree(c) == c.flag = None \/ c.arg = None \/ c.flag = c.arg
Named(c) == IF c.flag # None THEN c.flag ELSE c.arg

\* A target that was named silences CDB_URL.
EnvAlways(e, target) == e
EnvFor(e, target) == IF target # None THEN [e EXCEPT !.url = None] ELSE e

EnvSecret(e, kind) ==
  IF e.key # None THEN e.key
  ELSE IF kind = "iam" THEN None
  ELSE IF e.token # None THEN e.token
  ELSE e.password

\* The profile as the environment bends it.
EnvKind(e, kind) ==
  IF kind \in {"proxy", "iam"} THEN kind
  ELSE IF e.key # None THEN "iam"
  ELSE IF e.token # None THEN "jwt"
  ELSE IF e.password # None THEN "session"
  ELSE kind
Applied(e, p) == [p EXCEPT !.url  = IF e.url # None THEN e.url ELSE @,
                           !.user = IF e.user # None THEN e.user ELSE @,
                           !.auth = EnvKind(e, @)]

\* A profile for a URL that was named.  A user name without a password asks for
\* a login; anything else is left to the URL.
Prof(url, auth, user) == [url |-> url, auth |-> auth, user |-> user, hash |-> None]
UserOnly(url) == url.user # None /\ url.secret = None
ForUrl(url) == IF UserOnly(url) THEN Prof(Clean(url), "session", url.user)
               ELSE Prof(url, "none", url.user)

\* The name a command without a target falls back on.
Fallback(e, f) ==
  IF e.profile # None THEN e.profile
  ELSE IF f.default # None THEN f.default
  ELSE IF Cardinality(Saved(f)) = 1 THEN CHOOSE n \in Names : n \in Saved(f)
  ELSE None

\* The profile of a command before the environment and the flags, or None for
\* an error of usage.
NameOf(target, e, f) == CASE target = None     -> Fallback(e, f)
                          [] target \in Names  -> target
                          [] OTHER             -> None
Base(target, e, f) ==
  LET name == NameOf(target, e, f) IN
  IF target # None /\ target \notin Names THEN ForUrl(target)
  ELSE IF name # None THEN f.profiles[name]
  ELSE IF e.url # None THEN Prof(e.url, "session", None)
  ELSE None

\* A user the URL names beats CDB_USER.
UserOf(p, target, e) ==
  IF e.user = None THEN p.user
  ELSE IF target # None /\ target \notin Names /\ target.user # None THEN target.user
  ELSE IF p.url.user # None THEN p.url.user
  ELSE p.user

Bare(target, e, kind) ==
  /\ target # None /\ target \notin Names
  /\ target.user = None /\ target.secret = None
  /\ e.user = None /\ EnvSecret(e, None) = None
  /\ kind \notin {"proxy", "iam", "none"}

Opened(c, env, f) ==
  LET target == Named(c)
      e      == EnvFor(env, target)
      base   == Base(target, env, f)
      p      == Applied(e, base)
  IN IF base = None THEN None
     ELSE [NoJob EXCEPT
             !.cmd = c, !.env = e, !.name = NameOf(target, env, f),
             !.prof = [p EXCEPT !.user = UserOf(p, target, e),
                                !.auth = IF c.kind # None THEN c.kind ELSE @],
             !.bare = Bare(target, e, c.kind),
             !.userOnly = target # None /\ target \notin Names /\ UserOnly(target)]

(***************************************************************************)
(* What is asked, and what a server makes of the answer.                   *)
(***************************************************************************)
Question(j) ==
  IF ~j.cmd.tty \/ j.cmd.anon THEN "nothing"
  ELSE IF j.secret = None /\ j.prof.auth = "session" /\ j.prof.user # None THEN "password"
  ELSE IF j.secret = None /\ j.prof.auth \in {"proxy", "iam"} THEN "kind"
  ELSE IF j.bare THEN "login"
  ELSE "nothing"

\* The questions of one kind: an answer replaces what the profile says.
AskKind(j, a) ==
  [j EXCEPT !.secret = IF j.prof.auth = "none" THEN @ ELSE a.secret,
            !.prof.user = IF j.prof.auth \in {"session", "proxy"} THEN a.user ELSE @]

\* With no password left to try, a URL that names only a user is anonymous.
FallBack(j) == IF j.secret = None /\ j.userOnly /\ j.prof.auth = "session"
               THEN [j EXCEPT !.prof.auth = "none"] ELSE j

Answered(j, a) ==
  CASE Question(j) = "nothing"  -> FallBack(j)
    [] Question(j) = "password" -> FallBack([j EXCEPT !.secret = a.secret])
    [] Question(j) = "kind"     -> AskKind(j, a)
    [] Question(j) = "login"    ->
         IF a.secret = None THEN j
         ELSE [j EXCEPT !.secret = a.secret, !.prof.auth = "session", !.prof.user = a.user]

\* Who a server takes the client for: a user, "nobody", or None when it refuses.
Accepts(s, kind, user, secret) == [kind |-> kind, user |-> user, secret |-> secret] \in Creds[s]
Attempt(p, secret, hash) ==
  LET s == p.url.server IN
  CASE p.auth = "session" -> IF Accepts(s, "session", p.user, secret) THEN p.user ELSE None
    [] p.auth = "jwt"     -> IF \E u \in Users : Accepts(s, "jwt", u, secret)
                             THEN CHOOSE u \in Users : Accepts(s, "jwt", u, secret) ELSE None
    [] p.auth = "proxy"   -> IF p.user # None /\ Accepts(s, "proxy", None, secret)
                                /\ (hash = "sha1" \/ s \notin Sha1Only)
                             THEN p.user ELSE None
    [] p.auth = "iam"     -> IF Accepts(s, "iam", None, secret) THEN "service" ELSE None
    [] p.auth = "none"    -> IF p.url.user = None /\ p.url.secret = None THEN "nobody"
                             ELSE IF Accepts(s, "session", p.url.user, p.url.secret)
                                  THEN p.url.user ELSE None

\* An unpinned proxy profile has a second digest to try, and is pinned to the
\* one that worked.
Hash(p, secret) ==
  IF p.auth # "proxy" \/ p.hash # None THEN p.hash
  ELSE IF Attempt(p, secret, "sha256") # None THEN "sha256"
  ELSE "sha1"
Who(p, secret) == Attempt(p, secret, Hash(p, secret))

(***************************************************************************)
(* What is saved.                                                          *)
(***************************************************************************)
\* The secret that goes to the keyring and the profile that goes to the file:
\* a password in the URL is moved to the keyring.
Moved(p, secret) == IF secret = None THEN p.url.secret ELSE secret
StoredAsIs(p, secret) == [p EXCEPT !.url = Clean(@)]
Stored(p, secret) ==
  LET auth == IF secret = None /\ p.url.secret # None /\ p.auth = "none" THEN "session" ELSE p.auth
      user == IF p.user = None THEN p.url.user ELSE p.user
  IN [p EXCEPT !.url = Clean(@), !.auth = auth, !.user = IF auth = "none" THEN None ELSE user]

SetProfile(f, n, p) == [profiles |-> [f.profiles EXCEPT ![n] = p],
                        default  |-> IF f.default = None THEN n ELSE f.default]
RemoveProfile(f, n) == [profiles |-> [f.profiles EXCEPT ![n] = None],
                        default  |-> IF f.default = n THEN None ELSE f.default]

(***************************************************************************)
(* The steps of a command.                                                 *)
(***************************************************************************)
Busy(p) == at[p] # "idle"
Others(p) == \E q \in Procs \ {p} : Busy(q)

Goto(p, where) == at' = [at EXCEPT ![p] = where]

\* Two commands at once forfeit what is known of the profiles.
Forfeit(now) == /\ overlap' = now
                /\ kept' = IF now THEN [n \in Names |-> None] ELSE kept

End(p) == /\ Goto(p, "idle")
          /\ job' = [job EXCEPT ![p] = NoJob]
          /\ copy' = [copy EXCEPT ![p] = EmptyFile]
          /\ overlap' = (overlap /\ Others(p))
          /\ UNCHANGED left

\* The command ends between two steps: it has connected and is not to save, is
\* interrupted, refused by the keyring, the disk or the server, or given no
\* answer.
Stop(p) == Busy(p) /\ End(p) /\ UNCHANGED <<file, ring, kept>>

Ready(p) == at[p] = "idle" /\ left > 0
Started(p, where, j, c) ==
  /\ left' = left - 1
  /\ Goto(p, where)
  /\ job' = [job EXCEPT ![p] = j]
  /\ copy' = [copy EXCEPT ![p] = c]
  /\ Forfeit(overlap \/ Others(p))
  /\ UNCHANGED <<file, ring>>

\* Without a target, without a profile and on a terminal, connect walks the
\* operator through the first one.
WalkThrough(c) == c.op = "connect" /\ Named(c) = None /\ Saved(file) = {} /\ c.tty

Connect(p) ==
  /\ Ready(p)
  /\ \E c \in {x \in Commands[p] : x.op = "connect" /\ Agree(x) /\ ~WalkThrough(x)}, e \in Envs :
       LET o == Opened(c, e, file) IN o # None /\ Started(p, "secret", o, file)

PromptForProfile(p) ==
  /\ Ready(p)
  /\ \E c \in {x \in Commands[p] : WalkThrough(x)}, g \in Guided, a \in Answers :
       LET j == [NoJob EXCEPT !.cmd = c, !.name = g.name, !.guided = TRUE,
                              !.prof = Prof(g.url, g.kind, None)]
       IN Started(p, "login", AskKind(j, a), file)

\* profiles add: what is asked about and what is proved first.
AddKind(c) == IF c.kind # None THEN c.kind ELSE "session"
AddAsks(c) == /\ c.tty /\ ~c.anon
              /\ AddKind(c) = "session" => c.arg.user = None /\ c.arg.secret = None
ProfileToAdd(p) ==
  /\ Ready(p)
  /\ \E c \in {x \in Commands[p] : x.op = "add"}, a \in Answers :
       LET kind == AddKind(c)
           j    == [NoJob EXCEPT !.cmd = c, !.name = c.as, !.prof = Prof(c.arg, kind, None)]
       IN CASE AddAsks(c) /\ kind # "none" /\ (kind # "session" \/ a.secret # None)
                 -> Started(p, "login", AskKind(j, a), file)
            [] ~AddAsks(c) /\ ~(c.anon /\ kind = "session")
                 -> Started(p, "store", j, file)
            [] OTHER
                 -> Started(p, "store", [j EXCEPT !.prof.auth = "none"], file)

\* profiles remove and profiles default change the configuration they read.
RemoveDefault(p) ==
  /\ Ready(p)
  /\ \E c \in {x \in Commands[p] : x.op \in {"remove", "default"} /\ x.as \in Saved(file)} :
       Started(p, "write", [NoJob EXCEPT !.cmd = c, !.name = c.as],
               IF c.op = "remove" THEN RemoveProfile(file, c.as)
               ELSE [file EXCEPT !.default = c.as])

\* The environment's secret bypasses the keyring.
ReadSecret(p) ==
  LET j == job[p]
      s == EnvSecret(j.env, j.prof.auth)
  IN /\ at[p] = "secret"
     /\ job' = [job EXCEPT ![p].secret =
                  IF s # None THEN s
                  ELSE IF j.prof.auth # "none" /\ j.name # None THEN ring[j.name]
                  ELSE None]
     /\ Goto(p, "ask")
     /\ UNCHANGED <<file, ring, copy, left, overlap, kept>>

Ask(p) ==
  /\ at[p] = "ask"
  /\ \E a \in Answers : job' = [job EXCEPT ![p] = Answered(job[p], a)]
  /\ Goto(p, "login")
  /\ UNCHANGED <<file, ring, copy, left, overlap, kept>>

\* The credentials are proved against the server; a refusal ends the command.
VerifyLogin(p) ==
  LET j   == job[p]
      who == Who(j.prof, j.secret)
  IN /\ at[p] = "login" /\ who # None
     /\ job' = [job EXCEPT ![p] = [j EXCEPT !.who = who,
                                            !.prof.hash = Hash(j.prof, j.secret)]]
     /\ Goto(p, IF j.cmd.op = "add" THEN "store" ELSE "attached")
     /\ UNCHANGED <<file, ring, copy, left, overlap, kept>>

\* connect --save, or a yes to the walk-through's last question: under the name
\* given, the profile's own, or the host's.
SaveConnection(p) ==
  LET j == job[p] IN
  /\ at[p] = "attached"
  /\ j.cmd.save \/ j.cmd.as # None \/ j.guided
  /\ job' = [job EXCEPT ![p].name =
               IF j.cmd.as # None THEN j.cmd.as
               ELSE IF j.name # None THEN j.name
               ELSE HostName[j.prof.url.server]]
  /\ Goto(p, "store")
  /\ UNCHANGED <<file, ring, copy, left, overlap, kept>>

\* storeProfile reads the file again.
StoreProfile(p) ==
  /\ at[p] = "store"
  /\ copy' = [copy EXCEPT ![p] = file]
  /\ Goto(p, "set")
  /\ UNCHANGED <<file, ring, job, left, overlap, kept>>

\* The secret goes in first.
SetSecret(p) ==
  LET j      == job[p]
      stored == Stored(j.prof, j.secret)
      secret == Moved(j.prof, j.secret)
  IN /\ at[p] = "set"
     /\ ring' = IF secret # None /\ stored.auth # "none" THEN [ring EXCEPT ![j.name] = secret] ELSE ring
     /\ kept' = [kept EXCEPT ![j.name] = None]
     /\ copy' = [copy EXCEPT ![p] = SetProfile(@, j.name, stored)]
     /\ Goto(p, "write")
     /\ UNCHANGED <<file, job, left, overlap>>

\* A connection that only the password in its URL made is saved with another
\* secret at hand, or under another name than the URL's.
Astray(p, secret) == /\ p.auth = "none" /\ p.url.secret # None
                     /\ secret # None \/ p.user \notin {None, p.url.user}

\* What a profile was saved from, unless nothing proved it or it went astray.
SavedFrom(j) == IF j.who = None \/ Astray(j.prof, j.secret) THEN None
                ELSE [server |-> j.prof.url.server, who |-> j.who]

\* writeFileAtomic: a rename.
Save(p) ==
  LET j == job[p] IN
  /\ at[p] = "write"
  /\ file' = copy[p]
  /\ kept' = IF overlap \/ j.cmd.op = "default" THEN kept
             ELSE [kept EXCEPT ![j.name] = SavedFrom(j)]
  /\ IF j.cmd.op = "remove" THEN Goto(p, "forget") /\ UNCHANGED <<job, copy, left, overlap>>
     ELSE End(p)
  /\ UNCHANGED ring

\* profiles remove takes the secret away last.
Forget(p) ==
  /\ at[p] = "forget"
  /\ ring' = [ring EXCEPT ![job[p].name] = None]
  /\ End(p)
  /\ UNCHANGED <<file, kept>>

Step(p) == \/ Connect(p) \/ PromptForProfile(p) \/ ProfileToAdd(p) \/ RemoveDefault(p)
           \/ ReadSecret(p) \/ Ask(p) \/ VerifyLogin(p) \/ SaveConnection(p)
           \/ StoreProfile(p) \/ SetSecret(p) \/ Save(p) \/ Forget(p) \/ Stop(p)

ProfilesNext == \E p \in Procs : Step(p)

ProfilesSpec == ProfilesInit /\ [][ProfilesNext]_profilesVars

(***************************************************************************)
(* Properties                                                              *)
(***************************************************************************)
NoEnv == [profile |-> None, url |-> None, user |-> None,
          password |-> None, token |-> None, key |-> None]
Plain == [op |-> "connect", arg |-> None, flag |-> None, kind |-> None, as |-> None,
          save |-> FALSE, tty |-> FALSE, anon |-> FALSE]

(* The URL a command was aimed at: the one named, the named profile's, that of *)
(* the environment, or the one of the profile fallen back on.                  *)
Asked(j, read) ==
  LET target == Named(j.cmd) IN
  IF target \in Names THEN read.profiles[target].url
  ELSE IF target # None THEN target
  ELSE IF j.env.url # None THEN j.env.url
  ELSE read.profiles[j.name].url

(* A connection is to the server it was aimed at, and as the user its URL      *)
(* names or as nobody: what the shell happens to export for another server     *)
(* redirects neither (openProfileWith: "an explicit target wins over the       *)
(* environment").                                                              *)
ConnectsAsAsked ==
  \A p \in Procs : at[p] = "attached" /\ ~job[p].guided =>
    LET j == job[p]
        u == Named(j.cmd)
    IN /\ j.prof.url.server = Asked(j, copy[p]).server
       /\ u # None /\ u \notin Names /\ j.prof.auth \in {"session", "none"} /\ u.user # None
            => j.who \in {u.user, "nobody"}

(* A profile saved from a connection that did not go astray connects to the    *)
(* same server as the same user ever after, until a command names the profile  *)
(* or two commands overlap (storeProfile: "leaving a profile that reconnects   *)
(* the same way"); and the default is a profile there is, whatever two         *)
(* processes write over each other (RemoveProfile, writeFileAtomic).           *)
Reconnects ==
  /\ file.default # None => file.default \in Saved(file)
  /\ \A n \in Names : kept[n] # None =>
       /\ n \in Saved(file)
       /\ LET j == Opened([Plain EXCEPT !.arg = n], NoEnv, file)
              s == IF j.prof.auth = "none" THEN None ELSE ring[n]
          IN kept[n] = [server |-> j.prof.url.server, who |-> Who(j.prof, s)]
=============================================================================
