----------------------------- MODULE MCProfiles -----------------------------
(* One process is given every way to connect and to add a profile, the other
   changes the profiles under it; s1 takes passwords and a token, s2 a proxy
   secret that only its older digest opens, and an API key. *)
EXTENDS Profiles, TLC

CONSTANTS p1, p2, a, b, s1, s2, u1, u2, k1, k2

Cred(kind, user, secret) == [kind |-> kind, user |-> user, secret |-> secret]
MCCreds == s1 :> {Cred("session", u1, k1), Cred("session", u2, k2), Cred("jwt", u1, k1)}
           @@ s2 :> {Cred("session", u1, k2), Cred("proxy", None, k1), Cred("iam", None, k2)}
MCHostName == s1 :> a @@ s2 :> b

Urls == {Url(s1, None, None), Url(s1, u1, None), Url(s1, u1, k1), Url(s2, None, None), Url(s2, u1, k2)}

\* p1 is given every way to connect and to add; p2 disturbs it.
C(op, arg, as) == [Plain EXCEPT !.op = op, !.arg = arg, !.as = as]
Modes(c) == {[c EXCEPT !.tty = t, !.anon = n] : t, n \in BOOLEAN}
Connects ==
  UNION {Modes([Plain EXCEPT !.arg = t, !.kind = k, !.as = n]) :
           t \in Urls \cup {a, None}, k \in {None, "session", "jwt", "proxy", "none"}, n \in {None, a}}
  \cup {[Plain EXCEPT !.arg = t, !.flag = f, !.save = TRUE] :
           t \in {None, a}, f \in {a, Url(s2, None, None), Url(s1, u1, k1)}}
Adds == UNION {Modes([C("add", u, a) EXCEPT !.kind = k]) : u \in Urls, k \in {None, "proxy", "iam"}}
Disturbing == {C("remove", None, a), C("default", None, b), C("add", Url(s2, u1, k2), b),
               C("remove", None, b), C("add", Url(s1, u2, None), a)}
MCCommands == p1 :> (Connects \cup Adds) @@ p2 :> Disturbing

MCEnvs == {NoEnv,
           [NoEnv EXCEPT !.url = Url(s2, None, None)],
           [NoEnv EXCEPT !.user = u2, !.password = k2],
           [NoEnv EXCEPT !.password = k1],
           [NoEnv EXCEPT !.url = Url(s1, u1, None), !.user = u2, !.password = k1],
           [NoEnv EXCEPT !.url = Url(s1, u2, k2)],
           [NoEnv EXCEPT !.token = k1],
           [NoEnv EXCEPT !.key = k2, !.profile = a]}

MCAnswers == {[user |-> u1, secret |-> k1], [user |-> u2, secret |-> k2], [user |-> u1, secret |-> None]}
MCGuided == {[url |-> Url(s1, None, None), kind |-> "session", name |-> b],
             [url |-> Url(s2, None, None), kind |-> "proxy", name |-> b],
             [url |-> Url(s1, u1, k1), kind |-> "none", name |-> a]}

Session1 == [url |-> Url(s1, None, None), auth |-> "session", user |-> u1, hash |-> None]
MCSeeds == {[file |-> EmptyFile, ring |-> [n \in Names |-> None]],
            [file |-> SetProfile(EmptyFile, a, Session1), ring |-> [n \in Names |-> IF n = a THEN k1 ELSE None]]}
=============================================================================
