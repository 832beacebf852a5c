---------------------------- MODULE AuthTransport ---------------------------
(***************************************************************************)
(* The transports that hold a credential the server may stop accepting:    *)
(* the cookie of a session (internal/couch/auth.go, sessionTransport) and  *)
(* the bearer token of an IAM key (internal/couch/iamauth.go,              *)
(* iamTransport).  The requests of all stages of a pipeline go through one *)
(* transport, and share what it holds under a mutex.                       *)
(*                                                                         *)
(* A credential is the number it was issued under.                         *)
(***************************************************************************)
EXTENDS Naturals, FiniteSets

CONSTANTS
  Requests,
  Streamed,   \* those of them whose body cannot be sent again
  MaxEvents   \* bound: credentials the server revokes or that age

Nobody == "nobody"

ASSUME AuthAssumption ==
  /\ Streamed \subseteq Requests /\ MaxEvents \in Nat
  /\ Nobody \notin Requests

VARIABLES
  kind,       \* "session" or "iam"
  live,       \* the credentials the server accepts
  issued,     \* how many it has issued
  held,       \* the last of them: in the jar, or the token kept
  usable,     \* the transport takes it for good: authed, or not near its expiry
  lock,       \* who holds the mutex while a login or an exchange is under way
  pc,         \* where each request stands
  token,      \* the credential it carries
  minted,     \* iam: it was issued to this very request
  tries,      \* how often it has been sent
  answer,     \* "none", "ok", "unauthorized" or "failed"
  first,      \* history: what it carried the first time
  asked,      \* history: the logins or exchanges it made
  refusals,   \* history: 401s received
  events

vars == <<kind, live, issued, held, usable, lock, pc, token, minted,
          tries, answer, first, asked, refusals, events>>

Init ==
  /\ kind \in {"session", "iam"}
  /\ live = {} /\ issued = 0 /\ held = 0 /\ usable = FALSE /\ lock = Nobody
  /\ pc = [r \in Requests |-> "idle"]
  /\ token = [r \in Requests |-> 0] /\ minted = [r \in Requests |-> FALSE]
  /\ tries = [r \in Requests |-> 0] /\ answer = [r \in Requests |-> "none"]
  /\ first = [r \in Requests |-> 0]
  /\ asked = [r \in Requests |-> 0] /\ refusals = 0 /\ events = 0

-----------------------------------------------------------------------------
(* The server, and the clock.                                              *)

Revoke ==
  /\ events < MaxEvents /\ events' = events + 1
  /\ \E c \in live : live' = live \ {c}
  /\ UNCHANGED <<kind, issued, held, usable, lock, pc, token, minted, tries,
                 answer, first, asked, refusals>>

(* The token comes within iamRefreshWindow of its expiry. *)
Age ==
  /\ kind = "iam" /\ usable /\ events < MaxEvents
  /\ usable' = FALSE /\ events' = events + 1
  /\ UNCHANGED <<kind, live, issued, held, lock, pc, token, minted, tries,
                 answer, first, asked, refusals>>

-----------------------------------------------------------------------------
(* A request.                                                              *)

Goto(r, where) == pc' = [pc EXCEPT ![r] = where]

(* A session that is taken for good is not asked about again; a token always is. *)
LoggedIn == kind = "session" /\ usable

Begin(r) ==
  /\ pc[r] = "idle"
  /\ kind = "session" => lock = Nobody
  /\ Goto(r, IF LoggedIn THEN "send" ELSE "ask")
  /\ UNCHANGED <<kind, live, issued, held, usable, lock, token, minted, tries,
                 answer, first, asked, refusals, events>>

(* login and bearer, up to the call they may make.  Force: a token the server
   refused is exchanged whatever its expiry says; a session was invalidated. *)
AlwaysNeeded(r) == TRUE                                           \* mutant
Needed(r) == ~usable \/ (kind = "iam" /\ tries[r] > 0)

Locked(r) ==
  /\ pc[r] = "ask" /\ lock = Nobody
  /\ IF Needed(r)
       THEN /\ lock' = r /\ Goto(r, "renewing")
            /\ UNCHANGED token
       ELSE /\ token' = [token EXCEPT ![r] = held] /\ Goto(r, "send")
            /\ UNCHANGED lock
  /\ UNCHANGED <<kind, live, issued, held, usable, minted, tries, answer,
                 first, asked, refusals, events>>

(* POST /_session, or the exchange: the server issues a credential. *)
Renewed(r) ==
  /\ pc[r] = "renewing"
  /\ issued' = issued + 1 /\ live' = live \cup {issued + 1}
  /\ held' = issued + 1 /\ usable' = TRUE
  /\ token' = [token EXCEPT ![r] = issued + 1]
  /\ minted' = [minted EXCEPT ![r] = TRUE]
  /\ asked' = [asked EXCEPT ![r] = @ + 1]
  /\ lock' = Nobody /\ Goto(r, "send")
  /\ UNCHANGED <<kind, tries, answer, first, refusals, events>>

(* It does not, or the call times out. *)
KeptLock == lock                                                  \* mutant
Unlocked == Nobody

RenewFails(r) ==
  /\ pc[r] = "renewing"
  /\ asked' = [asked EXCEPT ![r] = @ + 1]
  /\ answer' = [answer EXCEPT ![r] = "failed"]
  /\ lock' = Unlocked /\ Goto(r, "done")
  /\ UNCHANGED <<kind, live, issued, held, usable, token, minted, tries, first,
                 refusals, events>>

(* The cookie is read from the jar as the request is sent; the token is the one
   bearer returned. *)
CarriedEarly(r) == IF tries[r] = 1 THEN first[r] ELSE held        \* mutant
Carried(r) == IF kind = "session" THEN held ELSE token[r]

Send(r) ==
  /\ pc[r] = "send"
  /\ token' = [token EXCEPT ![r] = Carried(r)]
  /\ first' = IF tries[r] = 0 THEN [first EXCEPT ![r] = Carried(r)] ELSE first
  /\ tries' = [tries EXCEPT ![r] = @ + 1]
  /\ Goto(r, "sent")
  /\ UNCHANGED <<kind, live, issued, held, usable, lock, minted, answer,
                 asked, refusals, events>>

Answered(r, a) ==
  /\ pc[r] = "sent"
  /\ a = "ok" => token[r] \in live
  /\ answer' = [answer EXCEPT ![r] = a]
  /\ Goto(r, "done")
  /\ UNCHANGED <<kind, live, issued, held, usable, lock, token, minted, tries,
                 first, asked, refusals, events>>

(* 401.  It is worth another try once, if the body can be sent again and the
   token was not issued to this request. *)
Worth(r) == tries[r] = 1 /\ r \notin Streamed /\ (kind = "iam" => ~minted[r])

Unauthorized(r) ==
  /\ pc[r] = "sent" /\ token[r] \notin live
  /\ refusals' = refusals + 1
  /\ IF ~Worth(r)
       THEN /\ answer' = [answer EXCEPT ![r] = "unauthorized"] /\ Goto(r, "done")
       ELSE /\ Goto(r, IF kind = "session" THEN "invalidate" ELSE "ask")
            /\ UNCHANGED answer
  /\ UNCHANGED <<kind, live, issued, held, usable, lock, token, minted, tries,
                 first, asked, events>>

(* invalidate, which waits for a login under way; then login. *)
Invalidated == FALSE

Invalidate(r) ==
  /\ pc[r] = "invalidate" /\ lock = Nobody
  /\ usable' = Invalidated
  /\ Goto(r, "ask")
  /\ UNCHANGED <<kind, live, issued, held, lock, token, minted, tries, answer,
                 first, asked, refusals, events>>

Step(r) ==
  \/ Begin(r) \/ Locked(r) \/ Renewed(r) \/ RenewFails(r) \/ Send(r)
  \/ \E a \in {"ok", "failed"} : Answered(r, a)
  \/ Unauthorized(r) \/ Invalidate(r)

Next == Revoke \/ Age \/ \E r \in Requests : Step(r)

Spec == Init /\ [][Next]_vars

(* A request goes on: the server, or the timeout of the call, answers it.  Nobody
   holds the mutex for ever, and each of the others asks for it a few times at
   most, so weak fairness is enough to be served. *)
Fairness == \A r \in Requests : WF_vars(Step(r))

FairSpec == Spec /\ Fairness

-----------------------------------------------------------------------------

(* The second attempt carries a newer credential than the one that was refused,
   whatever the other requests did meanwhile (RoundTrip, "would replay the stale
   cookie that just drew the 401"). *)
FreshReplay ==
  \A r \in Requests : tries[r] = 2 => first[r] < token[r]

(* However many requests meet a cold client, one logs in for them all: a
   credential more takes a 401 or an expiry (login, "every request made on a
   cold client sends its own POST /_session"); and the server is never asked
   twice for a token on behalf of one request (bearer, minted). *)
NoStampede ==
  /\ issued =< 1 + refusals + events
  /\ kind = "iam" => \A r \in Requests : asked[r] =< 1

(* Every request is answered: the mutex is let go on every path. *)
Answers == \A r \in Requests : pc[r] = "ask" ~> pc[r] = "done"
=============================================================================
