-------------------------------- MODULE AuthLane --------------------------------
(***************************************************************************)
(* Accounts, sessions and the requests that use them: the auth routes      *)
(* behind their rate limiter, the auth service and its repository, and the *)
(* shutdown of the process under requests in flight.                       *)
(*                                                                         *)
(* Every await is a step of its own: hashing, each query, and in them the  *)
(* wait for a connection, so that the clock may move between the moment    *)
(* the service reads it and the moment the database uses it.  A query may  *)
(* fail, with or without having taken effect.  A session's token is the    *)
(* number of the request that issued it.  The transaction around account   *)
(* and first session is one step here (DataTransactions has its parts).    *)
(***************************************************************************)
EXTENDS RateLimiter, Sequences

CONSTANTS
  Emails,
  Addresses,     \* request.ip
  Ttl,           \* sessionTtlSeconds
  MaxRequests,   \* bound: requests made
  MaxOpen,       \* bound: requests in flight at once
  MaxClock,      \* bound
  MaxFailures,   \* bound: queries that fail while the pool is open
  None

ASSUME BoundsAssumption == MaxRequests \in Nat /\ Ttl \in Nat

VARIABLES
  clock,
  table,         \* the limiter's state
  forgotten,     \* keys whose counts the limiter dropped for lack of room
  accounts,      \* microjbase.users
  sessions,      \* microjbase.sessions, by token
  requests,      \* all requests, in the order of their arrival
  server         \* the process: up, closing or closed

vars == <<clock, table, forgotten, accounts, sessions, requests, server>>

database == <<accounts, sessions>>

limiter == <<table, forgotten>>

Tokens == 1..MaxRequests

Kinds == {"register", "login", "logout", "data"}

Answers == {"ok", "refused", "limited", "invalid", "conflict", "failed", "poolClosed"}

Session == [user : Emails, expires : Nat, revoked : BOOLEAN]

ASSUME NoneAssumption == None \notin Emails \cup Addresses /\ None \notin Session

Open == {i \in DOMAIN requests : requests[i].phase # "done"}

(* A token its client knows.                                               *)
Issued == {i \in DOMAIN requests :
             requests[i].kind \in {"register", "login"} /\ requests[i].answer = "ok"}

LoggedOut(t) == \E i \in DOMAIN requests :
  requests[i].kind = "logout" /\ requests[i].token = t /\ requests[i].answer = "ok"

-------------------------------------------------------------------------------
Init ==
  /\ clock = 0
  /\ table = <<>> /\ forgotten = {}
  /\ accounts = {} /\ sessions = [t \in Tokens |-> None]
  /\ requests = <<>>
  /\ server = "up"

Tick ==
  /\ clock < MaxClock
  /\ clock' = clock + 1
  /\ UNCHANGED <<limiter, database, requests, server>>

-------------------------------------------------------------------------------
(* Arrival, up to the first await.                                         *)

MayArrive == server = "up" /\ Len(requests) < MaxRequests /\ Cardinality(Open) < MaxOpen

Request(kind, email, ip, token, phase, answer) ==
  [kind |-> kind, email |-> email, ip |-> ip, token |-> token, at |-> clock,
   now |-> IF phase = "lookup" THEN clock ELSE 0,
   phase |-> phase, answer |-> answer, user |-> None, retry |-> 0,
   late |-> token \in Tokens /\ LoggedOut(token)]

(* Answered before the first await, a limited one with the time to wait.   *)
AnsweredAtOnce(r, answer, retry) ==
  [r EXCEPT !.phase = "done", !.answer = answer, !.retry = retry]

Key(r) == <<r.kind, r.ip>>

(* register and login: the limiter, the shape of the body, the service.    *)
ArriveWithPassword ==
  /\ MayArrive
  /\ \E kind \in {"register", "login"}, email \in Emails, ip \in Addresses :
       LET r == Request(kind, email, ip, 0, IF kind = "register" THEN "hash" ELSE "find", "none")
           key == Key(r)
       IN
       /\ table' = Counted(table, key, clock, Len(requests) + 1)
       /\ forgotten' = forgotten \cup Displaced(table, key, clock)
       /\ \/ /\ Refuses(table, key, clock)
             /\ requests' = Append(requests,
                  AnsweredAtOnce(r, "limited", RetryAfter(table[key], clock)))
          \/ /\ ~Refuses(table, key, clock)
             /\ \/ requests' = Append(requests, r)
                \/ requests' = Append(requests, AnsweredAtOnce(r, "invalid", 0))
  /\ UNCHANGED <<clock, database, server>>

(* logout and every data route (me among them, which then only answers):   *)
(* the bearer token, the service, which reads the clock at once.  Token 0  *)
(* stands for none, or for what is no token.                               *)
ArriveWithToken ==
  /\ MayArrive
  /\ \E kind \in {"logout", "data"}, token \in Issued \cup {0} :
       LET r == Request(kind, None, None, token,
                        IF kind = "logout" THEN "revoke" ELSE "lookup", "none") IN
       \/ /\ token # 0
          /\ requests' = Append(requests, r)
       \/ /\ token = 0
          /\ requests' = Append(requests, AnsweredAtOnce(r, "refused", 0))
  /\ UNCHANGED <<clock, limiter, database, server>>

-------------------------------------------------------------------------------
(* The service and the repository.                                         *)

At(i, phase) == i \in Open /\ requests[i].phase = phase

Continue(i, phase, now) == requests' = [requests EXCEPT ![i].phase = phase, ![i].now = now]

Finish(i, answer) ==
  requests' = [requests EXCEPT ![i].phase = "done", ![i].answer = answer, ![i].now = 0]

PoolOpen == server \in {"up", "closing"}

MayFail == Cardinality({i \in DOMAIN requests : requests[i].answer = "failed"}) < MaxFailures

(* A query the closed pool refuses, and one that fails without effect.     *)
Querying == {"insert", "find", "create", "revoke", "lookup", "run"}

QueryFails ==
  /\ \E i \in Open :
       /\ requests[i].phase \in Querying
       /\ PoolOpen => MayFail
       /\ Finish(i, IF PoolOpen THEN "failed" ELSE "poolClosed")
  /\ UNCHANGED <<clock, limiter, database, server>>

(* A query that takes effect is answered, unless its answer is lost.       *)
Took(i, answer) == Finish(i, answer) \/ (MayFail /\ Finish(i, "failed"))

NewSession(i) ==
  sessions' = [sessions EXCEPT ![i] =
    [user |-> requests[i].email, expires |-> requests[i].now + Ttl, revoked |-> FALSE]]

(* hashPassword, then the token and its expiry.                            *)
Hashed ==
  /\ \E i \in Open : At(i, "hash") /\ Continue(i, "insert", clock)
  /\ UNCHANGED <<clock, limiter, database, server>>

CreateUserAndSession ==
  /\ PoolOpen
  /\ \E i \in Open :
       /\ At(i, "insert")
       /\ \/ /\ requests[i].email \in accounts
             /\ Finish(i, "conflict")
             /\ UNCHANGED database
          \/ /\ requests[i].email \notin accounts
             /\ accounts' = accounts \cup {requests[i].email}
             /\ NewSession(i)
             /\ Took(i, "ok")
  /\ UNCHANGED <<clock, limiter, server>>

FindByEmail ==
  /\ PoolOpen
  /\ \E i \in Open :
       /\ At(i, "find")
       /\ Continue(i, IF requests[i].email \in accounts THEN "verify" ELSE "dummy", 0)
  /\ UNCHANGED <<clock, limiter, database, server>>

(* verifyPassword, or verifyDummyPassword; then the token and its expiry.  *)
Verified ==
  /\ \E i \in Open :
       \/ At(i, "dummy") /\ Finish(i, "refused")
       \/ At(i, "verify") /\ (Finish(i, "refused") \/ Continue(i, "create", clock))
  /\ UNCHANGED <<clock, limiter, database, server>>

CreateSession ==
  /\ PoolOpen
  /\ \E i \in Open :
       /\ At(i, "create")
       /\ NewSession(i)
       /\ Took(i, "ok")
  /\ UNCHANGED <<clock, limiter, accounts, server>>

(* A session already revoked is logged out as well.                        *)
RevokeByTokenHash ==
  /\ PoolOpen
  /\ \E i \in Open :
       LET t == requests[i].token IN
       /\ At(i, "revoke")
       /\ Took(i, "ok")
       /\ sessions' = [sessions EXCEPT ![t].revoked = TRUE]
  /\ UNCHANGED <<clock, limiter, accounts, server>>

(* Faulty variant of Active: a session is good until it expires.           *)
ActiveThoughRevoked(s, now) == s.expires > now

Active(s, now) == ~s.revoked /\ s.expires > now

FindActiveUser ==
  /\ PoolOpen
  /\ \E i \in Open :
       LET r == requests[i]
           good == Active(sessions[r.token], r.now)
       IN
       /\ At(i, "lookup")
       /\ \/ /\ good
             /\ requests' = [requests EXCEPT ![i].phase = "run", ![i].now = 0,
                                             ![i].user = sessions[r.token].user]
          \/ /\ ~good
             /\ Finish(i, "refused")
  /\ UNCHANGED <<clock, limiter, database, server>>

(* What the caller asked for, as the user the token stands for.            *)
Run ==
  /\ PoolOpen
  /\ \E i \in Open : At(i, "run") /\ Finish(i, "ok")
  /\ UNCHANGED <<clock, limiter, database, server>>

-------------------------------------------------------------------------------
(* Shutdown (core/lifecycle.ts, main.ts).  Its deadline ends the process   *)
(* as a crash would: nothing happens any more.                             *)

Signal ==
  /\ server = "up"
  /\ server' = "closing"
  /\ UNCHANGED <<clock, limiter, database, requests>>

(* Faulty variant of AppClosed: the pools close together with the app.     *)
AppClosing == server = "closing"

(* app.close() returns once the requests in flight are answered.           *)
AppClosed == server = "closing" /\ Open = {}

ClosePools ==
  /\ AppClosed
  /\ server' = "closed"
  /\ UNCHANGED <<clock, limiter, database, requests>>

Next ==
  \/ Tick \/ ArriveWithPassword \/ ArriveWithToken
  \/ Hashed \/ CreateUserAndSession \/ FindByEmail \/ Verified \/ CreateSession
  \/ RevokeByTokenHash \/ FindActiveUser \/ Run \/ QueryFails
  \/ Signal \/ ClosePools

Spec == Init /\ [][Next]_vars

-------------------------------------------------------------------------------
(* Correctness.                                                            *)

(* Every variable keeps its type, and the limiter's table its bound.       *)
TypeOK ==
  /\ clock \in Nat
  /\ Cardinality(DOMAIN table) <= MaxEntries
  /\ \A key \in DOMAIN table : table[key].attempts \in 1..Attempts /\ table[key].resetAt \in Nat
  /\ accounts \subseteq Emails
  /\ sessions \in [Tokens -> Session \cup {None}]
  /\ \A i \in DOMAIN requests :
       /\ requests[i].kind \in Kinds /\ requests[i].answer \in Answers \cup {"none"}
       /\ requests[i].user \in Emails \cup {None}
  /\ server \in {"up", "closing", "closed"}

(* A request runs as a user only if its token is of a session of that user *)
(* that had not expired when the request arrived and had not been logged   *)
(* out by an answered logout before, however long it then waited for a     *)
(* connection (authenticate, findActiveUserByTokenHash).                   *)
RunsInActiveSession ==
  \A i \in DOMAIN requests :
    LET r == requests[i] IN
    r.user # None =>
      /\ sessions[r.token] # None /\ sessions[r.token].user = r.user
      /\ r.at < sessions[r.token].expires
      /\ ~r.late

(* The attempts of a key that the limiter let pass within a window.        *)
Passed(key, from) ==
  {i \in DOMAIN requests :
     /\ requests[i].kind \in {"register", "login"} /\ Key(requests[i]) = key
     /\ requests[i].answer # "limited"
     /\ requests[i].at \in from..(from + Window - 1)}

(* However attempts are spaced over consecutive windows, fewer than twice  *)
(* the limit pass within the length of one, unless the table was full and  *)
(* the key's count was dropped (InMemoryRateLimiter).                      *)
FewPass ==
  \A i \in DOMAIN requests :
    LET r == requests[i] IN
    r.kind \in {"register", "login"} /\ Key(r) \notin forgotten =>
      Cardinality(Passed(Key(r), r.at)) < 2 * Attempts

(* A caller is told to wait only if the limit was used up within the last  *)
(* window, by attempts of its own key, and by the time it is told to come  *)
(* back the window these opened is over.                                   *)
RefusedOnlyWhenUsedUp ==
  \A i \in DOMAIN requests :
    LET r == requests[i]
        earlier == {j \in 1..(i - 1) :
                      /\ requests[j].kind = r.kind /\ requests[j].ip = r.ip
                      /\ requests[j].answer # "limited" /\ requests[j].at + Window > r.at} IN
    r.answer = "limited" =>
      /\ Cardinality(earlier) >= Attempts
      /\ \E j \in earlier : r.at + r.retry * Second >= requests[j].at + Window

(* A shutdown within its deadline cuts nobody off: the pools close after   *)
(* the last request that was accepted is answered (main.ts closes the app, *)
(* then the pools).                                                        *)
NobodyCutOff == \A i \in DOMAIN requests : requests[i].answer # "poolClosed"
=================================================================================
