----------------------------- MODULE AuthLaneProofs -----------------------------
(***************************************************************************)
(* Proofs about AuthLane for any number of accounts, addresses, requests   *)
(* and failures, any session lifetime and any limit: type correctness, a   *)
(* request runs only in a session that was active when it arrived, a       *)
(* shutdown cuts nobody off, and the limiter lets no more attempts through *)
(* than it may and refuses only those who used theirs up.                  *)
(***************************************************************************)
EXTENDS AuthLane, FiniteSetTheorems, WellFoundedInduction, TLAPS

-------------------------------------------------------------------------------
(* The invariant.                                                          *)

PasswordPhases == {"hash", "insert", "find", "verify", "dummy", "create"}

Phases == PasswordPhases \cup {"revoke", "lookup", "run", "done"}

(* The requests, but for the wait a refused one is told.                   *)
Requests(Retries) ==
  [kind : Kinds, email : Emails \cup {None}, ip : Addresses \cup {None},
   token : Tokens \cup {0}, at : Nat, now : Nat, phase : Phases,
   answer : Answers \cup {"none"}, user : Emails \cup {None}, retry : Retries,
   late : BOOLEAN]

(* What request i relies on where it stands, and what its answer says of   *)
(* the sessions: a session it is to issue does not exist yet; a token it   *)
(* brought is of one that does; a lookup uses the time of arrival; a user  *)
(* that ran or runs had an active session; a logout answered ok revoked.   *)
Stands(i, r, s) ==
  /\ r.answer = "ok" => r.phase = "done"
  /\ r.phase \in PasswordPhases =>
       /\ r.kind \in {"register", "login"} /\ r.email \in Emails
       /\ r.token = 0 /\ s[i] = None
  /\ r.phase = "revoke" => r.kind = "logout"
  /\ r.phase \in {"lookup", "run"} => r.kind = "data"
  /\ r.phase = "lookup" => r.now = r.at
  /\ r.phase \in {"revoke", "lookup", "run"} => r.token \in Tokens /\ s[r.token] # None
  /\ r.late => r.token \in Tokens /\ s[r.token] # None /\ s[r.token].revoked
  /\ r.user # None =>
       /\ r.token \in Tokens /\ s[r.token] # None
       /\ s[r.token].user = r.user /\ r.at < s[r.token].expires /\ ~r.late
  /\ r.answer = "ok" /\ r.kind \in {"register", "login"} => s[i] # None
  /\ r.answer = "ok" /\ r.kind = "logout" =>
       r.token \in Tokens /\ s[r.token] # None /\ s[r.token].revoked

SessionsInv ==
  /\ sessions \in [Tokens -> Session \cup {None}]
  /\ \A t \in Tokens : t > Len(requests) => sessions[t] = None

RequestsInv ==
  /\ clock \in Nat
  /\ Len(requests) <= MaxRequests
  /\ \E Retries : requests \in Seq(Requests(Retries))
  /\ \A i \in DOMAIN requests : Stands(i, requests[i], sessions)

ServerInv ==
  /\ server \in {"up", "closing", "closed"}
  /\ server = "closed" => Open = {}
  /\ NobodyCutOff

AuthInv == SessionsInv /\ RequestsInv /\ ServerInv

(* Sessions are only added, that of request i at most, and revoked.        *)
Grown(i, s, z) ==
  /\ \A t \in Tokens \ {i} : s[t] = None => z[t] = None
  /\ \A t \in Tokens : s[t] # None =>
       /\ z[t] # None
       /\ z[t].user = s[t].user /\ z[t].expires = s[t].expires
       /\ s[t].revoked => z[t].revoked

-------------------------------------------------------------------------------
(* What every step comes down to.                                          *)

(* A request keeps its stand while the sessions of others grow.            *)
LEMMA OthersStand ==
  ASSUME NEW i, NEW j \in Tokens, j # i, NEW s, NEW z, Grown(i, s, z),
         NEW r, Stands(j, r, s)
  PROVE  Stands(j, r, z)
BY DEF Stands, Grown

LEMMA SeqWidens ==
  ASSUME NEW A, NEW B, A \subseteq B, NEW s \in Seq(A)
  PROVE  s \in Seq(B)
<1>1. \A i \in 1..Len(s) : s[i] \in B
  OBVIOUS
<1> QED BY <1>1

(* One request moves on.                                                   *)
LEMMA OneMoves ==
  ASSUME SessionsInv, RequestsInv, NEW i \in DOMAIN requests, NEW q,
         \A Retries : requests[i] \in Requests(Retries) => q \in Requests(Retries),
         requests' = [requests EXCEPT ![i] = q],
         sessions' \in [Tokens -> Session \cup {None}],
         Grown(i, sessions, sessions'),
         Stands(i, q, sessions'),
         clock' = clock
  PROVE  SessionsInv' /\ RequestsInv'
<1>1. PICK Retries : requests \in Seq(Requests(Retries))
  BY DEF RequestsInv
<1>2. requests[i] \in Requests(Retries)
  BY <1>1
<1>3. q \in Requests(Retries)
  BY <1>2
<1>4. requests' \in Seq(Requests(Retries)) /\ Len(requests') = Len(requests)
      /\ DOMAIN requests' = DOMAIN requests /\ DOMAIN requests = 1..Len(requests)
  BY <1>1, <1>3
<1>5. \A j \in DOMAIN requests : requests'[j] = IF j = i THEN q ELSE requests[j]
  BY <1>1
<1>6. ASSUME NEW j \in DOMAIN requests' PROVE Stands(j, requests'[j], sessions')
  <2>1. j \in Tokens
    BY <1>4, BoundsAssumption DEF Tokens, RequestsInv
  <2>2. CASE j = i
    BY <2>2, <1>4, <1>5
  <2>3. CASE j # i
    BY <2>1, <2>3, <1>4, <1>5, OthersStand DEF RequestsInv
  <2> QED BY <2>2, <2>3
<1>7. SessionsInv'
  BY <1>4 DEF SessionsInv, Grown, Tokens
<1> QED BY <1>4, <1>6, <1>7 DEF RequestsInv

(* A request arrives.                                                      *)
LEMMA OneArrives ==
  ASSUME AuthInv, MayArrive, NEW q, NEW Retries0, q \in Requests(Retries0),
         requests' = Append(requests, q),
         Stands(Len(requests) + 1, q, sessions),
         q.answer # "poolClosed",
         UNCHANGED <<clock, database, server>>
  PROVE  AuthInv'
<1> DEFINE n == Len(requests)
<1>1. PICK Retries : requests \in Seq(Requests(Retries))
  BY DEF AuthInv, RequestsInv
<1>2. requests \in Seq(Requests(Retries \cup Retries0)) /\ q \in Requests(Retries \cup Retries0)
  <2>1. Requests(Retries) \subseteq Requests(Retries \cup Retries0)
        /\ Requests(Retries0) \subseteq Requests(Retries \cup Retries0)
    BY DEF Requests
  <2> QED BY <1>1, <2>1, SeqWidens
<1>3. requests' \in Seq(Requests(Retries \cup Retries0)) /\ Len(requests') = n + 1
      /\ DOMAIN requests' = 1..(n + 1) /\ DOMAIN requests = 1..n /\ n \in Nat
  BY <1>2
<1>4. requests'[n + 1] = q /\ \A j \in 1..n : requests'[j] = requests[j]
  BY <1>2
<1>5. n + 1 <= MaxRequests /\ server = "up"
  BY <1>3, BoundsAssumption DEF MayArrive
<1>6. ASSUME NEW j \in 1..(n + 1) PROVE Stands(j, requests'[j], sessions')
  <2>1. sessions' = sessions
    BY DEF database
  <2>2. CASE j = n + 1
    BY <2>1, <2>2, <1>4
  <2>3. CASE j # n + 1
    <3>1. j \in 1..n
      BY <2>3, <1>3
    <3> QED BY <3>1, <2>1, <1>3, <1>4 DEF AuthInv, RequestsInv
  <2> QED BY <2>2, <2>3
<1>7. RequestsInv'
  BY <1>3, <1>5, <1>6 DEF AuthInv, RequestsInv
<1>8. SessionsInv'
  BY <1>3 DEF AuthInv, SessionsInv, database, Tokens
<1>9. ServerInv'
  <2>1. server' = "up"
    BY <1>5
  <2>2. NobodyCutOff'
    <3> SUFFICES ASSUME NEW j \in 1..(n + 1) PROVE requests'[j].answer # "poolClosed"
      BY <1>3 DEF NobodyCutOff
    <3>1. CASE j = n + 1
      BY <3>1, <1>4
    <3>2. CASE j # n + 1
      <4>1. j \in 1..n
        BY <3>2, <1>3
      <4> QED BY <4>1, <1>3, <1>4 DEF AuthInv, ServerInv, NobodyCutOff
    <3> QED BY <3>1, <3>2
  <2> QED BY <2>1, <2>2 DEF ServerInv
<1> QED BY <1>7, <1>8, <1>9 DEF AuthInv

(* A request moves on without being cut off, the process up or closing.    *)
LEMMA OneOpenMoves ==
  ASSUME AuthInv, NEW i \in Open, NEW q,
         \A Retries : requests[i] \in Requests(Retries) => q \in Requests(Retries),
         requests' = [requests EXCEPT ![i] = q],
         q.answer # "poolClosed",
         sessions' \in [Tokens -> Session \cup {None}],
         Grown(i, sessions, sessions'),
         Stands(i, q, sessions'),
         UNCHANGED <<clock, server>>
  PROVE  AuthInv'
<1>1. i \in DOMAIN requests /\ server # "closed"
  BY DEF AuthInv, ServerInv, Open
<1>2. SessionsInv' /\ RequestsInv'
  BY <1>1, OneMoves DEF AuthInv
<1>3. PICK Retries : requests \in Seq(Requests(Retries))
  BY DEF AuthInv, RequestsInv
<1>4. requests[i] \in Requests(Retries)
  BY <1>1, <1>3
<1>5. DOMAIN requests' = DOMAIN requests
      /\ \A j \in DOMAIN requests : requests'[j] = IF j = i THEN q ELSE requests[j]
  BY <1>3
<1>6. ServerInv'
  BY <1>1, <1>5 DEF AuthInv, ServerInv, NobodyCutOff
<1> QED BY <1>2, <1>6 DEF AuthInv

(* Continue and Finish replace the request by one of its type.             *)
LEMMA Moved ==
  ASSUME AuthInv, NEW i \in Open
  PROVE  /\ i \in Tokens /\ i \in DOMAIN requests
         /\ requests[i].phase # "done"
         /\ Stands(i, requests[i], sessions)
         /\ \E Retries : requests[i] \in Requests(Retries)
<1>1. PICK Retries : requests \in Seq(Requests(Retries))
  BY DEF AuthInv, RequestsInv
<1>2. i \in DOMAIN requests /\ DOMAIN requests = 1..Len(requests) /\ Len(requests) \in Nat
  BY <1>1 DEF Open
<1>3. i \in Tokens
  BY <1>2, BoundsAssumption DEF AuthInv, RequestsInv, Tokens
<1>4. requests[i] \in Requests(Retries)
  BY <1>1, <1>2
<1> QED BY <1>2, <1>3, <1>4 DEF AuthInv, RequestsInv, Open

ContinuedAs(r, phase, now) == [r EXCEPT !.phase = phase, !.now = now]

FinishedAs(r, answer) == [r EXCEPT !.phase = "done", !.answer = answer, !.now = 0]

LEMMA Continues ==
  ASSUME AuthInv, NEW i \in Open, NEW phase \in Phases, NEW now \in Nat,
         Continue(i, phase, now)
  PROVE  LET q == ContinuedAs(requests[i], phase, now) IN
         /\ requests' = [requests EXCEPT ![i] = q]
         /\ \A Retries : requests[i] \in Requests(Retries) => q \in Requests(Retries)
         /\ q.phase = phase /\ q.now = now
         /\ q.kind = requests[i].kind /\ q.email = requests[i].email
         /\ q.token = requests[i].token /\ q.at = requests[i].at
         /\ q.answer = requests[i].answer /\ q.user = requests[i].user
         /\ q.late = requests[i].late
<1>1. PICK Retries : requests \in Seq(Requests(Retries))
  BY DEF AuthInv, RequestsInv
<1>2. i \in DOMAIN requests /\ requests[i] \in Requests(Retries)
  BY <1>1 DEF Open
<1> DEFINE q == ContinuedAs(requests[i], phase, now)
<1>3. requests' = [requests EXCEPT ![i] = q]
  BY <1>1, <1>2 DEF Continue, ContinuedAs
<1>4. \A R : requests[i] \in Requests(R) => q \in Requests(R)
  BY DEF Requests, ContinuedAs
<1> QED BY <1>2, <1>3, <1>4 DEF Requests, ContinuedAs

LEMMA Finishes ==
  ASSUME AuthInv, NEW i \in Open, NEW answer \in Answers, Finish(i, answer)
  PROVE  LET q == FinishedAs(requests[i], answer) IN
         /\ requests' = [requests EXCEPT ![i] = q]
         /\ \A Retries : requests[i] \in Requests(Retries) => q \in Requests(Retries)
         /\ q.phase = "done" /\ q.answer = answer
         /\ q.kind = requests[i].kind /\ q.email = requests[i].email
         /\ q.token = requests[i].token /\ q.at = requests[i].at
         /\ q.user = requests[i].user /\ q.late = requests[i].late
<1>1. PICK Retries : requests \in Seq(Requests(Retries))
  BY DEF AuthInv, RequestsInv
<1>2. i \in DOMAIN requests /\ requests[i] \in Requests(Retries)
  BY <1>1 DEF Open
<1> DEFINE q == FinishedAs(requests[i], answer)
<1>3. requests' = [requests EXCEPT ![i] = q]
  BY <1>1, <1>2 DEF Finish, FinishedAs
<1>4. \A R : requests[i] \in Requests(R) => q \in Requests(R)
  BY DEF Requests, Phases, FinishedAs
<1> QED BY <1>2, <1>3, <1>4 DEF Requests, FinishedAs

-------------------------------------------------------------------------------
(* The steps.                                                              *)

(* A request that only answers, and not with ok, or goes on to a phase     *)
(* where it may stand, leaves the sessions alone.                          *)
LEMMA FinishKeeps ==
  ASSUME AuthInv, NEW i \in Open, NEW answer \in Answers, Finish(i, answer),
         answer # "poolClosed",
         sessions' \in [Tokens -> Session \cup {None}], Grown(i, sessions, sessions'),
         answer = "ok" =>
           /\ requests[i].kind \in {"register", "login"} => sessions'[i] # None
           /\ requests[i].kind = "logout" =>
                /\ requests[i].token \in Tokens
                /\ sessions'[requests[i].token] # None
                /\ sessions'[requests[i].token].revoked,
         UNCHANGED <<clock, server>>
  PROVE  AuthInv'
<1> DEFINE q == FinishedAs(requests[i], answer)
<1>1. /\ requests' = [requests EXCEPT ![i] = q]
      /\ \A Retries : requests[i] \in Requests(Retries) => q \in Requests(Retries)
      /\ q.phase = "done" /\ q.answer = answer
      /\ q.kind = requests[i].kind /\ q.email = requests[i].email
      /\ q.token = requests[i].token /\ q.at = requests[i].at
      /\ q.user = requests[i].user /\ q.late = requests[i].late
  BY Finishes
<1>2. Stands(i, requests[i], sessions)
  BY Moved
<1>3. Stands(i, q, sessions')
  <2> HIDE DEF q
  <2> QED BY <1>1, <1>2 DEF Stands, Grown, PasswordPhases
<1> HIDE DEF q
<1> QED BY <1>1, <1>3, OneOpenMoves

(* Sessions that stay are typed and have not shrunk.                       *)
LEMMA SessionsStay ==
  ASSUME AuthInv, sessions' = sessions
  PROVE  /\ sessions' \in [Tokens -> Session \cup {None}]
         /\ \A i : Grown(i, sessions, sessions')
BY DEF AuthInv, SessionsInv, Grown

LEMMA ContinueKeeps ==
  ASSUME AuthInv, NEW i \in Open, NEW phase \in Phases, NEW now \in Nat,
         phase \in PasswordPhases, requests[i].phase \in PasswordPhases, Continue(i, phase, now),
         UNCHANGED <<clock, sessions, server>>
  PROVE  AuthInv'
<1> DEFINE q == ContinuedAs(requests[i], phase, now)
<1>1. /\ requests' = [requests EXCEPT ![i] = q]
      /\ \A Retries : requests[i] \in Requests(Retries) => q \in Requests(Retries)
      /\ q.phase = phase /\ q.now = now
      /\ q.kind = requests[i].kind /\ q.email = requests[i].email
      /\ q.token = requests[i].token /\ q.at = requests[i].at
      /\ q.answer = requests[i].answer /\ q.user = requests[i].user
      /\ q.late = requests[i].late
  BY Continues
<1>2. Stands(i, requests[i], sessions)
  BY Moved
<1>3. Stands(i, q, sessions') /\ q.answer # "poolClosed"
  <2> HIDE DEF q
  <2>1. requests[i].answer # "poolClosed"
    BY DEF AuthInv, ServerInv, NobodyCutOff, Open
  <2> QED BY <1>1, <1>2, <2>1 DEF Stands, PasswordPhases
<1>4. sessions' \in [Tokens -> Session \cup {None}] /\ Grown(i, sessions, sessions')
  BY DEF AuthInv, SessionsInv, Grown
<1> HIDE DEF q
<1> QED BY <1>1, <1>3, <1>4, OneOpenMoves

(* The session of the request that arrives next does not exist yet.        *)
LEMMA Fresh ==
  ASSUME AuthInv, MayArrive
  PROVE  Len(requests) + 1 \in Tokens /\ sessions[Len(requests) + 1] = None
<1>1. PICK Retries : requests \in Seq(Requests(Retries))
  BY DEF AuthInv, RequestsInv
<1>2. Len(requests) \in Nat /\ Len(requests) + 1 \in Tokens
  BY <1>1, BoundsAssumption DEF MayArrive, Tokens
<1> QED BY <1>2 DEF AuthInv, SessionsInv

LEMMA RequestsKeep ==
  ASSUME AuthInv, UNCHANGED <<sessions, requests>>, clock' \in Nat,
         server' \in {"up", "closing", "closed"}, server' = "closed" => Open = {}
  PROVE  AuthInv'
<1>1. Open' = Open
  BY DEF Open
<1> QED BY <1>1 DEF AuthInv, SessionsInv, RequestsInv, ServerInv, NobodyCutOff

LEMMA TickKeeps ==
  ASSUME AuthInv, Tick
  PROVE  AuthInv'
<1>1. clock' \in Nat /\ UNCHANGED <<sessions, requests, server>>
  BY DEF AuthInv, RequestsInv, Tick, database
<1> QED BY <1>1, RequestsKeep DEF AuthInv, ServerInv

LEMMA ShutdownKeeps ==
  ASSUME AuthInv, Signal \/ ClosePools
  PROVE  AuthInv'
<1>1. UNCHANGED <<clock, sessions, requests>>
  BY DEF Signal, ClosePools, database
<1>2. server' \in {"up", "closing", "closed"} /\ (server' = "closed" => Open = {})
  BY DEF Signal, ClosePools, AppClosed
<1> QED BY <1>1, <1>2, RequestsKeep DEF AuthInv, RequestsInv

(* A request that is answered at once, and not with ok.                    *)
LEMMA AtOnce ==
  ASSUME AuthInv, MayArrive, UNCHANGED <<clock, database, server>>,
         NEW r \in Requests({0}), NEW a \in {"limited", "invalid", "refused"}, NEW w,
         r.user = None,
         r.late => r.token \in Tokens /\ sessions[r.token] # None /\ sessions[r.token].revoked,
         requests' = Append(requests, AnsweredAtOnce(r, a, w))
  PROVE  AuthInv'
<1> DEFINE q == AnsweredAtOnce(r, a, w)
<1>1. q \in Requests({w})
  BY DEF AnsweredAtOnce, Requests, Phases, Answers
<1>2. q.phase = "done" /\ q.answer = a /\ q.user = None /\ q.late = r.late /\ q.token = r.token
  BY DEF AnsweredAtOnce, Requests
<1> HIDE DEF q
<1>3. Stands(Len(requests) + 1, q, sessions) /\ q.answer # "poolClosed"
  BY <1>2 DEF Stands, PasswordPhases
<1> QED BY <1>1, <1>3, OneArrives DEF q

(* What a request is when it arrives.                                      *)
LEMMA Arrival ==
  ASSUME AuthInv, NEW kind \in Kinds, NEW email \in Emails \cup {None},
         NEW ip \in Addresses \cup {None}, NEW token \in Tokens \cup {0}, NEW phase \in Phases
  PROVE  LET r == Request(kind, email, ip, token, phase, "none") IN
         /\ r \in Requests({0})
         /\ r.kind = kind /\ r.email = email /\ r.token = token /\ r.phase = phase
         /\ r.answer = "none" /\ r.user = None
         /\ r.late <=> token \in Tokens /\ LoggedOut(token)
         /\ phase = "lookup" => r.now = r.at
<1>1. clock \in Nat
  BY DEF AuthInv, RequestsInv
<1>2. (IF phase = "lookup" THEN clock ELSE 0) \in Nat
  BY <1>1
<1>3. (token \in Tokens /\ LoggedOut(token)) \in BOOLEAN
  OBVIOUS
<1> QED BY <1>1, <1>2, <1>3 DEF Request, Requests

LEMMA ArriveWithPasswordKeeps ==
  ASSUME AuthInv, ArriveWithPassword
  PROVE  AuthInv'
<1> DEFINE R(kind, email, ip) ==
             Request(kind, email, ip, 0, IF kind = "register" THEN "hash" ELSE "find", "none")
<1> HIDE DEF R
<1>1. PICK kind \in {"register", "login"}, email \in Emails, ip \in Addresses :
        \/ requests' = Append(requests, R(kind, email, ip))
        \/ \E a \in {"limited", "invalid"} : \E w :
             requests' = Append(requests, AnsweredAtOnce(R(kind, email, ip), a, w))
  BY DEF ArriveWithPassword, R
<1>2. MayArrive /\ UNCHANGED <<clock, database, server>>
  BY DEF ArriveWithPassword
<1> DEFINE r == R(kind, email, ip)
           phase0 == IF kind = "register" THEN "hash" ELSE "find"
<1>3. 0 \notin Tokens /\ kind \in Kinds /\ phase0 \in Phases /\ phase0 \in PasswordPhases
  BY DEF Tokens, Kinds, Phases, PasswordPhases
<1> HIDE DEF phase0
<1>4. /\ r \in Requests({0})
      /\ r.kind = kind /\ r.email = email /\ r.token = 0 /\ r.phase = phase0
      /\ r.answer = "none" /\ r.user = None /\ ~r.late
  <2>1. email \in Emails \cup {None} /\ ip \in Addresses \cup {None} /\ 0 \in Tokens \cup {0}
    OBVIOUS
  <2>2. r = Request(kind, email, ip, 0, phase0, "none")
    BY DEF R, phase0
  <2> HIDE DEF r
  <2> QED BY <1>3, <2>1, <2>2, Arrival
<1> HIDE DEF r
<1>5. CASE requests' = Append(requests, r)
  <2>1. sessions[Len(requests) + 1] = None
    BY <1>2, Fresh
  <2>2. Stands(Len(requests) + 1, r, sessions) /\ r.answer # "poolClosed"
    BY <1>3, <1>4, <2>1 DEF Stands, PasswordPhases
  <2> QED BY <1>2, <1>4, <1>5, <2>2, OneArrives
<1>6. ASSUME NEW a \in {"limited", "invalid"}, NEW w,
             requests' = Append(requests, AnsweredAtOnce(r, a, w))
      PROVE  AuthInv'
  BY <1>2, <1>4, <1>6, AtOnce
<1> QED BY <1>1, <1>5, <1>6 DEF r

LEMMA ArriveWithTokenKeeps ==
  ASSUME AuthInv, ArriveWithToken
  PROVE  AuthInv'
<1> DEFINE P(kind) == IF kind = "logout" THEN "revoke" ELSE "lookup"
           R(kind, token) == Request(kind, None, None, token, P(kind), "none")
<1>1. PICK kind \in {"logout", "data"}, token \in Issued \cup {0} :
        \/ token # 0 /\ requests' = Append(requests, R(kind, token))
        \/ token = 0 /\ requests' = Append(requests, AnsweredAtOnce(R(kind, token), "refused", 0))
  BY DEF ArriveWithToken
<1>2. MayArrive /\ UNCHANGED <<clock, database, server>>
  BY DEF ArriveWithToken
<1>3. token # 0 => token \in Tokens /\ sessions[token] # None
  <2> SUFFICES ASSUME token # 0 PROVE token \in Tokens /\ sessions[token] # None
    OBVIOUS
  <2>1. PICK Retries : requests \in Seq(Requests(Retries))
    BY DEF AuthInv, RequestsInv
  <2>2. token \in DOMAIN requests /\ requests[token].kind \in {"register", "login"}
        /\ requests[token].answer = "ok"
    BY <1>1 DEF Issued
  <2>3. token \in Tokens
    BY <2>1, <2>2, BoundsAssumption DEF AuthInv, RequestsInv, Tokens
  <2> QED BY <2>2, <2>3 DEF AuthInv, RequestsInv, Stands
<1>4. LoggedOut(token) => token \in Tokens /\ sessions[token] # None /\ sessions[token].revoked
  BY DEF LoggedOut, AuthInv, RequestsInv, Stands
<1> DEFINE r == R(kind, token)
<1>5. kind \in Kinds /\ P(kind) \in Phases /\ P(kind) \in {"revoke", "lookup"}
      /\ (P(kind) = "revoke" <=> kind = "logout")
  BY DEF Kinds, Phases
<1> HIDE DEF P
<1>6. /\ r \in Requests({0})
      /\ r.kind = kind /\ r.token = token /\ r.phase = P(kind)
      /\ r.answer = "none" /\ r.user = None
      /\ r.late => token \in Tokens /\ sessions[token] # None /\ sessions[token].revoked
      /\ P(kind) = "lookup" => r.now = r.at
  <2>1. None \in Emails \cup {None} /\ None \in Addresses \cup {None} /\ token \in Tokens \cup {0}
    BY <1>3
  <2>2. r = Request(kind, None, None, token, P(kind), "none")
    OBVIOUS
  <2> HIDE DEF r
  <2> QED BY <1>4, <1>5, <2>1, <2>2, Arrival
<1> HIDE DEF r
<1>7. CASE token # 0 /\ requests' = Append(requests, r)
  <2>1. Stands(Len(requests) + 1, r, sessions) /\ r.answer # "poolClosed"
    BY <1>3, <1>5, <1>6, <1>7 DEF Stands, PasswordPhases
  <2> QED BY <1>2, <1>6, <1>7, <2>1, OneArrives
<1>8. CASE requests' = Append(requests, AnsweredAtOnce(r, "refused", 0))
  BY <1>2, <1>6, <1>8, AtOnce
<1> QED BY <1>1, <1>7, <1>8 DEF r

LEMMA QueryFailsKeeps ==
  ASSUME AuthInv, QueryFails
  PROVE  AuthInv'
<1>1. PICK i \in Open : Finish(i, IF PoolOpen THEN "failed" ELSE "poolClosed")
  BY DEF QueryFails
<1>2. PoolOpen /\ Finish(i, "failed") /\ "failed" \in Answers
  BY <1>1 DEF AuthInv, ServerInv, PoolOpen, Answers
<1>3. UNCHANGED <<clock, sessions, server>>
  BY DEF QueryFails, database
<1> QED BY <1>2, <1>3, SessionsStay, FinishKeeps

LEMMA HashedKeeps ==
  ASSUME AuthInv, Hashed
  PROVE  AuthInv'
<1>1. PICK i \in Open : requests[i].phase = "hash" /\ Continue(i, "insert", clock)
  BY DEF Hashed, At
<1>2. UNCHANGED <<clock, sessions, server>> /\ clock \in Nat
  BY DEF Hashed, database, AuthInv, RequestsInv
<1>3. "insert" \in Phases /\ "insert" \in PasswordPhases /\ "hash" \in PasswordPhases
  BY DEF Phases, PasswordPhases
<1> QED BY <1>1, <1>2, <1>3, ContinueKeeps

LEMMA FindByEmailKeeps ==
  ASSUME AuthInv, FindByEmail
  PROVE  AuthInv'
<1>1. PICK i \in Open : requests[i].phase = "find"
        /\ \E p \in {"verify", "dummy"} : Continue(i, p, 0)
  BY DEF FindByEmail, At
<1>2. UNCHANGED <<clock, sessions, server>>
  BY DEF FindByEmail, database
<1>3. {"find", "verify", "dummy"} \subseteq PasswordPhases /\ PasswordPhases \subseteq Phases
  BY DEF Phases, PasswordPhases
<1> QED BY <1>1, <1>2, <1>3, ContinueKeeps

LEMMA VerifiedKeeps ==
  ASSUME AuthInv, Verified
  PROVE  AuthInv'
<1>1. PICK i \in Open :
        \/ Finish(i, "refused")
        \/ requests[i].phase = "verify" /\ Continue(i, "create", clock)
  BY DEF Verified, At
<1>2. UNCHANGED <<clock, sessions, server>> /\ clock \in Nat /\ "refused" \in Answers
  BY DEF Verified, database, AuthInv, RequestsInv, Answers
<1>3. {"verify", "create"} \subseteq PasswordPhases /\ PasswordPhases \subseteq Phases
  BY DEF Phases, PasswordPhases
<1>4. CASE Finish(i, "refused")
  BY <1>2, <1>4, SessionsStay, FinishKeeps
<1> QED BY <1>1, <1>2, <1>3, <1>4, ContinueKeeps

LEMMA RunKeeps ==
  ASSUME AuthInv, Run
  PROVE  AuthInv'
<1>1. PICK i \in Open : requests[i].phase = "run" /\ Finish(i, "ok")
  BY DEF Run, At
<1>2. UNCHANGED <<clock, sessions, server>> /\ "ok" \in Answers
  BY DEF Run, database, Answers
<1>3. requests[i].kind = "data"
  BY <1>1, Moved DEF Stands
<1> QED BY <1>1, <1>2, <1>3, SessionsStay, FinishKeeps

(* A session issued to request i.                                          *)
LEMMA Issues ==
  ASSUME AuthInv, NEW i \in Open, requests[i].phase \in {"insert", "create"},
         NewSession(i), Took(i, "ok"), UNCHANGED <<clock, server>>
  PROVE  AuthInv'
<1> DEFINE s == [user |-> requests[i].email, expires |-> requests[i].now + Ttl, revoked |-> FALSE]
<1>1. PICK Retries : requests[i] \in Requests(Retries)
  BY Moved
<1>2. requests[i].email \in Emails /\ requests[i].now \in Nat /\ i \in Tokens
      /\ sessions[i] = None
  BY <1>1, Moved DEF Requests, Stands, PasswordPhases
<1>3. s \in Session /\ s # None
  <2>1. requests[i].now + Ttl \in Nat
    BY <1>2, BoundsAssumption
  <2>2. s \in Session
    BY <1>2, <2>1 DEF Session
  <2> QED BY <2>2, NoneAssumption
<1>4. sessions' = [sessions EXCEPT ![i] = s]
  BY DEF NewSession
<1> HIDE DEF s
<1>5. sessions' \in [Tokens -> Session \cup {None}] /\ sessions'[i] # None
      /\ Grown(i, sessions, sessions')
  BY <1>2, <1>3, <1>4 DEF AuthInv, SessionsInv, Grown
<1>6. requests[i].kind # "logout"
  BY Moved DEF Stands, PasswordPhases
<1>7. (Finish(i, "ok") \/ Finish(i, "failed")) /\ {"ok", "failed"} \subseteq Answers
  BY DEF Took, Answers
<1> QED BY <1>5, <1>6, <1>7, FinishKeeps

LEMMA CreateUserAndSessionKeeps ==
  ASSUME AuthInv, CreateUserAndSession
  PROVE  AuthInv'
<1>1. PICK i \in Open :
        /\ requests[i].phase = "insert"
        /\ \/ Finish(i, "conflict") /\ UNCHANGED database
           \/ NewSession(i) /\ Took(i, "ok")
  BY DEF CreateUserAndSession, At
<1>2. UNCHANGED <<clock, server>> /\ "conflict" \in Answers
  BY DEF CreateUserAndSession, Answers
<1>3. CASE Finish(i, "conflict") /\ UNCHANGED database
  <2>1. sessions' = sessions
    BY <1>3 DEF database
  <2> QED BY <1>2, <1>3, <2>1, SessionsStay, FinishKeeps
<1> QED BY <1>1, <1>2, <1>3, Issues

LEMMA CreateSessionKeeps ==
  ASSUME AuthInv, CreateSession
  PROVE  AuthInv'
BY Issues DEF CreateSession, At

LEMMA RevokeByTokenHashKeeps ==
  ASSUME AuthInv, RevokeByTokenHash
  PROVE  AuthInv'
<1>1. PICK i \in Open :
        /\ requests[i].phase = "revoke" /\ Took(i, "ok")
        /\ sessions' = [sessions EXCEPT ![requests[i].token].revoked = TRUE]
  BY DEF RevokeByTokenHash, At
<1> DEFINE t == requests[i].token
<1>2. UNCHANGED <<clock, server>>
  BY DEF RevokeByTokenHash
<1>3. t \in Tokens /\ sessions[t] # None /\ requests[i].kind = "logout"
  BY <1>1, Moved DEF Stands
<1>4. sessions[t] \in Session
  BY <1>3 DEF AuthInv, SessionsInv
<1> DEFINE s == [sessions[t] EXCEPT !.revoked = TRUE]
<1>5. s \in Session /\ s.revoked /\ s.user = sessions[t].user
      /\ s.expires = sessions[t].expires
  BY <1>4 DEF Session
<1>6. s # None
  BY <1>5, NoneAssumption
<1>7. sessions' = [sessions EXCEPT ![t] = s]
  BY <1>1
<1> HIDE DEF s
<1>8. sessions' \in [Tokens -> Session \cup {None}]
  BY <1>3, <1>5, <1>7 DEF AuthInv, SessionsInv
<1>9. Grown(i, sessions, sessions') /\ sessions'[t] # None /\ sessions'[t].revoked
  BY <1>3, <1>5, <1>6, <1>7 DEF AuthInv, SessionsInv, Grown
<1>10. (Finish(i, "ok") \/ Finish(i, "failed")) /\ {"ok", "failed"} \subseteq Answers
  BY <1>1 DEF Took, Answers
<1> QED BY <1>2, <1>3, <1>8, <1>9, <1>10, FinishKeeps

LEMMA FindActiveUserKeeps ==
  ASSUME AuthInv, FindActiveUser
  PROVE  AuthInv'
<1>1. PICK i \in Open :
        /\ requests[i].phase = "lookup"
        /\ \/ /\ Active(sessions[requests[i].token], requests[i].now)
              /\ requests' = [requests EXCEPT ![i].phase = "run", ![i].now = 0,
                                              ![i].user = sessions[requests[i].token].user]
           \/ Finish(i, "refused")
  BY DEF FindActiveUser, At
<1> DEFINE t == requests[i].token
           s == sessions[t]
           q == [requests[i] EXCEPT !.phase = "run", !.now = 0, !.user = s.user]
<1>2. UNCHANGED <<clock, sessions, server>> /\ "refused" \in Answers
  BY DEF FindActiveUser, database, Answers
<1>3. CASE Finish(i, "refused")
  BY <1>2, <1>3, SessionsStay, FinishKeeps
<1>4. CASE /\ Active(s, requests[i].now)
           /\ requests' = [requests EXCEPT ![i].phase = "run", ![i].now = 0, ![i].user = s.user]
  <2>1. i \in DOMAIN requests /\ Stands(i, requests[i], sessions)
    BY Moved
  <2>2. t \in Tokens /\ s # None /\ requests[i].kind = "data" /\ requests[i].now = requests[i].at
    BY <1>1, <2>1 DEF Stands
  <2>3. s \in Session
    BY <2>2 DEF AuthInv, SessionsInv
  <2>4. ~s.revoked /\ requests[i].at < s.expires /\ s.user \in Emails
    BY <1>4, <2>2, <2>3 DEF Active, Session
  <2>5. PICK Retries : requests \in Seq(Requests(Retries)) /\ requests[i] \in Requests(Retries)
    BY <2>1 DEF AuthInv, RequestsInv
  <2>6. requests' = [requests EXCEPT ![i] = q]
    BY <1>4, <2>1, <2>5
  <2>7. \A R : requests[i] \in Requests(R) => q \in Requests(R)
    BY <2>4 DEF Requests, Phases
  <2>8. /\ q.phase = "run" /\ q.user = s.user
        /\ q.kind = requests[i].kind /\ q.token = t /\ q.at = requests[i].at
        /\ q.answer = requests[i].answer /\ q.late = requests[i].late
    BY <2>5 DEF Requests
  <2> HIDE DEF q
  <2>9. q.answer # "poolClosed" /\ q.answer # "ok" /\ ~q.late
    BY <1>1, <2>1, <2>4, <2>8 DEF Stands, AuthInv, ServerInv, NobodyCutOff
  <2>10. Stands(i, q, sessions')
    BY <1>2, <2>2, <2>4, <2>8, <2>9 DEF Stands, PasswordPhases
  <2> QED BY <1>2, <2>6, <2>7, <2>9, <2>10, SessionsStay, OneOpenMoves
<1> QED BY <1>1, <1>3, <1>4

-------------------------------------------------------------------------------
(* The theorems.                                                           *)

LEMMA AuthInvHolds == Spec => []AuthInv
<1>1. Init => AuthInv
  <2> SUFFICES ASSUME Init PROVE AuthInv
    OBVIOUS
  <2>1. requests \in Seq(Requests({0})) /\ Len(requests) = 0 /\ DOMAIN requests = {}
    BY DEF Init
  <2>2. SessionsInv
    BY DEF Init, SessionsInv
  <2>3. RequestsInv
    BY <2>1, BoundsAssumption DEF Init, RequestsInv
  <2>4. ServerInv
    BY <2>1 DEF Init, ServerInv, Open, NobodyCutOff
  <2> QED BY <2>2, <2>3, <2>4 DEF AuthInv
<1>2. AuthInv /\ [Next]_vars => AuthInv'
  <2> SUFFICES ASSUME AuthInv, [Next]_vars PROVE AuthInv'
    OBVIOUS
  <2>1. CASE UNCHANGED vars
    BY <2>1 DEF vars, AuthInv, SessionsInv, RequestsInv, ServerInv, NobodyCutOff, Open
  <2>2. CASE Next
    BY <2>2, TickKeeps, ArriveWithPasswordKeeps, ArriveWithTokenKeeps, HashedKeeps,
       CreateUserAndSessionKeeps, FindByEmailKeeps, VerifiedKeeps, CreateSessionKeeps,
       RevokeByTokenHashKeeps, FindActiveUserKeeps, RunKeeps, QueryFailsKeeps, ShutdownKeeps
       DEF Next
  <2> QED BY <2>1, <2>2
<1> QED BY <1>1, <1>2, PTL DEF Spec

(* A request runs as a user only in a session of that user that had not    *)
(* expired when the request arrived and had not been logged out before     *)
(* (authenticate, findActiveUserByTokenHash), for any requests, sessions   *)
(* and delays.                                                             *)
THEOREM UsersRunInActiveSessions == Spec => []RunsInActiveSession
<1>1. AuthInv => RunsInActiveSession
  BY DEF AuthInv, RequestsInv, Stands, RunsInActiveSession
<1> QED BY <1>1, AuthInvHolds, PTL

(* A shutdown within its deadline answers every accepted request before it *)
(* closes the pools (main.ts), for any requests in flight.                 *)
THEOREM ShutdownCutsNobodyOff == Spec => []NobodyCutOff
<1>1. AuthInv => NobodyCutOff
  BY DEF AuthInv, ServerInv
<1> QED BY <1>1, AuthInvHolds, PTL

-------------------------------------------------------------------------------
(***************************************************************************)
(* The rate limiter.  The invariant relates its table to the attempts made:*)
(* an entry counts at most the attempts that passed since its window       *)
(* opened, with one of them; and for a key whose count was never dropped,  *)
(* all attempts belong to consecutive windows that do not overlap, of      *)
(* which the last is the one the table knows, or is over.                  *)
(***************************************************************************)

IsAttempt(r) == r.kind \in {"register", "login"}

Keys == {"register", "login"} \X Addresses

Asked(key) == {i \in DOMAIN requests : IsAttempt(requests[i]) /\ Key(requests[i]) = key}

Pass(key) == {i \in Asked(key) : requests[i].answer # "limited"}

Since(key, s) == {i \in Pass(key) : s <= requests[i].at}

Between(key, a, b) == {i \in Pass(key) : a <= requests[i].at /\ requests[i].at < b}

Entry == [attempts : 1..Attempts, resetAt : Nat, nr : Nat]

Times(key) == {requests[i].at : i \in Asked(key)}

Tables(t) ==
  /\ DOMAIN t \subseteq Keys /\ IsFiniteSet(DOMAIN t)
  /\ Cardinality(DOMAIN t) <= MaxEntries
  /\ \A key \in DOMAIN t : t[key] \in Entry

(* The window an entry stands for opened at time s.                        *)
Counts(key, s) ==
  /\ table[key].resetAt = s + Window
  /\ table[key].attempts <= Cardinality(Since(key, s))
  /\ \E i \in Since(key, s) : requests[i].at = s

(* The last window of a key opened at time s.                              *)
LastWindow(key, s) ==
  /\ \A i \in Asked(key) : requests[i].at < s + Window
  /\ \E i \in Since(key, s) : requests[i].at = s
  /\ Cardinality(Since(key, s)) <= Attempts
  /\ key \in DOMAIN table =>
       /\ table[key].resetAt = s + Window
       /\ table[key].attempts = Cardinality(Since(key, s))
  /\ key \notin DOMAIN table => s + Window <= clock
  /\ \A a \in 0..s : a < s /\ s < a + Window => Cardinality(Between(key, a, s)) < Attempts

LimiterInv ==
  /\ Tables(table)
  /\ \A key \in DOMAIN table : \E s \in 0..clock : Counts(key, s)
  /\ \A key \in Keys \ forgotten : Asked(key) # {} => \E s \in 0..clock : LastWindow(key, s)
  /\ \A key \in Keys \ forgotten : \A a \in Times(key) :
       Cardinality(Between(key, a, a + Window)) < 2 * Attempts
  /\ \A i \in DOMAIN requests :
       /\ requests[i].at <= clock
       /\ IsAttempt(requests[i]) => Key(requests[i]) \in Keys
       /\ requests[i].answer = "limited" => requests[i].phase = "done"
  /\ RefusedOnlyWhenUsedUp

-------------------------------------------------------------------------------
(* The table of the limiter.                                               *)

LEMMA Least ==
  ASSUME NEW T \in SUBSET Nat, T # {}
  PROVE  \E m \in T : \A x \in T : m <= x
<1> DEFINE R == {p \in Nat \X Nat : p[1] < p[2]}
<1>1. IsWellFoundedOn(R, Nat)
  BY NatLessThanWellFounded DEF OpToRel
<1>4. \A x, m \in Nat : x < m => <<x, m>> \in R
  <2> SUFFICES ASSUME NEW x \in Nat, NEW m \in Nat, x < m PROVE <<x, m>> \in R
    OBVIOUS
  <2>1. <<x, m>> \in Nat \X Nat /\ <<x, m>>[1] = x /\ <<x, m>>[2] = m
    OBVIOUS
  <2> QED BY <2>1
<1> HIDE DEF R
<1>2. PICK m \in T : \A x \in T : ~ (<<x, m>> \in R)
  BY <1>1, WFMin
<1>3. \A x \in T : m <= x
  <2> SUFFICES ASSUME NEW x \in T PROVE m <= x
    OBVIOUS
  <2>1. x \in Nat /\ m \in Nat /\ ~(x < m)
    BY <1>2, <1>4
  <2> QED BY <2>1
<1> QED BY <1>3

(* There is an entry to evict whenever there is an entry.                  *)
LEMMA OldestExists ==
  ASSUME NEW t, DOMAIN t # {}, \A key \in DOMAIN t : t[key] \in Entry
  PROVE  Oldest(t) \in DOMAIN t
<1> DEFINE T == {t[key].resetAt : key \in DOMAIN t}
<1>1. PICK m \in T : \A x \in T : m <= x
  <2>1. T \in SUBSET Nat /\ T # {}
    BY DEF Entry
  <2> HIDE DEF T
  <2> QED BY <2>1, Least
<1> DEFINE P == {t[key].nr : key \in {k \in DOMAIN t : t[k].resetAt = m}}
<1>2. PICK p \in P : \A x \in P : p <= x
  <2>1. P \in SUBSET Nat /\ P # {}
    BY <1>1 DEF Entry
  <2> HIDE DEF P
  <2> QED BY <2>1, Least
<1>3. PICK key \in DOMAIN t : t[key].resetAt = m /\ t[key].nr = p
  BY <1>2
<1>4. \A other \in DOMAIN t :
        \/ t[key].resetAt < t[other].resetAt
        \/ t[key].resetAt = t[other].resetAt /\ t[key].nr <= t[other].nr
  <2> SUFFICES ASSUME NEW other \in DOMAIN t
               PROVE  \/ t[key].resetAt < t[other].resetAt
                      \/ t[key].resetAt = t[other].resetAt /\ t[key].nr <= t[other].nr
    OBVIOUS
  <2>1. m <= t[other].resetAt /\ m \in Nat /\ t[other].resetAt \in Nat
    BY <1>1 DEF Entry
  <2>2. CASE t[other].resetAt = m
    BY <1>2, <1>3, <2>2
  <2>3. CASE t[other].resetAt # m
    BY <1>3, <2>1, <2>3
  <2> QED BY <2>2, <2>3
<1> HIDE DEF T, P
<1> QED BY <1>4 DEF Oldest

LEMMA LiveTables ==
  ASSUME NEW t, Tables(t), NEW now
  PROVE  Tables(Live(t, now))
<1>1. DOMAIN Live(t, now) \in SUBSET DOMAIN t
      /\ \A key \in DOMAIN Live(t, now) : Live(t, now)[key] = t[key]
  BY DEF Live
<1>2. /\ IsFiniteSet(DOMAIN Live(t, now)) /\ Cardinality(DOMAIN Live(t, now)) \in Nat
      /\ Cardinality(DOMAIN t) \in Nat
      /\ Cardinality(DOMAIN Live(t, now)) <= Cardinality(DOMAIN t)
  BY <1>1, FS_Subset, FS_CardinalityType DEF Tables
<1>3. Cardinality(DOMAIN Live(t, now)) <= MaxEntries
  BY <1>2, LimiterAssumption DEF Tables
<1> QED BY <1>1, <1>2, <1>3 DEF Tables

(* Insert makes room, so that a table stays within its bound.              *)
LEMMA InsertTables ==
  ASSUME NEW t, Tables(t), NEW key \in Keys \ DOMAIN t, NEW entry \in Entry
  PROVE  Tables(Insert(t, key, entry))
<1> DEFINE D == DOMAIN t \ GivingWay(t)
           u == Insert(t, key, entry)
<1>1. DOMAIN u = D \cup {key} /\ \A k \in DOMAIN u : u[k] = IF k = key THEN entry ELSE t[k]
  BY DEF Insert
<1>2. IsFiniteSet(DOMAIN t) /\ Cardinality(DOMAIN t) \in Nat /\ MaxEntries \in Nat \ {0}
      /\ Cardinality(DOMAIN t) <= MaxEntries
  BY FS_CardinalityType, LimiterAssumption DEF Tables
<1>3. IsFiniteSet(D) /\ Cardinality(D) \in Nat /\ Cardinality(D) + 1 <= MaxEntries
  <2>1. CASE Cardinality(DOMAIN t) >= MaxEntries
    <3>1. DOMAIN t # {}
      BY <1>2, <2>1, FS_EmptySet
    <3>2. Oldest(t) \in DOMAIN t
      BY <3>1, OldestExists DEF Tables
    <3>3. D = DOMAIN t \ {Oldest(t)}
      BY <2>1 DEF GivingWay
    <3>4. IsFiniteSet(D) /\ Cardinality(D) = Cardinality(DOMAIN t) - 1
      BY <1>2, <3>2, <3>3, FS_RemoveElement
    <3> HIDE DEF D
    <3> QED BY <1>2, <3>4, FS_CardinalityType
  <2>2. CASE ~(Cardinality(DOMAIN t) >= MaxEntries)
    <3>1. D = DOMAIN t
      BY <2>2 DEF GivingWay
    <3> HIDE DEF D
    <3> QED BY <1>2, <2>2, <3>1
  <2> QED BY <2>1, <2>2
<1>4. IsFiniteSet(D \cup {key}) /\ Cardinality(D \cup {key}) = Cardinality(D) + 1
  <2>1. key \notin D
    OBVIOUS
  <2> HIDE DEF D
  <2> QED BY <1>3, <2>1, FS_AddElement
<1> HIDE DEF u
<1>5. DOMAIN u \subseteq Keys /\ \A k \in DOMAIN u : u[k] \in Entry
  BY <1>1 DEF Tables
<1>6. IsFiniteSet(DOMAIN u) /\ Cardinality(DOMAIN u) <= MaxEntries
  <2>1. DOMAIN u = D \cup {key}
    BY <1>1
  <2> HIDE DEF D
  <2> QED BY <1>3, <1>4, <2>1
<1> QED BY <1>5, <1>6 DEF Tables, u

(* One attempt changes the count of its own key, and a count is dropped    *)
(* only once its window is over, or for lack of room.                      *)
LEMMA CountedShape ==
  ASSUME NEW t, Tables(t), NEW key \in Keys, NEW now \in Nat, NEW nr \in Nat
  PROVE  LET u == Counted(t, key, now, nr)
             live == key \in DOMAIN t /\ now < t[key].resetAt IN
         /\ Tables(u)
         /\ key \in DOMAIN u
         /\ \A k \in DOMAIN u \ {key} : k \in DOMAIN t /\ u[k] = t[k]
         /\ \A k \in DOMAIN t \ DOMAIN u : t[k].resetAt <= now \/ k \in Displaced(t, key, now)
         /\ Refuses(t, key, now) <=> live /\ t[key].attempts >= Attempts
         /\ Refuses(t, key, now) => u[key] = t[key]
         /\ live /\ ~Refuses(t, key, now) =>
              u[key].resetAt = t[key].resetAt /\ u[key].attempts = t[key].attempts + 1
         /\ ~live => u[key].resetAt = now + Window /\ u[key].attempts = 1
<1> DEFINE l == Live(t, now)
           u == Counted(t, key, now, nr)
           live == key \in DOMAIN t /\ now < t[key].resetAt
           e == [attempts |-> 1, resetAt |-> now + Window, nr |-> nr]
<1>1. /\ DOMAIN l = {k \in DOMAIN t : now < t[k].resetAt}
      /\ \A k \in DOMAIN l : l[k] = t[k]
  BY DEF Live
<1>2. Tables(l)
  BY LiveTables
<1>3. \A k \in DOMAIN t \ DOMAIN l : t[k].resetAt <= now
  <2> SUFFICES ASSUME NEW k \in DOMAIN t \ DOMAIN l PROVE t[k].resetAt <= now
    OBVIOUS
  <2>1. ~(now < t[k].resetAt) /\ t[k].resetAt \in Nat
    BY <1>1 DEF Tables, Entry
  <2> QED BY <2>1
<1>4. live <=> key \in DOMAIN l
  BY <1>1
<1>5. Refuses(t, key, now) <=> live /\ t[key].attempts >= Attempts
  BY <1>1, <1>4 DEF Refuses, UsedUp
<1>6. e \in Entry /\ e.attempts = 1 /\ e.resetAt = now + Window
  BY LimiterAssumption DEF Entry
<1> HIDE DEF e
<1>7. CASE ~live
  <2>1. u = Insert(l, key, e) /\ key \in Keys \ DOMAIN l
    BY <1>4, <1>7 DEF Counted, e
  <2>2. Tables(u)
    BY <1>2, <1>6, <2>1, InsertTables
  <2>3. Displaced(t, key, now) = GivingWay(l)
    BY <1>4, <1>7 DEF Displaced
  <2> HIDE DEF l, u
  <2>4. /\ DOMAIN u = (DOMAIN l \ GivingWay(l)) \cup {key}
        /\ \A k \in DOMAIN u : u[k] = IF k = key THEN e ELSE l[k]
    BY <2>1 DEF Insert
  <2>5. \A k \in DOMAIN t \ DOMAIN u : t[k].resetAt <= now \/ k \in Displaced(t, key, now)
    BY <1>3, <2>3, <2>4
  <2>6. \A k \in DOMAIN u \ {key} : k \in DOMAIN t /\ u[k] = t[k]
    BY <1>1, <2>4
  <2>7. ~Refuses(t, key, now)
    BY <1>5, <1>7
  <2>8. key \in DOMAIN u /\ u[key] = e
    BY <2>4
  <2> QED BY <1>5, <1>6, <1>7, <2>2, <2>5, <2>6, <2>7, <2>8 DEF u
<1>8. CASE live /\ Refuses(t, key, now)
  <2>1. u = l
    BY <1>1, <1>4, <1>5, <1>8 DEF Counted, UsedUp
  <2> HIDE DEF l, u
  <2>2. Tables(u) /\ key \in DOMAIN u /\ u[key] = t[key]
    BY <1>1, <1>2, <1>4, <1>8, <2>1
  <2>3. \A k \in DOMAIN u \ {key} : k \in DOMAIN t /\ u[k] = t[k]
    BY <1>1, <2>1
  <2>4. \A k \in DOMAIN t \ DOMAIN u : t[k].resetAt <= now \/ k \in Displaced(t, key, now)
    BY <1>3, <2>1
  <2> QED BY <1>5, <1>8, <2>2, <2>3, <2>4 DEF u
<1>9. CASE live /\ ~Refuses(t, key, now)
  <2> DEFINE f == [l[key] EXCEPT !.attempts = @ + 1]
  <2>1. l[key] = t[key] /\ t[key] \in Entry
    BY <1>1, <1>4, <1>9 DEF Tables
  <2>2. t[key].attempts \in 1..Attempts /\ ~(t[key].attempts >= Attempts) /\ Attempts \in Nat
    BY <1>5, <1>9, <2>1, LimiterAssumption DEF Entry
  <2>3. t[key].attempts + 1 \in 1..Attempts
    BY <2>2
  <2>4. f \in Entry /\ f.attempts = t[key].attempts + 1 /\ f.resetAt = t[key].resetAt
    BY <2>1, <2>3 DEF Entry
  <2>5. u = [l EXCEPT ![key] = f]
    BY <1>4, <1>9, <2>1, <2>2 DEF Counted, UsedUp
  <2> HIDE DEF l, u, f
  <2>6. DOMAIN u = DOMAIN l /\ \A k \in DOMAIN u : u[k] = IF k = key THEN f ELSE l[k]
    BY <2>5
  <2>7. Tables(u) /\ key \in DOMAIN u /\ u[key] = f
    BY <1>2, <1>4, <1>9, <2>4, <2>6 DEF Tables
  <2>8. \A k \in DOMAIN u \ {key} : k \in DOMAIN t /\ u[k] = t[k]
    BY <1>1, <2>6
  <2>9. \A k \in DOMAIN t \ DOMAIN u : t[k].resetAt <= now \/ k \in Displaced(t, key, now)
    BY <1>3, <2>6
  <2> QED BY <1>5, <1>9, <2>4, <2>7, <2>8, <2>9 DEF u
<1> QED BY <1>7, <1>8, <1>9

-------------------------------------------------------------------------------
(* The history of attempts.  A quiet step neither makes an attempt nor     *)
(* touches the limiter: it moves requests on that are not refused, or lets *)
(* a request arrive that the limiter is not asked about.                   *)

Quiet ==
  /\ UNCHANGED limiter /\ clock' \in Nat /\ clock <= clock'
  /\ DOMAIN requests \subseteq DOMAIN requests'
  /\ \A i \in DOMAIN requests :
       /\ requests'[i].kind = requests[i].kind /\ requests'[i].ip = requests[i].ip
       /\ requests'[i].at = requests[i].at
       /\ requests'[i] # requests[i] =>
            requests[i].answer # "limited" /\ requests'[i].answer # "limited"
  /\ \A i \in DOMAIN requests' \ DOMAIN requests :
       /\ requests'[i].kind \in {"logout", "data"} /\ requests'[i].answer # "limited"
       /\ requests'[i].at <= clock'

LEMMA QuietHistory ==
  ASSUME Quiet, NEW key
  PROVE  /\ Asked(key)' = Asked(key) /\ Pass(key)' = Pass(key) /\ Times(key)' = Times(key)
         /\ \A s : Since(key, s)' = Since(key, s)
         /\ \A a, b : Between(key, a, b)' = Between(key, a, b)
         /\ \A i \in Asked(key) : requests'[i].at = requests[i].at
<1>1. Asked(key)' = Asked(key)
  BY DEF Quiet, Asked, IsAttempt, Key
<1>2. \A i \in Asked(key) : i \in DOMAIN requests /\ requests'[i].at = requests[i].at
  BY DEF Quiet, Asked
<1>3. Pass(key)' = Pass(key)
  BY <1>1, <1>2 DEF Quiet, Pass
<1>4. Times(key)' = Times(key)
  BY <1>1, <1>2 DEF Times
<1>5. \A i \in Pass(key) : requests'[i].at = requests[i].at
  BY <1>2 DEF Pass
<1>6. ASSUME NEW s PROVE Since(key, s)' = Since(key, s)
  BY <1>3, <1>5 DEF Since
<1>7. ASSUME NEW a, NEW b PROVE Between(key, a, b)' = Between(key, a, b)
  BY <1>3, <1>5 DEF Between
<1> QED BY <1>1, <1>2, <1>3, <1>4, <1>6, <1>7

LEMMA QuietKeeps ==
  ASSUME LimiterInv, Quiet, clock \in Nat, NEW n \in Nat, DOMAIN requests = 1..n,
         \A i \in DOMAIN requests : requests[i].at \in Nat
  PROVE  LimiterInv'
<1>1. table' = table /\ forgotten' = forgotten /\ clock' \in Nat /\ clock <= clock'
  BY DEF Quiet, limiter
<1>2. \A s \in 0..clock : s \in 0..clock' /\ s \in Nat
  BY <1>1
<1>3. Tables(table)'
  BY <1>1 DEF LimiterInv, Tables
<1>4. ASSUME NEW key \in DOMAIN table PROVE \E s \in 0..clock' : Counts(key, s)'
  <2>1. PICK s \in 0..clock : Counts(key, s)
    BY DEF LimiterInv
  <2>2. Since(key, s)' = Since(key, s) /\ \A i \in Since(key, s) : requests'[i].at = requests[i].at
    BY QuietHistory DEF Since, Pass
  <2>3. Counts(key, s)'
    BY <1>1, <2>1, <2>2 DEF Counts
  <2> QED BY <1>2, <2>3
<1>5. ASSUME NEW key \in Keys \ forgotten, Asked(key)' # {}
      PROVE  \E s \in 0..clock' : LastWindow(key, s)'
  <2>1. Asked(key)' = Asked(key)
    BY QuietHistory
  <2>2. PICK s \in 0..clock : LastWindow(key, s)
    BY <1>5, <2>1 DEF LimiterInv
  <2>3. /\ Since(key, s)' = Since(key, s)
        /\ \A i \in Asked(key) : requests'[i].at = requests[i].at
        /\ \A i \in Since(key, s) : requests'[i].at = requests[i].at
        /\ \A a \in 0..s : Between(key, a, s)' = Between(key, a, s)
    BY QuietHistory DEF Since, Pass
  <2>4. s + Window <= clock => s + Window <= clock'
    BY <1>1, <1>2, LimiterAssumption
  <2>5. LastWindow(key, s)'
    BY <1>1, <2>1, <2>2, <2>3, <2>4 DEF LastWindow
  <2> QED BY <1>2, <2>5
<1>6. ASSUME NEW key \in Keys \ forgotten, NEW a \in Times(key)'
      PROVE  Cardinality(Between(key, a, a + Window)') < 2 * Attempts
  <2>1. Times(key)' = Times(key) /\ Between(key, a, a + Window)' = Between(key, a, a + Window)
    BY QuietHistory
  <2> QED BY <2>1 DEF LimiterInv
<1>7. ASSUME NEW i \in DOMAIN requests', requests'[i].answer = "limited"
      PROVE  i \in DOMAIN requests /\ requests'[i] = requests[i]
  BY <1>7 DEF Quiet
<1>8. ASSUME NEW i \in DOMAIN requests'
      PROVE  /\ requests'[i].at <= clock'
             /\ IsAttempt(requests'[i]) => Key(requests'[i]) \in Keys
             /\ requests'[i].answer = "limited" => requests'[i].phase = "done"
  <2>1. CASE i \in DOMAIN requests
    <3>1. requests[i].at <= clock /\ requests[i].at \in Nat /\ requests'[i].at = requests[i].at
      BY <2>1 DEF LimiterInv, Quiet
    <3>2. IsAttempt(requests'[i]) => Key(requests'[i]) \in Keys
      BY <2>1 DEF LimiterInv, Quiet, IsAttempt, Key
    <3> QED BY <1>1, <1>7, <3>1, <3>2 DEF LimiterInv
  <2>2. CASE i \notin DOMAIN requests
    BY <2>2 DEF Quiet, IsAttempt
  <2> QED BY <2>1, <2>2
<1>9. RefusedOnlyWhenUsedUp'
  <2> DEFINE Earlier(rs, i) ==
        {j \in 1..(i - 1) : /\ rs[j].kind = rs[i].kind /\ rs[j].ip = rs[i].ip
                            /\ rs[j].answer # "limited" /\ rs[j].at + Window > rs[i].at}
  <2> SUFFICES ASSUME NEW i \in DOMAIN requests', requests'[i].answer = "limited"
               PROVE  /\ Cardinality(Earlier(requests', i)) >= Attempts
                      /\ \E j \in Earlier(requests', i) :
                           requests'[i].at + requests'[i].retry * Second >= requests'[j].at + Window
    BY DEF RefusedOnlyWhenUsedUp
  <2>1. i \in 1..n /\ requests'[i] = requests[i] /\ requests[i].answer = "limited"
    BY <1>7
  <2>2. \A j \in 1..(i - 1) : j \in DOMAIN requests
    BY <2>1
  <2>3. \A j \in 1..(i - 1) :
          /\ requests'[j].kind = requests[j].kind /\ requests'[j].ip = requests[j].ip
          /\ requests'[j].at = requests[j].at
          /\ (requests'[j].answer = "limited" <=> requests[j].answer = "limited")
    BY <2>2 DEF Quiet
  <2>4. Earlier(requests', i) = Earlier(requests, i)
    BY <2>1, <2>3
  <2>5. /\ Cardinality(Earlier(requests, i)) >= Attempts
        /\ \E j \in Earlier(requests, i) :
             requests[i].at + requests[i].retry * Second >= requests[j].at + Window
    BY <2>1 DEF LimiterInv, RefusedOnlyWhenUsedUp
  <2> HIDE DEF Earlier
  <2>6. \A j \in Earlier(requests, i) : requests'[j].at = requests[j].at
    BY <2>3 DEF Earlier
  <2> QED BY <2>1, <2>4, <2>5, <2>6
<1>10. \A key \in Keys \ forgotten' : \A a \in Times(key)' :
         Cardinality(Between(key, a, a + Window)') < 2 * Attempts
  BY <1>1, <1>6
<1>11. \A key \in DOMAIN table' : \E s \in 0..clock' : Counts(key, s)'
  BY <1>1, <1>4
<1>12. \A key \in Keys \ forgotten' : Asked(key)' # {} => \E s \in 0..clock' : LastWindow(key, s)'
  BY <1>1, <1>5
<1> QED BY <1>3, <1>8, <1>9, <1>10, <1>11, <1>12 DEF LimiterInv

-------------------------------------------------------------------------------
(* An attempt is made: request n + 1, at time now, of a key.               *)

Attempt(n, key, now, q) ==
  /\ n \in Nat /\ now \in Nat /\ key \in Keys
  /\ DOMAIN requests = 1..n /\ DOMAIN requests' = 1..(n + 1)
  /\ \A i \in 1..n : requests'[i] = requests[i] /\ requests[i].at \in 0..now
  /\ requests'[n + 1] = q
  /\ IsAttempt(q) /\ Key(q) = key /\ q.at = now
  /\ clock = now /\ clock' = now
  /\ table' = Counted(table, key, now, n + 1)
  /\ forgotten' = forgotten \cup Displaced(table, key, now)
  /\ q.answer = "limited" <=> Refuses(table, key, now)

LEMMA FiniteHistory ==
  ASSUME NEW n \in Nat, DOMAIN requests = 1..n, NEW key
  PROVE  /\ IsFiniteSet(Pass(key))
         /\ \A s : Since(key, s) \subseteq Pass(key) /\ IsFiniteSet(Since(key, s))
         /\ \A a, b : Between(key, a, b) \subseteq Pass(key) /\ IsFiniteSet(Between(key, a, b))
<1>1. IsFiniteSet(1..n)
  BY FS_Interval
<1>2. Pass(key) \in SUBSET (1..n)
  BY DEF Pass, Asked
<1>3. IsFiniteSet(Pass(key))
  BY <1>1, <1>2, FS_Subset
<1>4. ASSUME NEW s PROVE Since(key, s) \subseteq Pass(key) /\ IsFiniteSet(Since(key, s))
  <2>1. Since(key, s) \in SUBSET Pass(key)
    BY DEF Since
  <2> QED BY <1>3, <2>1, FS_Subset
<1>5. ASSUME NEW a, NEW b
      PROVE  Between(key, a, b) \subseteq Pass(key) /\ IsFiniteSet(Between(key, a, b))
  <2>1. Between(key, a, b) \in SUBSET Pass(key)
    BY DEF Between
  <2> QED BY <1>3, <2>1, FS_Subset
<1> QED BY <1>3, <1>4, <1>5

(* The attempt adds to the history of its own key, and to no other.        *)
LEMMA OthersHistory ==
  ASSUME NEW n, NEW key, NEW now, NEW q, Attempt(n, key, now, q), NEW k \in Keys \ {key}
  PROVE  /\ Asked(k)' = Asked(k) /\ Times(k)' = Times(k)
         /\ \A s : Since(k, s)' = Since(k, s)
         /\ \A a, b : Between(k, a, b)' = Between(k, a, b)
         /\ \A i \in Asked(k) : requests'[i].at = requests[i].at
<1>1. /\ \A i \in 1..n : i \in 1..(n + 1) /\ requests'[i] = requests[i]
      /\ \A i \in 1..(n + 1) : i # n + 1 => i \in 1..n
      /\ Key(requests'[n + 1]) # k
  BY DEF Attempt
<1>2. DOMAIN requests = 1..n /\ DOMAIN requests' = 1..(n + 1)
  BY DEF Attempt
<1>3. \A i \in 1..(n + 1) : Key(requests'[i]) = k => i \in 1..n
  BY <1>1
<1>4. Asked(k)' = {i \in 1..(n + 1) : IsAttempt(requests'[i]) /\ Key(requests'[i]) = k}
  BY <1>2 DEF Asked, Key, IsAttempt
<1>5. Asked(k) = {i \in 1..n : IsAttempt(requests[i]) /\ Key(requests[i]) = k}
  BY <1>2 DEF Asked
<1>6. Asked(k)' = Asked(k)
  BY <1>1, <1>3, <1>4, <1>5
<1>7. \A i \in Asked(k) : requests'[i] = requests[i]
  BY <1>1, <1>5
<1>8. Pass(k)' = Pass(k)
  BY <1>6, <1>7 DEF Pass
<1>9. \A i \in Pass(k) : requests'[i] = requests[i]
  BY <1>7 DEF Pass
<1>10. Times(k)' = Times(k)
  BY <1>6, <1>7 DEF Times
<1>11. ASSUME NEW s PROVE Since(k, s)' = Since(k, s)
  BY <1>8, <1>9 DEF Since
<1>12. ASSUME NEW a, NEW b PROVE Between(k, a, b)' = Between(k, a, b)
  BY <1>8, <1>9 DEF Between
<1> QED BY <1>6, <1>7, <1>10, <1>11, <1>12

LEMMA OwnHistory ==
  ASSUME NEW n, NEW key, NEW now, NEW q, Attempt(n, key, now, q)
  PROVE  LET P == IF q.answer = "limited" THEN {} ELSE {n + 1} IN
         /\ n + 1 \notin Asked(key)
         /\ Asked(key)' = Asked(key) \cup {n + 1}
         /\ Times(key)' = Times(key) \cup {now}
         /\ \A i \in Asked(key) : requests'[i] = requests[i] /\ requests[i].at \in 0..now
         /\ \A i \in Pass(key) : requests'[i] = requests[i] /\ requests[i].at \in 0..now
         /\ \A s \in 0..now : Since(key, s)' = Since(key, s) \cup P
         /\ \A a, b \in Nat : b <= now => Between(key, a, b)' = Between(key, a, b)
<1> DEFINE P == IF q.answer = "limited" THEN {} ELSE {n + 1}
<1>1. /\ \A i \in 1..n : i \in 1..(n + 1) /\ i # n + 1
                         /\ requests'[i] = requests[i] /\ requests[i].at \in 0..now
      /\ \A i \in 1..(n + 1) : i # n + 1 => i \in 1..n
      /\ requests'[n + 1] = q /\ IsAttempt(q) /\ Key(q) = key /\ q.at = now
      /\ DOMAIN requests = 1..n /\ DOMAIN requests' = 1..(n + 1)
      /\ now \in Nat /\ n + 1 \in 1..(n + 1)
  BY DEF Attempt
<1>2. Asked(key)' = {i \in 1..(n + 1) : IsAttempt(requests'[i]) /\ Key(requests'[i]) = key}
  BY <1>1 DEF Asked, Key, IsAttempt
<1>3. Asked(key) = {i \in 1..n : IsAttempt(requests[i]) /\ Key(requests[i]) = key}
  BY <1>1 DEF Asked
<1>4. n + 1 \notin Asked(key) /\ Asked(key)' = Asked(key) \cup {n + 1}
  BY <1>1, <1>2, <1>3
<1>5. \A i \in Asked(key) : requests'[i] = requests[i] /\ requests[i].at \in 0..now
  BY <1>1, <1>3
<1>6. Pass(key)' = Pass(key) \cup P
  BY <1>1, <1>4, <1>5 DEF Pass
<1>7. \A i \in Pass(key) : requests'[i] = requests[i] /\ requests[i].at \in 0..now
  BY <1>5 DEF Pass
<1>8. Times(key)' = Times(key) \cup {now}
  BY <1>1, <1>4, <1>5 DEF Times
<1>9. \A i \in P : requests'[i].at = now
  BY <1>1
<1>10. ASSUME NEW s \in 0..now PROVE Since(key, s)' = Since(key, s) \cup P
  <2>1. Since(key, s)' = {i \in Pass(key) \cup P : s <= requests'[i].at}
    BY <1>6 DEF Since
  <2>2. \A i \in P : s <= requests'[i].at
    BY <1>1, <1>9
  <2> HIDE DEF P
  <2> QED BY <1>7, <2>1, <2>2 DEF Since
<1>11. ASSUME NEW a \in Nat, NEW b \in Nat, b <= now
       PROVE  Between(key, a, b)' = Between(key, a, b)
  <2>1. Between(key, a, b)' =
          {i \in Pass(key) \cup P : a <= requests'[i].at /\ requests'[i].at < b}
    BY <1>6 DEF Between
  <2>2. \A i \in P : ~(requests'[i].at < b)
    BY <1>1, <1>9, <1>11
  <2> HIDE DEF P
  <2> QED BY <1>7, <2>1, <2>2 DEF Between
<1> HIDE DEF P
<1>12. \A s \in 0..now : Since(key, s)' = Since(key, s) \cup P
  BY <1>10
<1> QED BY <1>4, <1>5, <1>7, <1>8, <1>11, <1>12 DEF P

-------------------------------------------------------------------------------
(* What an attempt does to the windows.                                    *)

LEMMA Shape ==
  ASSUME LimiterInv, NEW n, NEW key, NEW now, NEW q, Attempt(n, key, now, q)
  PROVE  LET live == key \in DOMAIN table /\ now < table[key].resetAt IN
         /\ n \in Nat /\ now \in Nat /\ key \in Keys
         /\ Tables(table')
         /\ key \in DOMAIN table'
         /\ \A k \in DOMAIN table' \ {key} : k \in DOMAIN table /\ table'[k] = table[k]
         /\ \A k \in DOMAIN table \ DOMAIN table' :
              table[k].resetAt <= now \/ k \in Displaced(table, key, now)
         /\ q.answer = "limited" <=> live /\ table[key].attempts >= Attempts
         /\ q.answer = "limited" => table'[key] = table[key]
         /\ live /\ q.answer # "limited" =>
              /\ table'[key].resetAt = table[key].resetAt
              /\ table'[key].attempts = table[key].attempts + 1
         /\ ~live => table'[key].resetAt = now + Window /\ table'[key].attempts = 1
<1>1. /\ n \in Nat /\ now \in Nat /\ key \in Keys /\ n + 1 \in Nat
      /\ table' = Counted(table, key, now, n + 1)
      /\ q.answer = "limited" <=> Refuses(table, key, now)
  BY DEF Attempt
<1>2. Tables(table)
  BY DEF LimiterInv
<1>3. LET u == Counted(table, key, now, n + 1)
          live == key \in DOMAIN table /\ now < table[key].resetAt IN
      /\ Tables(u)
      /\ key \in DOMAIN u
      /\ \A k \in DOMAIN u \ {key} : k \in DOMAIN table /\ u[k] = table[k]
      /\ \A k \in DOMAIN table \ DOMAIN u :
           table[k].resetAt <= now \/ k \in Displaced(table, key, now)
      /\ Refuses(table, key, now) <=> live /\ table[key].attempts >= Attempts
      /\ Refuses(table, key, now) => u[key] = table[key]
      /\ live /\ ~Refuses(table, key, now) =>
           u[key].resetAt = table[key].resetAt /\ u[key].attempts = table[key].attempts + 1
      /\ ~live => u[key].resetAt = now + Window /\ u[key].attempts = 1
  BY <1>1, <1>2, CountedShape
<1> QED BY <1>1, <1>3

(* The windows of other keys stand, unless a count had to give way.        *)
LEMMA OthersWindows ==
  ASSUME LimiterInv, NEW n, NEW key, NEW now, NEW q, Attempt(n, key, now, q),
         NEW k \in Keys \ {key}
  PROVE  /\ k \in DOMAIN table' => \E s \in 0..now : Counts(k, s)'
         /\ k \notin forgotten' /\ Asked(k)' # {} => \E s \in 0..now : LastWindow(k, s)'
         /\ k \notin forgotten' => \A a \in Times(k)' :
              Cardinality(Between(k, a, a + Window)') < 2 * Attempts
<1>1. /\ Asked(k)' = Asked(k) /\ Times(k)' = Times(k)
      /\ \A s : Since(k, s)' = Since(k, s)
      /\ \A a, b : Between(k, a, b)' = Between(k, a, b)
      /\ \A i \in Asked(k) : requests'[i].at = requests[i].at
  BY OthersHistory
<1>2. \A s : \A i \in Since(k, s) : requests'[i].at = requests[i].at
  BY <1>1 DEF Since, Pass
<1>3. clock = now /\ clock' = now /\ now \in Nat
      /\ forgotten' = forgotten \cup Displaced(table, key, now)
  BY DEF Attempt
<1>4. /\ k \in DOMAIN table' => k \in DOMAIN table /\ table'[k] = table[k]
      /\ k \in DOMAIN table /\ k \notin DOMAIN table' =>
           table[k].resetAt <= now \/ k \in Displaced(table, key, now)
  BY Shape
<1>5. ASSUME k \in DOMAIN table' PROVE \E s \in 0..now : Counts(k, s)'
  <2>1. PICK s \in 0..now : Counts(k, s)
    BY <1>3, <1>4, <1>5 DEF LimiterInv
  <2>2. Since(k, s)' = Since(k, s)
    BY <1>1
  <2>3. Counts(k, s)'
    BY <1>2, <1>4, <1>5, <2>1, <2>2 DEF Counts
  <2> QED BY <2>3
<1>6. ASSUME k \notin forgotten', Asked(k)' # {} PROVE \E s \in 0..now : LastWindow(k, s)'
  <2>1. PICK s \in 0..now : LastWindow(k, s)
    BY <1>1, <1>3, <1>6 DEF LimiterInv
  <2>2. Since(k, s)' = Since(k, s) /\ \A a \in 0..s : Between(k, a, s)' = Between(k, a, s)
    BY <1>1
  <2>3. k \notin DOMAIN table' => s + Window <= clock'
    <3>1. CASE k \notin DOMAIN table
      BY <1>3, <2>1, <3>1 DEF LastWindow
    <3>2. CASE k \in DOMAIN table
      BY <1>3, <1>4, <1>6, <2>1, <3>2 DEF LastWindow
    <3> QED BY <3>1, <3>2
  <2>4. k \in DOMAIN table' => k \in DOMAIN table /\ table'[k] = table[k]
    BY <1>4
  <2>5. LastWindow(k, s)'
    BY <1>1, <1>2, <2>1, <2>2, <2>3, <2>4 DEF LastWindow
  <2> QED BY <2>5
<1>7. ASSUME k \notin forgotten', NEW a \in Times(k)'
      PROVE  Cardinality(Between(k, a, a + Window)') < 2 * Attempts
  <2>1. a \in Times(k) /\ Between(k, a, a + Window)' = Between(k, a, a + Window)
    BY <1>1
  <2> QED BY <1>3, <1>7, <2>1 DEF LimiterInv
<1> QED BY <1>5, <1>6, <1>7

(* The first attempt, or the first after the last window, opens a window.  *)
LEMMA WindowOpens ==
  ASSUME LimiterInv, NEW n, NEW key, NEW now, NEW q, Attempt(n, key, now, q),
         ~(key \in DOMAIN table /\ now < table[key].resetAt)
  PROVE  Counts(key, now)' /\ (key \notin forgotten => LastWindow(key, now)')
<1>1. /\ n \in Nat /\ now \in Nat /\ key \in Keys
      /\ key \in DOMAIN table' /\ q.answer # "limited"
      /\ table'[key].resetAt = now + Window /\ table'[key].attempts = 1
  BY Shape
<1>2. /\ Asked(key)' = Asked(key) \cup {n + 1}
      /\ \A i \in Asked(key) : requests'[i] = requests[i] /\ requests[i].at \in 0..now
      /\ \A i \in Pass(key) : requests'[i] = requests[i] /\ requests[i].at \in 0..now
      /\ \A s \in 0..now : Since(key, s)' = Since(key, s) \cup {n + 1}
      /\ \A a, b \in Nat : b <= now => Between(key, a, b)' = Between(key, a, b)
      /\ n + 1 \notin Asked(key)
  BY <1>1, OwnHistory
<1>3. DOMAIN requests = 1..n /\ requests'[n + 1].at = now /\ clock = now /\ clock' = now
  BY DEF Attempt
<1>4. IsFiniteSet(Since(key, now))
  BY <1>1, <1>3, FiniteHistory
<1>5. Attempts \in Nat \ {0} /\ Window \in Nat \ {0}
  BY LimiterAssumption
<1>6. Since(key, now)' = Since(key, now) \cup {n + 1}
  BY <1>1, <1>2
<1>7. Counts(key, now)'
  <2>1. IsFiniteSet(Since(key, now)') /\ Since(key, now)' # {}
    BY <1>4, <1>6, FS_AddElement
  <2>2. Cardinality(Since(key, now)') \in Nat /\ Cardinality(Since(key, now)') # 0
    BY <2>1, FS_CardinalityType, FS_EmptySet
  <2>3. table'[key].attempts <= Cardinality(Since(key, now)')
    BY <1>1, <2>2
  <2> QED BY <1>1, <1>3, <1>6, <2>3 DEF Counts
<1>8. ASSUME key \notin forgotten PROVE LastWindow(key, now)'
  <2>1. \A i \in Asked(key) : requests[i].at < now
    <3> SUFFICES ASSUME NEW i \in Asked(key) PROVE requests[i].at < now
      OBVIOUS
    <3>1. PICK s \in 0..now : LastWindow(key, s)
      BY <1>1, <1>3, <1>8 DEF LimiterInv
    <3>2. s + Window <= now
      <4>1. CASE key \in DOMAIN table
        BY <1>1, <3>1, <4>1, <1>5 DEF LastWindow
      <4>2. CASE key \notin DOMAIN table
        BY <1>3, <3>1, <4>2 DEF LastWindow
      <4> QED BY <4>1, <4>2
    <3>3. requests[i].at < s + Window /\ requests[i].at \in Nat
      BY <1>1, <1>2, <3>1 DEF LastWindow
    <3> QED BY <1>1, <1>5, <3>2, <3>3
  <2>2. Since(key, now) = {}
    <3> SUFFICES ASSUME NEW i \in Since(key, now) PROVE FALSE
      OBVIOUS
    <3>1. now <= requests[i].at /\ i \in Asked(key)
      BY DEF Since, Pass
    <3> QED BY <1>1, <1>2, <2>1, <3>1
  <2>3. Since(key, now)' = {n + 1} /\ Cardinality(Since(key, now)') = 1
    BY <1>6, <2>2, FS_Singleton
  <2>4. \A i \in Asked(key)' : requests'[i].at < now + Window
    <3> SUFFICES ASSUME NEW i \in Asked(key)' PROVE requests'[i].at < now + Window
      OBVIOUS
    <3>1. requests'[i].at \in 0..now
      BY <1>1, <1>2, <1>3
    <3> QED BY <1>1, <1>5, <3>1
  <2>5. ASSUME NEW a \in 0..now, a < now, now < a + Window
        PROVE  Cardinality(Between(key, a, now)') < Attempts
    <3>1. Between(key, a, now)' = Between(key, a, now) /\ a \in Nat
      BY <1>1, <1>2
    <3>2. CASE Asked(key) = {}
      <4>1. Between(key, a, now) = {}
        BY <3>2 DEF Between, Pass
      <4> QED BY <1>5, <3>1, <4>1, FS_EmptySet
    <3>3. CASE Asked(key) # {}
      <4>1. PICK s \in 0..now : LastWindow(key, s)
        BY <1>1, <1>3, <1>8, <3>3 DEF LimiterInv
      <4>2. s + Window <= now
        <5>1. CASE key \in DOMAIN table
          BY <1>1, <4>1, <5>1, <1>5 DEF LastWindow
        <5>2. CASE key \notin DOMAIN table
          BY <1>3, <4>1, <5>2 DEF LastWindow
        <5> QED BY <5>1, <5>2
      <4>3. s < a
        BY <1>1, <1>5, <2>5, <4>2
      <4>4. PICK i \in Since(key, s) : requests[i].at = s
        BY <4>1 DEF LastWindow
      <4>5. IsFiniteSet(Since(key, s)) /\ Cardinality(Since(key, s)) \in Nat
            /\ Cardinality(Since(key, s)) <= Attempts
        BY <1>1, <1>3, <4>1, FiniteHistory, FS_CardinalityType DEF LastWindow
      <4>6. Between(key, a, now) \in SUBSET (Since(key, s) \ {i})
        <5> SUFFICES ASSUME NEW j \in Between(key, a, now) PROVE j \in Since(key, s) /\ j # i
          OBVIOUS
        <5>1. j \in Pass(key) /\ a <= requests[j].at
          BY DEF Between
        <5>2. requests[j].at \in Nat
          BY <1>1, <1>2, <5>1
        <5>3. s <= requests[j].at /\ requests[j].at # s
          BY <3>1, <4>3, <5>1, <5>2
        <5> QED BY <4>4, <5>1, <5>3 DEF Since
      <4>7. /\ IsFiniteSet(Since(key, s) \ {i})
            /\ Cardinality(Since(key, s) \ {i}) = Cardinality(Since(key, s)) - 1
        BY <4>4, <4>5, FS_RemoveElement
      <4>8. /\ IsFiniteSet(Between(key, a, now))
            /\ Cardinality(Between(key, a, now)) <= Cardinality(Since(key, s) \ {i})
        BY <4>6, <4>7, FS_Subset
      <4>9. Cardinality(Between(key, a, now)) \in Nat
        BY <4>8, FS_CardinalityType
      <4> QED BY <1>5, <3>1, <4>5, <4>7, <4>8, <4>9
    <3> QED BY <3>2, <3>3
  <2>6. /\ \E i \in Since(key, now)' : requests'[i].at = now
        /\ Cardinality(Since(key, now)') <= Attempts
    BY <1>3, <1>5, <2>3
  <2>7. \A a \in 0..now : a < now /\ now < a + Window =>
          Cardinality(Between(key, a, now)') < Attempts
    BY <2>5
  <2> QED BY <1>1, <2>3, <2>4, <2>6, <2>7 DEF LastWindow
<1> QED BY <1>7, <1>8

(* An attempt within a window counts in it, unless it is refused.          *)
LEMMA WindowGoesOn ==
  ASSUME LimiterInv, NEW n, NEW key, NEW now, NEW q, Attempt(n, key, now, q),
         key \in DOMAIN table, now < table[key].resetAt,
         NEW s \in 0..now, Counts(key, s)
  PROVE  Counts(key, s)' /\ (LastWindow(key, s) => LastWindow(key, s)')
<1> DEFINE P == IF q.answer = "limited" THEN {} ELSE {n + 1}
<1>1. /\ n \in Nat /\ now \in Nat /\ key \in Keys
      /\ key \in DOMAIN table'
      /\ q.answer = "limited" <=> table[key].attempts >= Attempts
      /\ q.answer = "limited" => table'[key] = table[key]
      /\ q.answer # "limited" =>
              /\ table'[key].resetAt = table[key].resetAt
              /\ table'[key].attempts = table[key].attempts + 1
  BY Shape
<1>2. /\ Asked(key)' = Asked(key) \cup {n + 1}
      /\ \A i \in Asked(key) : requests'[i] = requests[i] /\ requests[i].at \in 0..now
      /\ \A i \in Pass(key) : requests'[i] = requests[i] /\ requests[i].at \in 0..now
      /\ Since(key, s)' = Since(key, s) \cup P
      /\ \A a, b \in Nat : b <= now => Between(key, a, b)' = Between(key, a, b)
      /\ n + 1 \notin Asked(key)
  BY OwnHistory
<1>3. DOMAIN requests = 1..n /\ requests'[n + 1].at = now /\ clock = now /\ clock' = now
  BY DEF Attempt
<1>4. IsFiniteSet(Since(key, s)) /\ Cardinality(Since(key, s)) \in Nat
  BY <1>1, <1>3, FiniteHistory, FS_CardinalityType
<1>5. Attempts \in Nat \ {0} /\ Window \in Nat \ {0} /\ table[key].attempts \in Nat
  BY LimiterAssumption DEF LimiterInv, Tables, Entry
<1>6. n + 1 \notin Since(key, s)
  BY <1>2 DEF Since, Pass
<1>7. /\ q.answer = "limited" => Cardinality(Since(key, s)') = Cardinality(Since(key, s))
      /\ q.answer # "limited" => Cardinality(Since(key, s)') = Cardinality(Since(key, s)) + 1
  <2>1. CASE q.answer = "limited"
    BY <1>2, <2>1
  <2>2. CASE q.answer # "limited"
    BY <1>2, <1>4, <1>6, <2>2, FS_AddElement
  <2> QED BY <2>1, <2>2
<1>8. \E i \in Since(key, s)' : requests'[i].at = s
  <2>1. PICK i \in Since(key, s) : requests[i].at = s
    BY DEF Counts
  <2>2. requests'[i].at = s /\ i \in Since(key, s)'
    BY <1>2, <2>1 DEF Since
  <2> QED BY <2>2
<1>9. table[key].resetAt = s + Window /\ table[key].attempts <= Cardinality(Since(key, s))
  BY DEF Counts
<1>10. table'[key].resetAt = s + Window
  BY <1>1, <1>9
<1>11. table'[key].attempts <= Cardinality(Since(key, s)')
  <2>1. CASE q.answer = "limited"
    BY <1>1, <1>7, <1>9, <2>1
  <2>2. CASE q.answer # "limited"
    BY <1>1, <1>4, <1>5, <1>7, <1>9, <2>2
  <2> QED BY <2>1, <2>2
<1>12. Counts(key, s)'
  BY <1>8, <1>10, <1>11 DEF Counts
<1>13. ASSUME LastWindow(key, s) PROVE LastWindow(key, s)'
  <2>1. /\ \A i \in Asked(key) : requests[i].at < s + Window
        /\ Cardinality(Since(key, s)) <= Attempts
        /\ table[key].attempts = Cardinality(Since(key, s))
        /\ \A a \in 0..s : a < s /\ s < a + Window => Cardinality(Between(key, a, s)) < Attempts
    BY <1>13 DEF LastWindow
  <2>2. \A i \in Asked(key)' : requests'[i].at < s + Window
    BY <1>2, <1>3, <1>9, <2>1
  <2>3. /\ Cardinality(Since(key, s)') <= Attempts
        /\ table'[key].attempts = Cardinality(Since(key, s)')
    <3>1. CASE q.answer = "limited"
      BY <1>1, <1>7, <2>1, <3>1
    <3>2. CASE q.answer # "limited"
      <4>1. ~(table[key].attempts >= Attempts)
        BY <1>1, <3>2
      <4> QED BY <1>1, <1>4, <1>5, <1>7, <2>1, <3>2, <4>1
    <3> QED BY <3>1, <3>2
  <2>4. \A a \in 0..s : Between(key, a, s)' = Between(key, a, s)
    BY <1>1, <1>2
  <2>5. \A a \in 0..s : a < s /\ s < a + Window => Cardinality(Between(key, a, s)') < Attempts
    BY <2>1, <2>4
  <2> QED BY <1>1, <1>8, <1>10, <2>2, <2>3, <2>5 DEF LastWindow
<1> QED BY <1>12, <1>13

(* Fewer than twice the limit fit into the length of a window.             *)
LEMMA TwoWindows ==
  ASSUME NEW B, IsFiniteSet(B), Cardinality(B) < Attempts,
         NEW S, IsFiniteSet(S), Cardinality(S) <= Attempts,
         NEW X \in SUBSET (B \cup S)
  PROVE  Cardinality(X) < 2 * Attempts
<1>1. /\ IsFiniteSet(B \cup S)
      /\ Cardinality(B \cup S) = Cardinality(B) + Cardinality(S) - Cardinality(B \cap S)
  BY FS_Union
<1>2. B \cap S \in SUBSET S
  OBVIOUS
<1>3. /\ Cardinality(B) \in Nat /\ Cardinality(S) \in Nat /\ Cardinality(B \cap S) \in Nat
      /\ Cardinality(X) \in Nat /\ Cardinality(X) <= Cardinality(B \cup S)
  BY <1>1, <1>2, FS_Subset, FS_CardinalityType
<1>4. Attempts \in Nat
  BY LimiterAssumption
<1> QED BY <1>1, <1>3, <1>4

LEMMA OwnFew ==
  ASSUME LimiterInv, NEW n, NEW key, NEW now, NEW q, Attempt(n, key, now, q),
         key \notin forgotten, NEW s \in 0..now, LastWindow(key, s)', NEW a \in Times(key)'
  PROVE  Cardinality(Between(key, a, a + Window)') < 2 * Attempts
<1> DEFINE P == IF q.answer = "limited" THEN {} ELSE {n + 1}
<1>1. /\ Times(key)' = Times(key) \cup {now}
      /\ \A i \in Asked(key) : requests'[i] = requests[i] /\ requests[i].at \in 0..now
      /\ Asked(key)' = Asked(key) \cup {n + 1}
      /\ Since(key, s)' = Since(key, s) \cup P
      /\ \A c, b \in Nat : b <= now => Between(key, c, b)' = Between(key, c, b)
  BY OwnHistory
<1>2. n \in Nat /\ now \in Nat /\ key \in Keys /\ DOMAIN requests = 1..n
      /\ requests'[n + 1].at = now
  BY DEF Attempt
<1>3. Attempts \in Nat \ {0} /\ Window \in Nat \ {0}
  BY LimiterAssumption
<1>4. a \in 0..now /\ s \in Nat
  BY <1>1, <1>2 DEF Times
<1>5. \A i \in Pass(key)' : requests'[i].at \in Nat
  <2>1. Pass(key)' \subseteq Asked(key)'
    BY DEF Pass
  <2> QED BY <1>1, <1>2, <2>1
<1>6. IsFiniteSet(Since(key, s)') /\ Cardinality(Since(key, s)') <= Attempts
  <2>1. IsFiniteSet(Since(key, s)) /\ IsFiniteSet(P)
    BY <1>2, FiniteHistory, FS_Singleton, FS_EmptySet
  <2>4. Since(key, s)' = Since(key, s) \cup P
    BY <1>1
  <2> HIDE DEF P
  <2>5. IsFiniteSet(Since(key, s) \cup P)
    BY <2>1, FS_Union
  <2>2. IsFiniteSet(Since(key, s)')
    BY <2>4, <2>5
  <2>3. Cardinality(Since(key, s)') <= Attempts
    BY DEF LastWindow
  <2> QED BY <2>2, <2>3
<1>7. CASE a + Window <= s
  <2>1. a \in Times(key) /\ a + Window \in Nat /\ a + Window <= now
    BY <1>1, <1>2, <1>3, <1>4, <1>7
  <2>2. Between(key, a, a + Window)' = Between(key, a, a + Window)
    BY <1>1, <1>4, <2>1
  <2> QED BY <1>2, <2>1, <2>2 DEF LimiterInv
<1>8. CASE s <= a
  <2>1. Between(key, a, a + Window)' \in SUBSET ({} \cup Since(key, s)')
    <3> SUFFICES ASSUME NEW i \in Between(key, a, a + Window)' PROVE i \in Since(key, s)'
      OBVIOUS
    <3>1. i \in Pass(key)' /\ a <= requests'[i].at
      BY DEF Between
    <3>2. s <= requests'[i].at
      BY <1>4, <1>5, <1>8, <3>1
    <3> QED BY <3>1, <3>2 DEF Since
  <2>2. IsFiniteSet({}) /\ Cardinality({}) < Attempts
    BY <1>3, FS_EmptySet
  <2> QED BY <1>6, <2>1, <2>2, TwoWindows
<1>9. CASE a < s /\ s < a + Window
  <2>1. Between(key, a, a + Window)' \in SUBSET (Between(key, a, s)' \cup Since(key, s)')
    <3> SUFFICES ASSUME NEW i \in Between(key, a, a + Window)'
                 PROVE  i \in Between(key, a, s)' \/ i \in Since(key, s)'
      OBVIOUS
    <3>1. i \in Pass(key)' /\ a <= requests'[i].at
      BY DEF Between
    <3>2. requests'[i].at < s \/ s <= requests'[i].at
      BY <1>4, <1>5, <3>1
    <3> QED BY <3>1, <3>2 DEF Between, Since
  <2>2. Cardinality(Between(key, a, s)') < Attempts
    BY <1>4, <1>9 DEF LastWindow
  <2>3. Between(key, a, s)' = Between(key, a, s)
    BY <1>1, <1>2, <1>4
  <2>4. IsFiniteSet(Between(key, a, s)')
    BY <1>2, <2>3, FiniteHistory
  <2> QED BY <1>6, <2>1, <2>2, <2>4, TwoWindows
<1> QED BY <1>3, <1>4, <1>7, <1>8, <1>9

(* Whoever is refused has used up the window, and waits until it is over.  *)
LEMMA OwnRefusal ==
  ASSUME LimiterInv, NEW n, NEW key, NEW now, NEW q, Attempt(n, key, now, q),
         q.answer = "limited", q.retry = RetryAfter(table[key], now)
  PROVE  LET earlier == {j \in 1..n : /\ requests[j].kind = q.kind /\ requests[j].ip = q.ip
                                      /\ requests[j].answer # "limited"
                                      /\ requests[j].at + Window > now} IN
         /\ Cardinality(earlier) >= Attempts
         /\ \E j \in earlier : now + q.retry * Second >= requests[j].at + Window
<1> DEFINE earlier == {j \in 1..n : /\ requests[j].kind = q.kind /\ requests[j].ip = q.ip
                                    /\ requests[j].answer # "limited"
                                    /\ requests[j].at + Window > now}
<1>1. /\ n \in Nat /\ now \in Nat /\ key \in DOMAIN table /\ now < table[key].resetAt
      /\ table[key].attempts >= Attempts
  BY Shape
<1>2. clock = now /\ DOMAIN requests = 1..n /\ Key(q) = key
      /\ \A i \in 1..n : requests[i].at \in 0..now
  BY DEF Attempt
<1>3. PICK s \in 0..now : Counts(key, s)
  BY <1>1, <1>2 DEF LimiterInv
<1>4. /\ table[key].resetAt = s + Window /\ table[key].attempts <= Cardinality(Since(key, s))
      /\ \E i \in Since(key, s) : requests[i].at = s
  BY <1>3 DEF Counts
<1>5. Attempts \in Nat \ {0} /\ Window \in Nat \ {0} /\ Second \in Nat \ {0}
      /\ table[key].attempts \in Nat
  BY <1>1, LimiterAssumption DEF LimiterInv, Tables, Entry
<1>6. Since(key, s) \in SUBSET earlier
  <2> SUFFICES ASSUME NEW j \in Since(key, s) PROVE j \in earlier
    OBVIOUS
  <2>1. j \in 1..n /\ Key(requests[j]) = Key(q) /\ requests[j].answer # "limited"
        /\ s <= requests[j].at
    BY <1>2 DEF Since, Pass, Asked
  <2>2. requests[j].kind = q.kind /\ requests[j].ip = q.ip
    BY <2>1 DEF Key
  <2>3. requests[j].at + Window > now
    BY <1>1, <1>2, <1>4, <1>5, <2>1
  <2> QED BY <2>1, <2>2, <2>3
<1>7. IsFiniteSet(earlier)
  <2>1. IsFiniteSet(1..n) /\ earlier \in SUBSET (1..n)
    BY <1>1, FS_Interval
  <2> HIDE DEF earlier
  <2> QED BY <2>1, FS_Subset
<1>8. now + q.retry * Second >= s + Window
  <2> DEFINE d == s + Window - now
  <2>1. d \in Nat /\ q.retry = (d + Second - 1) \div Second
    BY <1>1, <1>4, <1>5 DEF RetryAfter
  <2>2. q.retry * Second >= d
    <3> HIDE DEF d
    <3> DEFINE e == d + Second - 1
    <3>1. e \in Nat /\ q.retry = e \div Second
      BY <1>5, <2>1
    <3>2. e = Second * (e \div Second) + (e % Second) /\ e % Second \in 0..(Second - 1)
          /\ e \div Second \in Int
      <4> HIDE DEF e
      <4> QED BY <1>5, <3>1
    <3>3. q.retry * Second = Second * (e \div Second)
      <4> HIDE DEF e
      <4> QED BY <1>5, <3>1, <3>2
    <3>4. q.retry * Second >= e - (Second - 1)
      <4> HIDE DEF e
      <4> QED BY <1>5, <3>1, <3>2, <3>3
    <3> QED BY <1>5, <2>1, <3>4
  <2> QED BY <1>1, <1>5, <2>1, <2>2
<1>9. Cardinality(earlier) >= Attempts
  <2> HIDE DEF earlier
  <2>1. IsFiniteSet(Since(key, s)) /\ Cardinality(Since(key, s)) <= Cardinality(earlier)
    BY <1>6, <1>7, FS_Subset
  <2>2. Cardinality(Since(key, s)) \in Nat /\ Cardinality(earlier) \in Nat
    BY <1>7, <2>1, FS_CardinalityType
  <2> QED BY <1>1, <1>4, <1>5, <2>1, <2>2
<1>10. \E j \in earlier : now + q.retry * Second >= requests[j].at + Window
  <2> HIDE DEF earlier
  <2> QED BY <1>4, <1>6, <1>8
<1> QED BY <1>9, <1>10

LEMMA AttemptKeeps ==
  ASSUME LimiterInv, NEW n, NEW key, NEW now, NEW q, Attempt(n, key, now, q),
         q.answer = "limited" => q.phase = "done" /\ q.retry = RetryAfter(table[key], now)
  PROVE  LimiterInv'
<1>1. /\ n \in Nat /\ now \in Nat /\ key \in Keys /\ clock = now /\ clock' = now
      /\ DOMAIN requests = 1..n /\ DOMAIN requests' = 1..(n + 1)
      /\ \A i \in 1..n : requests'[i] = requests[i]
      /\ requests'[n + 1] = q /\ q.at = now /\ Key(q) = key
      /\ forgotten' = forgotten \cup Displaced(table, key, now)
  BY DEF Attempt
<1>2. \A i \in 1..(n + 1) : i = n + 1 \/ i \in 1..n
  BY <1>1
<1>3. Tables(table)' /\ key \in DOMAIN table'
  BY Shape DEF Tables
<1>4. \E s \in 0..now : /\ Counts(key, s)'
                        /\ key \notin forgotten => LastWindow(key, s)'
  <2>1. CASE ~(key \in DOMAIN table /\ now < table[key].resetAt)
    BY <1>1, <2>1, WindowOpens
  <2>2. CASE key \in DOMAIN table /\ now < table[key].resetAt
    <3>1. \E s \in 0..now : Counts(key, s) /\ (key \notin forgotten => LastWindow(key, s))
      <4>1. PICK s \in 0..now : Counts(key, s)
        BY <1>1, <2>2 DEF LimiterInv
      <4>2. CASE key \in forgotten
        BY <4>1, <4>2
      <4>3. CASE key \notin forgotten
        <5>1. Asked(key) # {}
          BY <4>1 DEF Counts, Since, Pass
        <5>2. PICK z \in 0..now : LastWindow(key, z)
          BY <1>1, <4>3, <5>1 DEF LimiterInv
        <5>3. s + Window = z + Window
          BY <2>2, <4>1, <5>2 DEF Counts, LastWindow
        <5>4. s = z
          BY <1>1, <5>3, LimiterAssumption
        <5> QED BY <4>1, <5>2, <5>4
      <4> QED BY <4>2, <4>3
    <3>2. PICK s \in 0..now : Counts(key, s) /\ (key \notin forgotten => LastWindow(key, s))
      BY <3>1
    <3>3. Counts(key, s)' /\ (LastWindow(key, s) => LastWindow(key, s)')
      BY <2>2, <3>2, WindowGoesOn
    <3> QED BY <3>2, <3>3
  <2> QED BY <2>1, <2>2
<1>5. ASSUME NEW k \in DOMAIN table' PROVE \E s \in 0..clock' : Counts(k, s)'
  <2>1. k \in Keys
    BY <1>3 DEF Tables
  <2>2. CASE k = key
    BY <1>1, <1>4, <2>2
  <2>3. CASE k # key
    BY <1>1, <2>1, <2>3, OthersWindows
  <2> QED BY <2>2, <2>3
<1>6. ASSUME NEW k \in Keys \ forgotten', Asked(k)' # {}
      PROVE  \E s \in 0..clock' : LastWindow(k, s)'
  <2>1. CASE k = key
    BY <1>1, <1>4, <2>1
  <2>2. CASE k # key
    BY <1>1, <1>6, <2>2, OthersWindows
  <2> QED BY <2>1, <2>2
<1>7. ASSUME NEW k \in Keys \ forgotten', NEW a \in Times(k)'
      PROVE  Cardinality(Between(k, a, a + Window)') < 2 * Attempts
  <2>1. CASE k = key
    <3>1. key \notin forgotten
      BY <1>1, <2>1
    <3>2. PICK s \in 0..now : LastWindow(key, s)'
      BY <1>4, <3>1
    <3>3. a \in Times(key)'
      BY <2>1
    <3>4. Cardinality(Between(key, a, a + Window)') < 2 * Attempts
      BY <3>1, <3>2, <3>3, OwnFew
    <3> QED BY <2>1, <3>4
  <2>2. CASE k # key
    BY <1>7, <2>2, OthersWindows
  <2> QED BY <2>1, <2>2
<1>8. ASSUME NEW i \in DOMAIN requests'
      PROVE  /\ requests'[i].at <= clock'
             /\ IsAttempt(requests'[i]) => Key(requests'[i]) \in Keys
             /\ requests'[i].answer = "limited" => requests'[i].phase = "done"
  <2>1. CASE i = n + 1
    BY <1>1, <2>1
  <2>2. CASE i \in 1..n
    BY <1>1, <2>2 DEF LimiterInv
  <2> QED BY <1>1, <1>2, <2>1, <2>2
<1>9. RefusedOnlyWhenUsedUp'
  <2> DEFINE Earlier(rs, i) ==
        {j \in 1..(i - 1) : /\ rs[j].kind = rs[i].kind /\ rs[j].ip = rs[i].ip
                            /\ rs[j].answer # "limited" /\ rs[j].at + Window > rs[i].at}
  <2> SUFFICES ASSUME NEW i \in DOMAIN requests', requests'[i].answer = "limited"
               PROVE  /\ Cardinality(Earlier(requests', i)) >= Attempts
                      /\ \E j \in Earlier(requests', i) :
                           requests'[i].at + requests'[i].retry * Second >= requests'[j].at + Window
    BY DEF RefusedOnlyWhenUsedUp
  <2>1. CASE i \in 1..n
    <3>1. requests'[i] = requests[i] /\ \A j \in 1..(i - 1) : requests'[j] = requests[j]
      BY <1>1, <2>1
    <3>2. Earlier(requests', i) = Earlier(requests, i)
      BY <3>1
    <3>3. /\ Cardinality(Earlier(requests, i)) >= Attempts
          /\ \E j \in Earlier(requests, i) :
               requests[i].at + requests[i].retry * Second >= requests[j].at + Window
      BY <1>1, <2>1, <3>1 DEF LimiterInv, RefusedOnlyWhenUsedUp
    <3>4. \A j \in Earlier(requests, i) : requests'[j] = requests[j]
      BY <3>1
    <3> HIDE DEF Earlier
    <3> QED BY <3>1, <3>2, <3>3, <3>4
  <2>2. CASE i = n + 1
    <3> DEFINE earlier == {j \in 1..n : /\ requests[j].kind = q.kind /\ requests[j].ip = q.ip
                                        /\ requests[j].answer # "limited"
                                        /\ requests[j].at + Window > now}
    <3>1. requests'[i] = q /\ q.answer = "limited" /\ q.retry = RetryAfter(table[key], now)
      BY <1>1, <2>2
    <3>2. Earlier(requests', i) = earlier
      BY <1>1, <2>2
    <3>3. /\ Cardinality(earlier) >= Attempts
          /\ \E j \in earlier : now + q.retry * Second >= requests[j].at + Window
      BY <3>1, OwnRefusal
    <3>4. \A j \in earlier : requests'[j] = requests[j]
      BY <1>1
    <3> HIDE DEF Earlier, earlier
    <3> QED BY <1>1, <3>1, <3>2, <3>3, <3>4
  <2> QED BY <1>1, <1>2, <2>1, <2>2
<1>10. \A k \in DOMAIN table' : \E s \in 0..clock' : Counts(k, s)'
  BY <1>5
<1>11. \A k \in Keys \ forgotten' : Asked(k)' # {} => \E s \in 0..clock' : LastWindow(k, s)'
  BY <1>6
<1>12. \A k \in Keys \ forgotten' : \A a \in Times(k)' :
         Cardinality(Between(k, a, a + Window)') < 2 * Attempts
  BY <1>7
<1> QED BY <1>3, <1>8, <1>9, <1>10, <1>11, <1>12 DEF LimiterInv

-------------------------------------------------------------------------------
(* Every step is quiet or an attempt.                                      *)

LEMMA History ==
  ASSUME AuthInv
  PROVE  /\ clock \in Nat /\ Len(requests) \in Nat /\ DOMAIN requests = 1..Len(requests)
         /\ \A i \in DOMAIN requests : requests[i].at \in Nat
<1>1. PICK Retries : requests \in Seq(Requests(Retries))
  BY DEF AuthInv, RequestsInv
<1>2. \A i \in DOMAIN requests : requests[i] \in Requests(Retries)
  BY <1>1
<1> QED BY <1>1, <1>2 DEF AuthInv, RequestsInv, Requests

LEMMA MovesQuietly ==
  ASSUME AuthInv, LimiterInv, NEW i \in Open, NEW q,
         requests' = [requests EXCEPT ![i] = q],
         q.kind = requests[i].kind, q.ip = requests[i].ip, q.at = requests[i].at,
         q.answer # "limited", UNCHANGED <<clock, limiter>>
  PROVE  Quiet
<1>1. i \in DOMAIN requests /\ requests[i].answer # "limited"
  BY DEF Open, LimiterInv
<1>2. clock' = clock /\ clock \in Nat /\ clock <= clock'
  BY History
<1>3. DOMAIN requests' = DOMAIN requests
      /\ \A j \in DOMAIN requests : requests'[j] = IF j = i THEN q ELSE requests[j]
  BY <1>1
<1> QED BY <1>1, <1>2, <1>3 DEF Quiet

LEMMA ContinuesQuietly ==
  ASSUME AuthInv, LimiterInv, NEW i \in Open, NEW phase \in Phases, NEW now \in Nat,
         Continue(i, phase, now), UNCHANGED <<clock, limiter>>
  PROVE  Quiet
<1> DEFINE q == ContinuedAs(requests[i], phase, now)
<1>1. /\ requests' = [requests EXCEPT ![i] = q]
      /\ q.kind = requests[i].kind /\ q.at = requests[i].at /\ q.answer = requests[i].answer
  BY Continues
<1>2. PICK Retries : requests[i] \in Requests(Retries)
  BY Moved
<1>3. q.ip = requests[i].ip
  BY <1>2 DEF Requests, ContinuedAs
<1>4. requests[i].answer # "limited"
  BY DEF Open, LimiterInv
<1> HIDE DEF q
<1> QED BY <1>1, <1>3, <1>4, MovesQuietly

LEMMA FinishesQuietly ==
  ASSUME AuthInv, LimiterInv, NEW i \in Open, NEW answer \in Answers \ {"limited"},
         Finish(i, answer), UNCHANGED <<clock, limiter>>
  PROVE  Quiet
<1> DEFINE q == FinishedAs(requests[i], answer)
<1>1. /\ requests' = [requests EXCEPT ![i] = q]
      /\ q.kind = requests[i].kind /\ q.at = requests[i].at /\ q.answer = answer
  BY Finishes
<1>2. PICK Retries : requests[i] \in Requests(Retries)
  BY Moved
<1>3. q.ip = requests[i].ip
  BY <1>2 DEF Requests, FinishedAs
<1> HIDE DEF q
<1> QED BY <1>1, <1>3, MovesQuietly

(* A request that the limiter is not asked about arrives quietly.          *)
LEMMA TokenQuietly ==
  ASSUME AuthInv, LimiterInv, ArriveWithToken
  PROVE  Quiet
<1> DEFINE P(kind) == IF kind = "logout" THEN "revoke" ELSE "lookup"
           R(kind, token) == Request(kind, None, None, token, P(kind), "none")
<1>1. PICK kind \in {"logout", "data"}, token \in Issued \cup {0} :
        \/ requests' = Append(requests, R(kind, token))
        \/ requests' = Append(requests, AnsweredAtOnce(R(kind, token), "refused", 0))
  BY DEF ArriveWithToken
<1>2. clock' = clock /\ UNCHANGED limiter
  BY DEF ArriveWithToken
<1>3. PICK Retries : requests \in Seq(Requests(Retries))
  BY DEF AuthInv, RequestsInv
<1> DEFINE r == R(kind, token)
           w == AnsweredAtOnce(r, "refused", 0)
<1>4. /\ r.kind = kind /\ r.answer = "none" /\ r.at = clock
      /\ w.kind = kind /\ w.answer = "refused" /\ w.at = clock
  BY DEF Request, AnsweredAtOnce
<1>5. PICK q : requests' = Append(requests, q)
               /\ q.kind = kind /\ q.answer # "limited" /\ q.at = clock
  <2> HIDE DEF r, w
  <2>1. \E q \in {r, w} : requests' = Append(requests, q)
    BY <1>1 DEF r, w
  <2> QED BY <1>4, <2>1
<1>6. /\ DOMAIN requests = 1..Len(requests) /\ DOMAIN requests' = 1..(Len(requests) + 1)
      /\ Len(requests) \in Nat
      /\ requests'[Len(requests) + 1] = q
      /\ \A i \in DOMAIN requests : requests'[i] = requests[i]
  BY <1>3, <1>5
<1>7. \A i \in DOMAIN requests' \ DOMAIN requests : i = Len(requests) + 1
  BY <1>6
<1>8. clock \in Nat /\ clock <= clock' /\ clock' \in Nat
  BY <1>2, History
<1>9. \A i \in DOMAIN requests : i \in DOMAIN requests'
  BY <1>6
<1> QED BY <1>2, <1>5, <1>6, <1>7, <1>8, <1>9 DEF Quiet

LEMMA PasswordAttempts ==
  ASSUME AuthInv, LimiterInv, ArriveWithPassword
  PROVE  \E key, q :
           /\ Attempt(Len(requests), key, clock, q)
           /\ q.answer = "limited" => q.phase = "done" /\ q.retry = RetryAfter(table[key], clock)
<1> DEFINE R(kind, email, ip) ==
             Request(kind, email, ip, 0, IF kind = "register" THEN "hash" ELSE "find", "none")
<1>1. PICK kind \in {"register", "login"}, email \in Emails, ip \in Addresses :
        LET r == R(kind, email, ip)
            key == Key(r) IN
        /\ table' = Counted(table, key, clock, Len(requests) + 1)
        /\ forgotten' = forgotten \cup Displaced(table, key, clock)
        /\ \/ /\ Refuses(table, key, clock)
              /\ requests' = Append(requests,
                   AnsweredAtOnce(r, "limited", RetryAfter(table[key], clock)))
           \/ /\ ~Refuses(table, key, clock)
              /\ \/ requests' = Append(requests, r)
                 \/ requests' = Append(requests, AnsweredAtOnce(r, "invalid", 0))
  BY DEF ArriveWithPassword
<1> DEFINE r == R(kind, email, ip)
           key == <<kind, ip>>
           x == AnsweredAtOnce(r, "limited", RetryAfter(table[key], clock))
           y == AnsweredAtOnce(r, "invalid", 0)
<1>2. Key(r) = key /\ key \in Keys
  BY DEF Key, Request, Keys
<1>3. /\ r.kind = kind /\ r.ip = ip /\ r.at = clock /\ r.answer = "none"
      /\ x.kind = kind /\ x.ip = ip /\ x.at = clock /\ x.answer = "limited"
      /\ x.phase = "done" /\ x.retry = RetryAfter(table[key], clock)
      /\ y.kind = kind /\ y.ip = ip /\ y.at = clock /\ y.answer = "invalid"
  BY DEF Request, AnsweredAtOnce
<1>4. PICK q :
        /\ requests' = Append(requests, q)
        /\ q.kind = kind /\ q.ip = ip /\ q.at = clock
        /\ q.answer = "limited" <=> Refuses(table, key, clock)
        /\ q.answer = "limited" => q.phase = "done" /\ q.retry = RetryAfter(table[key], clock)
  <2>1. \/ Refuses(table, key, clock) /\ requests' = Append(requests, x)
        \/ ~Refuses(table, key, clock) /\ \E q \in {r, y} : requests' = Append(requests, q)
    BY <1>1, <1>2
  <2> HIDE DEF r, x, y, key
  <2>2. CASE Refuses(table, key, clock) /\ requests' = Append(requests, x)
    BY <1>3, <2>2
  <2>3. CASE ~Refuses(table, key, clock) /\ \E q \in {r, y} : requests' = Append(requests, q)
    BY <1>3, <2>3
  <2> QED BY <2>1, <2>2, <2>3
<1>5. /\ table' = Counted(table, key, clock, Len(requests) + 1)
      /\ forgotten' = forgotten \cup Displaced(table, key, clock)
      /\ clock' = clock
  BY <1>1, <1>2 DEF ArriveWithPassword
<1>6. Key(q) = key /\ IsAttempt(q)
  BY <1>4 DEF Key, IsAttempt
<1>7. PICK Retries : requests \in Seq(Requests(Retries))
  BY DEF AuthInv, RequestsInv
<1>8. /\ DOMAIN requests' = 1..(Len(requests) + 1)
      /\ requests'[Len(requests) + 1] = q
      /\ \A i \in 1..Len(requests) : requests'[i] = requests[i]
  BY <1>4, <1>7
<1>9. /\ clock \in Nat /\ Len(requests) \in Nat /\ DOMAIN requests = 1..Len(requests)
      /\ \A i \in 1..Len(requests) : requests[i].at \in 0..clock
  <2>1. \A i \in DOMAIN requests : requests[i].at \in Nat /\ requests[i].at <= clock
    BY History DEF LimiterInv
  <2> QED BY <2>1, History
<1> HIDE DEF key
<1>10. Attempt(Len(requests), key, clock, q)
  BY <1>2, <1>4, <1>5, <1>6, <1>8, <1>9 DEF Attempt
<1> QED BY <1>4, <1>10

LEMMA StepsAreQuiet ==
  ASSUME AuthInv, LimiterInv, [Next]_vars, ~ArriveWithPassword
  PROVE  Quiet
<1>1. clock \in Nat
  BY History
<1>2. {"failed", "poolClosed", "conflict", "ok", "refused"} \subseteq Answers \ {"limited"}
  BY DEF Answers
<1>3. {"insert", "verify", "dummy", "create"} \subseteq Phases
  BY DEF Phases, PasswordPhases
<1>4. ASSUME requests' = requests, UNCHANGED limiter, clock' \in Nat, clock <= clock'
      PROVE  Quiet
  BY <1>4 DEF Quiet
<1>5. CASE UNCHANGED vars
  BY <1>1, <1>4, <1>5 DEF vars, limiter
<1>6. CASE Tick
  BY <1>1, <1>4, <1>6 DEF Tick
<1>7. CASE ArriveWithToken
  BY <1>7, TokenQuietly
<1>8. CASE Hashed
  <2>1. PICK i \in Open : Continue(i, "insert", clock)
    BY <1>8 DEF Hashed
  <2>2. UNCHANGED <<clock, limiter>>
    BY <1>8 DEF Hashed
  <2> QED BY <1>1, <1>3, <2>1, <2>2, ContinuesQuietly
<1>9. CASE CreateUserAndSession
  <2>1. PICK i \in Open : \E a \in {"conflict", "ok", "failed"} : Finish(i, a)
    BY <1>9 DEF CreateUserAndSession, Took
  <2>2. UNCHANGED <<clock, limiter>>
    BY <1>9 DEF CreateUserAndSession
  <2> QED BY <1>2, <2>1, <2>2, FinishesQuietly
<1>10. CASE FindByEmail
  <2>1. PICK i \in Open : \E p \in {"verify", "dummy"} : Continue(i, p, 0)
    BY <1>10 DEF FindByEmail
  <2>2. UNCHANGED <<clock, limiter>>
    BY <1>10 DEF FindByEmail
  <2> QED BY <1>3, <2>1, <2>2, ContinuesQuietly
<1>11. CASE Verified
  <2>1. PICK i \in Open : Finish(i, "refused") \/ Continue(i, "create", clock)
    BY <1>11 DEF Verified
  <2>2. UNCHANGED <<clock, limiter>>
    BY <1>11 DEF Verified
  <2> QED BY <1>1, <1>2, <1>3, <2>1, <2>2, ContinuesQuietly, FinishesQuietly
<1>12. CASE CreateSession
  <2>1. PICK i \in Open : \E a \in {"ok", "failed"} : Finish(i, a)
    BY <1>12 DEF CreateSession, Took
  <2>2. UNCHANGED <<clock, limiter>>
    BY <1>12 DEF CreateSession
  <2> QED BY <1>2, <2>1, <2>2, FinishesQuietly
<1>13. CASE RevokeByTokenHash
  <2>1. PICK i \in Open : \E a \in {"ok", "failed"} : Finish(i, a)
    BY <1>13 DEF RevokeByTokenHash, Took
  <2>2. UNCHANGED <<clock, limiter>>
    BY <1>13 DEF RevokeByTokenHash
  <2> QED BY <1>2, <2>1, <2>2, FinishesQuietly
<1>14. CASE FindActiveUser
  <2>1. PICK i \in Open : \/ Finish(i, "refused")
                          \/ requests' = [requests EXCEPT ![i].phase = "run", ![i].now = 0,
                               ![i].user = sessions[requests[i].token].user]
    BY <1>14 DEF FindActiveUser
  <2>2. UNCHANGED <<clock, limiter>>
    BY <1>14 DEF FindActiveUser
  <2>3. CASE Finish(i, "refused")
    BY <1>2, <2>2, <2>3, FinishesQuietly
  <2>4. CASE requests' = [requests EXCEPT ![i].phase = "run", ![i].now = 0,
                            ![i].user = sessions[requests[i].token].user]
    <3> DEFINE q == [requests[i] EXCEPT !.phase = "run", !.now = 0,
                                        !.user = sessions[requests[i].token].user]
    <3>1. PICK Retries : requests \in Seq(Requests(Retries)) /\ i \in DOMAIN requests
                         /\ requests[i] \in Requests(Retries)
      BY Moved DEF AuthInv, RequestsInv
    <3>2. requests' = [requests EXCEPT ![i] = q]
      BY <2>4, <3>1
    <3>3. /\ q.kind = requests[i].kind /\ q.ip = requests[i].ip /\ q.at = requests[i].at
          /\ q.answer = requests[i].answer
      BY <3>1 DEF Requests
    <3>4. requests[i].answer # "limited"
      BY DEF Open, LimiterInv
    <3> HIDE DEF q
    <3> QED BY <2>2, <3>2, <3>3, <3>4, MovesQuietly
  <2> QED BY <2>1, <2>3, <2>4
<1>15. CASE Run
  <2>1. PICK i \in Open : Finish(i, "ok")
    BY <1>15 DEF Run
  <2>2. UNCHANGED <<clock, limiter>>
    BY <1>15 DEF Run
  <2> QED BY <1>2, <2>1, <2>2, FinishesQuietly
<1>16. CASE QueryFails
  <2>1. PICK i \in Open : \E a \in {"failed", "poolClosed"} : Finish(i, a)
    BY <1>16 DEF QueryFails
  <2>2. UNCHANGED <<clock, limiter>>
    BY <1>16 DEF QueryFails
  <2> QED BY <1>2, <2>1, <2>2, FinishesQuietly
<1>17. CASE Signal \/ ClosePools
  BY <1>1, <1>4, <1>17 DEF Signal, ClosePools
<1> QED BY <1>5, <1>6, <1>7, <1>8, <1>9, <1>10, <1>11, <1>12, <1>13, <1>14, <1>15, <1>16,
           <1>17 DEF Next

LEMMA LimiterInvHolds == Spec => []LimiterInv
<1>1. Init => LimiterInv
  <2> SUFFICES ASSUME Init PROVE LimiterInv
    OBVIOUS
  <2>1. DOMAIN requests = {} /\ DOMAIN table = {}
    BY DEF Init
  <2>2. Tables(table)
    BY <2>1, FS_EmptySet, LimiterAssumption DEF Tables
  <2>3. \A key : Asked(key) = {} /\ Times(key) = {}
    BY <2>1 DEF Asked, Times
  <2> QED BY <2>1, <2>2, <2>3 DEF LimiterInv, RefusedOnlyWhenUsedUp
<1>2. AuthInv /\ LimiterInv /\ [Next]_vars => LimiterInv'
  <2> SUFFICES ASSUME AuthInv, LimiterInv, [Next]_vars PROVE LimiterInv'
    OBVIOUS
  <2>1. CASE ArriveWithPassword
    BY <2>1, PasswordAttempts, AttemptKeeps
  <2>2. CASE ~ArriveWithPassword
    BY <2>2, StepsAreQuiet, History, QuietKeeps
  <2> QED BY <2>1, <2>2
<1> QED BY <1>1, <1>2, AuthInvHolds, PTL DEF Spec

(* accounts only grows by the e-mail of a request.                         *)
LEMMA AccountsHold == Spec => [](accounts \subseteq Emails)
<1>1. Init => accounts \subseteq Emails
  BY DEF Init
<1>2. AuthInv /\ accounts \subseteq Emails /\ [Next]_vars => (accounts \subseteq Emails)'
  <2> SUFFICES ASSUME AuthInv, accounts \subseteq Emails, [Next]_vars, accounts' # accounts
               PROVE  accounts' \subseteq Emails
    OBVIOUS
  <2>1. PICK i \in Open : requests[i].phase = "insert"
                          /\ accounts' = accounts \cup {requests[i].email}
    BY DEF Next, vars, Tick, ArriveWithPassword, ArriveWithToken, Hashed, CreateUserAndSession,
       FindByEmail, Verified, CreateSession, RevokeByTokenHash, FindActiveUser, Run, QueryFails,
       Signal, ClosePools, database, At
  <2>2. requests[i].email \in Emails
    BY <2>1, Moved DEF Stands, PasswordPhases
  <2> QED BY <2>1, <2>2
<1> QED BY <1>1, <1>2, AuthInvHolds, PTL DEF Spec

(* Every variable keeps its type, and the limiter's table its bound: it    *)
(* drops counts rather than grow (InMemoryRateLimiter.insert), for any     *)
(* limits and any number of callers.                                       *)
THEOREM AuthTypeCorrect == Spec => []TypeOK
<1>1. AuthInv /\ LimiterInv /\ accounts \subseteq Emails => TypeOK
  <2> SUFFICES ASSUME AuthInv, LimiterInv, accounts \subseteq Emails PROVE TypeOK
    OBVIOUS
  <2>1. PICK Retries : requests \in Seq(Requests(Retries))
    BY DEF AuthInv, RequestsInv
  <2>2. \A i \in DOMAIN requests : requests[i] \in Requests(Retries)
    BY <2>1
  <2>3. \A i \in DOMAIN requests :
          /\ requests[i].kind \in Kinds /\ requests[i].answer \in Answers \cup {"none"}
          /\ requests[i].user \in Emails \cup {None}
    BY <2>2 DEF Requests
  <2>4. clock \in Nat /\ server \in {"up", "closing", "closed"}
        /\ sessions \in [Tokens -> Session \cup {None}]
    BY DEF AuthInv, RequestsInv, ServerInv, SessionsInv
  <2>5. /\ Cardinality(DOMAIN table) <= MaxEntries
        /\ \A key \in DOMAIN table :
             table[key].attempts \in 1..Attempts /\ table[key].resetAt \in Nat
    BY DEF LimiterInv, Tables, Entry
  <2> QED BY <2>3, <2>4, <2>5 DEF TypeOK
<1> QED BY <1>1, AuthInvHolds, LimiterInvHolds, AccountsHold, PTL

(* However attempts are spaced over consecutive windows, fewer than twice  *)
(* the limit pass within the length of one, unless the key's count was     *)
(* dropped for lack of room (InMemoryRateLimiter), for any limits.         *)
THEOREM FewAttemptsPass == Spec => []FewPass
<1>1. AuthInv /\ LimiterInv => FewPass
  <2> SUFFICES ASSUME AuthInv, LimiterInv, NEW i \in DOMAIN requests,
                      requests[i].kind \in {"register", "login"}, Key(requests[i]) \notin forgotten
               PROVE  Cardinality(Passed(Key(requests[i]), requests[i].at)) < 2 * Attempts
    BY DEF FewPass
  <2> DEFINE key == Key(requests[i])
             a == requests[i].at
  <2>1. i \in Asked(key) /\ a \in Times(key) /\ a \in Nat
    BY History DEF Asked, IsAttempt, Times
  <2>2. key \in Keys
    BY DEF LimiterInv, IsAttempt
  <2>3. Passed(key, a) = Between(key, a, a + Window)
    <3> HIDE DEF key, a
    <3>1. \A j \in DOMAIN requests :
            requests[j].at \in a..(a + Window - 1)
              <=> a <= requests[j].at /\ requests[j].at < a + Window
      BY <2>1, History, LimiterAssumption
    <3> QED BY <3>1 DEF Passed, Between, Pass, Asked, IsAttempt
  <2> QED BY <2>1, <2>2, <2>3 DEF LimiterInv
<1> QED BY <1>1, AuthInvHolds, LimiterInvHolds, PTL

(* A caller is told to wait only if the limit was used up within the last  *)
(* window, by attempts of its own key, and until that window is over       *)
(* (InMemoryRateLimiter.check), for any limits, callers and evictions.     *)
THEOREM RefusalsAreDeserved == Spec => []RefusedOnlyWhenUsedUp
<1>1. LimiterInv => RefusedOnlyWhenUsedUp
  BY DEF LimiterInv
<1> QED BY <1>1, LimiterInvHolds, PTL
=================================================================================
