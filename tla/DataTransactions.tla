---------------------------- MODULE DataTransactions ----------------------------
(***************************************************************************)
(* The data lane: every request of DataRepository, and registration, runs  *)
(* in one transaction on a connection of the runtime pool (withTransaction *)
(* of transaction.ts), with the caller as the transaction-local            *)
(* microjbase.user_id that row security compares with the owner of a row.  *)
(*                                                                         *)
(* As in SchemaDdlExecutor, every await is a point where other requests    *)
(* run, where the driver's query_timeout may fire while the server goes on *)
(* with the query (or before the query was sent, if it still queued), where*)
(* the connection may break and where the process may die.  Unlike there,  *)
(* a connection whose ROLLBACK fails is destroyed.                         *)
(***************************************************************************)
EXTENDS Naturals

CONSTANTS
  Calls,
  Users,
  Ids,         \* of data rows; an account's is its email
  Conns,       \* the connections the runtime pool may open
  None,        \* no row, no connection, no identity
  Unwritten,   \* a row a transaction has not written
  Requests,    \* what a call may ask
  MaxCrashes   \* bound on process deaths

Kinds == {"list", "get", "create", "update", "delete", "register"}

(* Registration runs without an identity, every other request with one.    *)
ASSUME RequestsTyped ==
  /\ Requests \subseteq [user : Users \cup {None}, kind : Kinds, id : Ids]
  /\ \A r \in Requests : r.user = None <=> r.kind = "register"
ASSUME NoneIsNothing == None \notin Users \cup Conns
ASSUME MaxCrashesIsNat == MaxCrashes \in Nat

VARIABLES
  request,
  pc,        \* where withTransaction stands: the query it awaits
  conn,      \* the connection it checked out, or None
  step,      \* the statement of its block it runs next
  seen,      \* the rows its last statement returned, with their owners
  reply,     \* its answer, delivered once pc is "done"
  pool,      \* per connection: "free", "idle", "held", "closing"
  inflight,  \* per connection: the abandoned query the server still runs
  txState,   \* per connection: "none", "open", "aborted"
  identity,  \* per connection: the transaction-local microjbase.user_id
  txRows,    \* per connection: the rows its transaction wrote
  rows,      \* the durable rows
  applied,   \* ghost: the calls whose change is durable
  crashes

callVars == <<pc, conn, step, seen, reply>>
sessionVars == <<txState, identity, txRows>>
durableVars == <<rows, applied>>
dbVars == <<sessionVars, durableVars>>
vars == <<request, callVars, pool, inflight, dbVars, crashes>>

RowKeys == {"data", "users", "sessions"} \X Ids

(* A row with its owner and the call that wrote it last, None before any.  *)
Row == [owner : Users \cup {None}, by : Calls \cup {None}]

ASSUME NoRowIsNone == Unwritten # None /\ None \notin Row /\ Unwritten \notin Row

Ops == {"BEGIN", "IDENTITY", "STATEMENT", "COMMIT", "ROLLBACK"}

Points == {"idle", "begin", "identity", "block", "commit", "rollback", "done"}

TypeOK ==
  /\ request \in [Calls -> Requests]
  /\ pc \in [Calls -> Points]
  /\ conn \in [Calls -> Conns \cup {None}]
  /\ step \in [Calls -> {1, 2}]
  /\ seen \in [Calls -> SUBSET (RowKeys \X (Users \cup {None}))]
  /\ reply \in [Calls -> {"none", "ok", "notFound", "refused", "error", "lost"}]
  /\ pool \in [Conns -> {"free", "idle", "held", "closing"}]
  /\ inflight \in [Conns -> [op : Ops, call : Calls] \cup {None}]
  /\ txState \in [Conns -> {"none", "open", "aborted"}]
  /\ identity \in [Conns -> Users \cup {None}]
  /\ txRows \in [Conns -> [RowKeys -> Row \cup {None, Unwritten}]]
  /\ rows \in [RowKeys -> Row \cup {None}]
  /\ applied \in SUBSET Calls
  /\ crashes \in 0..MaxCrashes

NoWrites == [key \in RowKeys |-> Unwritten]

(* Some rows exist, each owned by somebody; no account does.               *)
Init ==
  /\ request \in [Calls -> Requests]
  /\ pc = [c \in Calls |-> "idle"]
  /\ conn = [c \in Calls |-> None]
  /\ step = [c \in Calls |-> 1]
  /\ seen = [c \in Calls |-> {}]
  /\ reply = [c \in Calls |-> "none"]
  /\ pool = [x \in Conns |-> "free"]
  /\ inflight = [x \in Conns |-> None]
  /\ txState = [x \in Conns |-> "none"]
  /\ identity = [x \in Conns |-> None]
  /\ txRows = [x \in Conns |-> NoWrites]
  /\ \E owners \in [Ids -> Users \cup {None}] :
       rows = [key \in RowKeys |->
                 IF key[1] # "data" \/ owners[key[2]] = None THEN None
                 ELSE [owner |-> owners[key[2]], by |-> None]]
  /\ applied = {}
  /\ crashes = 0

-------------------------------------------------------------------------------
(* What the queries of a call do when the server executes them.            *)

User(c) == request[c].user

Kind(c) == request[c].kind

Visible(x, key) == IF txRows[x][key] # Unwritten THEN txRows[x][key] ELSE rows[key]

EndTx(x) ==
  /\ txState' = [txState EXCEPT ![x] = "none"]
  /\ identity' = [identity EXCEPT ![x] = None]
  /\ txRows' = [txRows EXCEPT ![x] = NoWrites]

RollbackTx(x) == EndTx(x) /\ UNCHANGED durableVars

(* COMMIT of an open transaction; of an aborted one PostgreSQL rolls back. *)
CommitTx(x, c) ==
  /\ EndTx(x)
  /\ IF txState[x] = "open"
       THEN /\ rows' = [key \in RowKeys |-> Visible(x, key)]
            /\ applied' = IF txRows[x] = NoWrites THEN applied ELSE applied \cup {c}
       ELSE UNCHANGED durableVars

BeginTx(x) ==
  /\ txState[x] # "aborted"
  /\ txState' = [txState EXCEPT ![x] = "open"]
  /\ UNCHANGED <<identity, txRows, durableVars>>

(* set_config('microjbase.user_id', $1, true).                             *)
IdentifyTx(x, c) ==
  /\ txState[x] = "open"
  /\ identity' = [identity EXCEPT ![x] = User(c)]
  /\ UNCHANGED <<txState, txRows, durableVars>>

(* The row a statement of call c names.                                    *)
Target(c) ==
  IF Kind(c) # "register" THEN <<"data", request[c].id>>
  ELSE IF step[c] = 1 THEN <<"users", request[c].id>>
  ELSE <<"sessions", request[c].id>>

(* The rows, with their owners, that row security lets session x find.     *)
Mine(x) ==
  {<<key, identity[x]>> : key \in
     {k \in {"data"} \X Ids : /\ identity[x] # None
                             /\ Visible(x, k) # None
                             /\ Visible(x, k).owner = identity[x]}}

(* What the statement of call c returns: an UPDATE or DELETE of a row of   *)
(* somebody else finds none.                                               *)
Result(x, c) ==
  CASE Kind(c) = "list" -> Mine(x)
    [] Kind(c) \in {"get", "update", "delete"} -> {f \in Mine(x) : f[1] = Target(c)}
    [] OTHER -> {<<Target(c), identity[x]>>}

(* A write waits for another transaction's uncommitted write of the row.   *)
Write(x, key, row) ==
  /\ \A y \in Conns \ {x} : txRows[y][key] = Unwritten
  /\ txRows' = [txRows EXCEPT ![x][key] = row]

(* An INSERT of a key that is taken, or of a data row without an owner, is *)
(* refused: it does not get here.                                          *)
StatementTx(x, c) ==
  LET row == [owner |-> identity[x], by |-> c] IN
  /\ txState[x] = "open"
  /\ \/ /\ Kind(c) \in {"create", "register"}
        /\ Visible(x, Target(c)) = None
        /\ Kind(c) = "create" => identity[x] # None
        /\ Write(x, Target(c), row)
     \/ /\ Kind(c) \in {"update", "delete"}
        /\ Result(x, c) # {}
        /\ Write(x, Target(c), IF Kind(c) = "delete" THEN None ELSE row)
     \/ /\ Kind(c) \in {"list", "get"} \/ Result(x, c) = {}
        /\ UNCHANGED txRows
  /\ UNCHANGED <<txState, identity, durableVars>>

AbortTx(x) ==
  /\ txState' = [txState EXCEPT ![x] = IF @ = "open" THEN "aborted" ELSE @]
  /\ UNCHANGED <<identity, txRows, durableVars>>

Serve(x, query) ==
  LET c == query.call IN
  \/ query.op = "BEGIN" /\ BeginTx(x)
  \/ query.op = "IDENTITY" /\ IdentifyTx(x, c)
  \/ query.op = "STATEMENT" /\ StatementTx(x, c)
  \/ query.op = "COMMIT" /\ CommitTx(x, c)
  \/ query.op = "ROLLBACK" /\ RollbackTx(x)

Refuse(x, query) ==
  \/ query.op = "COMMIT" /\ RollbackTx(x)
  \/ query.op = "BEGIN" /\ txState[x] = "aborted" /\ AbortTx(x)
  \/ query.op \notin {"BEGIN", "COMMIT", "ROLLBACK"} /\ AbortTx(x)

-------------------------------------------------------------------------------
(* The steps of withTransaction.                                           *)

Goto(c, point) == pc' = [pc EXCEPT ![c] = point]

(* The call is over: its connection goes to the pool, or is destroyed.     *)
EndWith(c, answer, state) ==
  /\ Goto(c, "done")
  /\ reply' = [reply EXCEPT ![c] = answer]
  /\ pool' = [pool EXCEPT ![conn[c]] = state]
  /\ conn' = [conn EXCEPT ![c] = None]
  /\ seen' = [seen EXCEPT ![c] = {}]
  /\ UNCHANGED step

Awaits(c, point) ==
  /\ pc[c] = point
  /\ inflight[conn[c]] = None

Connect(c) ==
  /\ pc[c] = "idle"
  /\ \E x \in Conns :
       /\ \/ pool[x] = "idle"
          \/ pool[x] = "free" /\ \A y \in Conns : pool[y] # "idle"
       /\ pool' = [pool EXCEPT ![x] = "held"]
       /\ conn' = [conn EXCEPT ![c] = x]
  /\ Goto(c, "begin")
  /\ UNCHANGED <<request, step, seen, reply, inflight, dbVars, crashes>>

(* The acquire timeout, or a database that cannot be reached.              *)
ConnectFails(c) ==
  /\ pc[c] = "idle"
  /\ Goto(c, "done")
  /\ reply' = [reply EXCEPT ![c] = "error"]
  /\ UNCHANGED <<request, conn, step, seen, pool, inflight, dbVars, crashes>>

Begin(c) ==
  /\ Awaits(c, "begin")
  /\ BeginTx(conn[c])
  /\ Goto(c, IF User(c) = None THEN "block" ELSE "identity")
  /\ UNCHANGED <<request, conn, step, seen, reply, pool, inflight, crashes>>

(* Faulty variant of Identify: the identity is kept in the runner, where   *)
(* another request overwrites it.                                          *)
IdentifyShared(c) ==
  /\ Awaits(c, "identity")
  /\ \E d \in Calls : pc[d] = "identity" /\ IdentifyTx(conn[c], d)
  /\ Goto(c, "block")
  /\ UNCHANGED <<request, conn, step, seen, reply, pool, inflight, crashes>>

Identify(c) ==
  /\ Awaits(c, "identity")
  /\ IdentifyTx(conn[c], c)
  /\ Goto(c, "block")
  /\ UNCHANGED <<request, conn, step, seen, reply, pool, inflight, crashes>>

(* The block: one statement, or the two INSERTs of createUserAndSession.   *)
RunStatement(c) ==
  /\ Awaits(c, "block")
  /\ StatementTx(conn[c], c)
  /\ seen' = [seen EXCEPT ![c] = Result(conn[c], c)]
  /\ IF Kind(c) = "register" /\ step[c] = 1
       THEN step' = [step EXCEPT ![c] = 2] /\ UNCHANGED pc
       ELSE Goto(c, "commit") /\ UNCHANGED step
  /\ UNCHANGED <<request, conn, reply, pool, inflight, crashes>>

(* COMMIT, release, and the answer the service makes of the rows.          *)
Commit(c) ==
  /\ Awaits(c, "commit")
  /\ CommitTx(conn[c], c)
  /\ EndWith(c, IF Kind(c) \in {"get", "update", "delete"} /\ seen[c] = {}
                  THEN "notFound" ELSE "ok", "idle")
  /\ UNCHANGED <<request, inflight, crashes>>

Rollback(c) ==
  /\ Awaits(c, "rollback")
  /\ RollbackTx(conn[c])
  /\ EndWith(c, reply[c], "idle")
  /\ UNCHANGED <<request, inflight, crashes>>

-------------------------------------------------------------------------------
(* What may go wrong with a query a call awaits.                           *)

OpAt(point) ==
  CASE point = "begin" -> "BEGIN"
    [] point = "identity" -> "IDENTITY"
    [] point = "block" -> "STATEMENT"
    [] point = "commit" -> "COMMIT"

QueryOf(c) == [op |-> OpAt(pc[c]), call |-> c]

InTry(c) == pc[c] \in {"begin", "identity", "block", "commit"}

(* Faulty variants of AfterFailure: a failed COMMIT is answered with       *)
(* success; the block is tried again without end.                          *)
AfterFailureAnsweringOk(c, answer) ==
  /\ Goto(c, "rollback")
  /\ reply' = [reply EXCEPT ![c] = IF pc[c] = "commit" THEN "ok" ELSE answer]
  /\ UNCHANGED <<conn, step, seen, pool>>

AfterFailureRetrying(c, answer) ==
  /\ IF pc[c] = "begin" THEN UNCHANGED <<pc, reply>>
       ELSE Goto(c, "rollback") /\ reply' = [reply EXCEPT ![c] = answer]
  /\ UNCHANGED <<conn, step, seen, pool>>

(* Everything in the try, BEGIN included, is followed by a ROLLBACK.       *)
AfterFailure(c, answer) ==
  /\ Goto(c, "rollback")
  /\ reply' = [reply EXCEPT ![c] = answer]
  /\ UNCHANGED <<conn, step, seen, pool>>

(* An integrity or row-security error of a statement is a 409.             *)
QueryRefused(c) ==
  /\ InTry(c)
  /\ inflight[conn[c]] = None
  /\ Refuse(conn[c], QueryOf(c))
  /\ \/ AfterFailure(c, "error")
     \/ pc[c] = "block" /\ AfterFailure(c, "refused")
  /\ UNCHANGED <<request, inflight, crashes>>

QueryTimesOut(c) ==
  /\ InTry(c)
  /\ inflight' = [inflight EXCEPT ![conn[c]] = IF @ = None THEN QueryOf(c) ELSE @]
  /\ AfterFailure(c, "error")
  /\ UNCHANGED <<request, dbVars, crashes>>

(* Faulty variants of RollbackFails: the connection is released as if      *)
(* nothing was wrong, or not at all.                                       *)
RollbackFailsReleasing(c) ==
  /\ pc[c] = "rollback"
  /\ EndWith(c, "error", "idle")
  /\ UNCHANGED <<request, inflight, dbVars, crashes>>

(* ROLLBACK times out, sent or still queued: the client is destroyed and   *)
(* its own error reported.                                                 *)
RollbackFails(c) ==
  /\ pc[c] = "rollback"
  /\ EndWith(c, "error", "closing")
  /\ UNCHANGED <<request, inflight, dbVars, crashes>>

-------------------------------------------------------------------------------
(* The server, the connections and the process.                            *)

(* The server finishes a query its client gave up on.                      *)
FinishAbandoned(x) ==
  /\ inflight[x] # None
  /\ pool[x] # "closing"
  /\ Serve(x, inflight[x]) \/ Refuse(x, inflight[x])
  /\ inflight' = [inflight EXCEPT ![x] = None]
  /\ UNCHANGED <<request, callVars, pool, crashes>>

EvictIdle(x) ==
  /\ pool[x] = "idle"
  /\ pool' = [pool EXCEPT ![x] = "closing"]
  /\ UNCHANGED <<request, callVars, inflight, dbVars, crashes>>

(* A checked-out connection breaks: the query fails, and so does the       *)
(* ROLLBACK.  A COMMIT may have reached the server.                        *)
Disconnect(c) ==
  /\ conn[c] # None
  /\ EndWith(c, "error", "closing")
  /\ inflight' = IF pc[c] = "commit" /\ inflight[conn[c]] = None
                   THEN [inflight EXCEPT ![conn[c]] = QueryOf(c)]
                   ELSE inflight
  /\ UNCHANGED <<request, dbVars, crashes>>

(* The server drops a session; only a COMMIT already sent may take effect. *)
SessionEnds(x) ==
  /\ pool[x] = "closing"
  /\ \/ RollbackTx(x)
     \/ /\ inflight[x] # None
        /\ inflight[x].op = "COMMIT"
        /\ CommitTx(x, inflight[x].call)
  /\ inflight' = [inflight EXCEPT ![x] = None]
  /\ pool' = [pool EXCEPT ![x] = "free"]
  /\ UNCHANGED <<request, callVars, crashes>>

Running(c) == pc[c] \notin {"idle", "done"}

Crash ==
  /\ crashes < MaxCrashes
  /\ crashes' = crashes + 1
  /\ pc' = [c \in Calls |-> IF Running(c) THEN "done" ELSE pc[c]]
  /\ reply' = [c \in Calls |-> IF Running(c) THEN "lost" ELSE reply[c]]
  /\ conn' = [c \in Calls |-> None]
  /\ pool' = [x \in Conns |-> IF pool[x] = "free" THEN "free" ELSE "closing"]
  /\ inflight' = [x \in Conns |->
                    IF \E c \in Calls : conn[c] = x /\ pc[c] = "commit" /\ inflight[x] = None
                      THEN QueryOf(CHOOSE c \in Calls : conn[c] = x)
                      ELSE inflight[x]]
  /\ UNCHANGED <<request, step, seen, dbVars>>

CallStep(c) ==
  \/ Begin(c) \/ Identify(c) \/ RunStatement(c) \/ Commit(c) \/ Rollback(c)
  \/ QueryRefused(c) \/ QueryTimesOut(c) \/ RollbackFails(c)

ServerStep(x) == FinishAbandoned(x) \/ EvictIdle(x) \/ SessionEnds(x)

Next ==
  \/ \E c \in Calls : Connect(c) \/ ConnectFails(c) \/ CallStep(c) \/ Disconnect(c)
  \/ \E x \in Conns : ServerStep(x)
  \/ Crash

Spec == Init /\ [][Next]_vars

(* As in SchemaDdlExecutor: the driver's timers end every await, the       *)
(* server finishes what does not wait for a row, the pool's idle timer     *)
(* fires.                                                                  *)
WaitsForRow(x) ==
  /\ inflight[x] # None
  /\ inflight[x].op = "STATEMENT"
  /\ \E y \in Conns \ {x} : txRows[y][Target(inflight[x].call)] # Unwritten

Fairness ==
  /\ \A c \in Calls : WF_vars(CallStep(c))
  /\ \A x \in Conns :
       /\ WF_vars(~WaitsForRow(x) /\ FinishAbandoned(x))
       /\ WF_vars(~WaitsForRow(x) /\ SessionEnds(x))
       /\ WF_vars(EvictIdle(x))

FairSpec == Spec /\ Fairness

-------------------------------------------------------------------------------
(***************************************************************************)
(* Properties.                                                             *)
(***************************************************************************)

(* A connection in the pool carries nothing of its last borrower: no open  *)
(* transaction, no identity, no query still running (transaction.ts: "a    *)
(* subsequent borrower of the same physical connection cannot see it").    *)
PooledIsClean ==
  \A x \in Conns : pool[x] \in {"free", "idle"} =>
    txState[x] = "none" /\ identity[x] = None /\ txRows[x] = NoWrites /\ inflight[x] = None

(* A row is written in the name of the user whose request wrote it, and by *)
(* a registration in nobody's, whoever borrowed the connection before.     *)
Authentic(row) == row \in Row /\ row.by # None => row.owner = User(row.by)

RunsAsItself ==
  \A key \in RowKeys : Authentic(rows[key]) /\ \A x \in Conns : Authentic(txRows[x][key])

(* A caller is shown only rows of its own.                                 *)
SeesOwnRows ==
  \A c \in Calls : \A f \in seen[c] : f[2] = User(c)

(* The data lane implements AtomicRequests.                                *)
Delivered == [c \in Calls |-> IF pc[c] = "done" THEN reply[c] ELSE "none"]

Promise == INSTANCE AtomicRequests WITH answer <- Delivered

(* Every request changes only what is its caller's, at one moment, as a    *)
(* whole, and is answered truthfully.                                      *)
KeepsPromise == Promise!Spec

(* A row is changed or deleted only by a request of its owner for that     *)
(* row, and at the moment the request takes effect; rows of accounts and   *)
(* sessions never are (repositories name the row by id, row security adds  *)
(* the owner).                                                             *)
OthersRowsAreKept ==
  [][\A key \in RowKeys : rows[key] # None /\ rows'[key] # rows[key] =>
       \E c \in applied' \ applied :
         /\ Kind(c) \in {"update", "delete"}
         /\ key = <<"data", request[c].id>>
         /\ rows[key].owner = User(c)]_rows

(* What a caller was told stays true ever after: a change answered with    *)
(* success was made, one answered with "not found" or a conflict was not,  *)
(* not even by a query the server finished later.                          *)
AnswersStayTrue ==
  \A c \in Calls :
    /\ Delivered[c] = "ok" => c \in applied \/ Kind(c) \in {"get", "list"}
    /\ Delivered[c] \in {"notFound", "refused"} => c \notin applied

(* Every request that got a connection is answered: no await, row lock or  *)
(* failed ROLLBACK holds it for ever.                                      *)
Answered == \A c \in Calls : pc[c] = "begin" ~> pc[c] = "done"
===============================================================================
