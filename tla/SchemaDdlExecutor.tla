--------------------------- MODULE SchemaDdlExecutor ---------------------------
(***************************************************************************)
(* createSchemaDdlExecutor().execute(): every schema mutation runs on one  *)
(* pooled connection, in one transaction that takes the schema-DDL         *)
(* advisory lock, claims the idempotency key in the operation log, runs    *)
(* the sealed statements, marks the row succeeded and commits.             *)
(*                                                                         *)
(* Each await of the code is a point where other calls run, where the      *)
(* driver's query_timeout may fire while the server keeps executing the    *)
(* query, where the connection may break and where the process may die.    *)
(* A query the driver gave up on stays in flight: the server finishes it   *)
(* later, and what the client sends meanwhile on that connection queues    *)
(* behind it.  A queued query whose own timeout fires is never sent.       *)
(***************************************************************************)
EXTENDS PgSessions

CONSTANTS
  Requests,              \* what a call may ask: key, command and dryRun
  RollbackMayBeDropped,  \* may a queued ROLLBACK time out before it is sent
  MaxCrashes             \* bound on process deaths

ASSUME RequestsTyped ==
  Requests \subseteq [key : Keys, command : Commands, dryRun : BOOLEAN]
ASSUME DroppedIsBoolean == RollbackMayBeDropped \in BOOLEAN
ASSUME MaxCrashesIsNat == MaxCrashes \in Nat

VARIABLES
  request,   \* the request of each call
  pc,        \* where execute() stands: the query it awaits
  conn,      \* the connection it checked out, or None
  next,      \* the number of the plan statement it runs next
  reply,     \* its answer, delivered once pc is "done"
  pool,      \* per connection: "free", "idle", "held", "closing"
  inflight,  \* per connection: the abandoned query the server still runs
  crashes

callVars == <<pc, conn, next, reply>>
dbVars == <<sessionVars, lock, durableVars>>
vars == <<request, callVars, pool, inflight, crashes, dbVars>>

Ops == {"BEGIN", "READ", "LOCK", "CLAIM", "STATEMENT", "SUCCEED", "COMMIT", "ROLLBACK"}

Query == [op : Ops, call : Calls]

ASSUME NoneIsNotAQuery == None \notin Query

Points == {"idle", "begin", "lock", "claim", "run", "succeed", "reread", "commit",
           "rollback", "done"}

Replies == {"none", "executed", "replayed", "dryRun", "inProgress", "conflict", "error",
            "lost"}

TypeOK ==
  /\ DatabaseTypeOK
  /\ request \in [Calls -> Requests]
  /\ pc \in [Calls -> Points]
  /\ conn \in [Calls -> Conns \cup {None}]
  /\ next \in [Calls -> 1..NumStatements + 1]
  /\ reply \in [Calls -> Replies]
  /\ pool \in [Conns -> {"free", "idle", "held", "closing"}]
  /\ inflight \in [Conns -> Query \cup {None}]
  /\ crashes \in 0..MaxCrashes

Init ==
  /\ DatabaseInit
  /\ request \in [Calls -> Requests]
  /\ pc = [c \in Calls |-> "idle"]
  /\ conn = [c \in Calls |-> None]
  /\ next = [c \in Calls |-> 1]
  /\ reply = [c \in Calls |-> "none"]
  /\ pool = [x \in Conns |-> "free"]
  /\ inflight = [x \in Conns |-> None]
  /\ crashes = 0

-------------------------------------------------------------------------------
(* What the queries of a call do when the server executes them.            *)

Key(c) == request[c].key

Command(c) == request[c].command

DryRun(c) == request[c].dryRun

(* begin() of the operation log, seen from session x.                      *)
ClaimOutcome(x, c) ==
  IF VisibleRow(x, Key(c)) = None THEN "insert"
  ELSE Classify(VisibleRow(x, Key(c)), Command(c))

ClaimRow(x, c) ==
  \/ /\ ClaimOutcome(x, c) = "insert"
     /\ WriteRow(x, Key(c), RunningRecord(c, Command(c)))
  \/ /\ ClaimOutcome(x, c) = "restart"
     /\ WriteRow(x, Key(c), Restarted(VisibleRow(x, Key(c)), c))
  \/ /\ ClaimOutcome(x, c) \notin {"insert", "restart"}
     /\ UNCHANGED dbVars

(* SUCCEED_SQL: only a running row becomes succeeded.                      *)
SucceedRow(x, c) ==
  LET row == VisibleRow(x, Key(c)) IN
  IF row # None /\ row.status = "running"
    THEN WriteRow(x, Key(c), Finished(row, "succeeded"))
    ELSE UNCHANGED dbVars

Serve(x, query) ==
  LET c == query.call IN
  \/ query.op = "BEGIN" /\ BeginTx(x)
  \/ query.op = "READ" /\ UNCHANGED dbVars
  \/ query.op = "LOCK" /\ LockTx(x)
  \/ query.op = "CLAIM" /\ ClaimRow(x, c)
  \/ query.op = "STATEMENT" /\ RunStatementTx(x, <<c, next[c]>>)
  \/ query.op = "SUCCEED" /\ SucceedRow(x, c)
  \/ query.op = "COMMIT" /\ CommitTx(x)
  \/ query.op = "ROLLBACK" /\ RollbackTx(x)

(* The server refuses a query: the transaction is aborted, or for COMMIT   *)
(* over.  BEGIN only fails inside an aborted transaction.                  *)
Refuse(x, query) ==
  \/ query.op = "COMMIT" /\ RollbackTx(x)
  \/ query.op = "BEGIN" /\ txState[x] = "aborted" /\ AbortTx(x)
  \/ query.op \notin {"BEGIN", "COMMIT", "ROLLBACK"} /\ AbortTx(x)

-------------------------------------------------------------------------------
(* The steps of execute().                                                 *)

Goto(c, point) == pc' = [pc EXCEPT ![c] = point]

(* finally { client.release() }: the connection returns to the pool as it  *)
(* is, and the caller gets its answer.                                     *)
ReleaseWith(c, answer) ==
  /\ Goto(c, "done")
  /\ reply' = [reply EXCEPT ![c] = answer]
  /\ pool' = [pool EXCEPT ![conn[c]] = "idle"]
  /\ conn' = [conn EXCEPT ![c] = None]
  /\ UNCHANGED next

(* The paths that roll back before they release; the answer is settled.    *)
RollBackWith(c, answer) ==
  /\ Goto(c, "rollback")
  /\ reply' = [reply EXCEPT ![c] = answer]
  /\ UNCHANGED <<conn, next, pool>>

(* A query of call c is sent at once: nothing is in flight before it.      *)
Awaits(c, point) ==
  /\ pc[c] = point
  /\ inflight[conn[c]] = None

(* deps.pool.connect(): an idle connection, or a new one when none is idle. *)
Connect(c) ==
  /\ pc[c] = "idle"
  /\ \E x \in Conns :
       /\ \/ pool[x] = "idle"
          \/ pool[x] = "free" /\ \A y \in Conns : pool[y] # "idle"
       /\ pool' = [pool EXCEPT ![x] = "held"]
       /\ conn' = [conn EXCEPT ![c] = x]
  /\ Goto(c, "begin")
  /\ UNCHANGED <<request, next, reply, inflight, crashes, dbVars>>

(* The acquire timeout, or a database that cannot be reached.              *)
ConnectFails(c) ==
  /\ pc[c] = "idle"
  /\ Goto(c, "done")
  /\ reply' = [reply EXCEPT ![c] = "error"]
  /\ UNCHANGED <<request, conn, next, pool, inflight, crashes, dbVars>>

Begin(c) ==
  /\ Awaits(c, "begin")
  /\ BeginTx(conn[c])
  /\ Goto(c, "lock")
  /\ UNCHANGED <<request, conn, next, reply, pool, inflight, crashes>>

(* Faulty variant of Lock: the transaction goes on without the lock.       *)
LockSkipped(c) ==
  /\ Awaits(c, "lock")
  /\ Goto(c, IF DryRun(c) THEN "run" ELSE "claim")
  /\ UNCHANGED <<request, conn, next, reply, pool, inflight, crashes, dbVars>>

(* The session hardening and pg_advisory_xact_lock; a dry run then goes    *)
(* straight to its statements.                                             *)
Lock(c) ==
  /\ Awaits(c, "lock")
  /\ LockTx(conn[c])
  /\ Goto(c, IF DryRun(c) THEN "run" ELSE "claim")
  /\ UNCHANGED <<request, conn, next, reply, pool, inflight, crashes>>

(* operationLog.begin() and the branch on its outcome.                     *)
Claim(c) ==
  LET outcome == ClaimOutcome(conn[c], c) IN
  /\ Awaits(c, "claim")
  /\ ClaimRow(conn[c], c)
  /\ \/ /\ outcome \in {"insert", "restart"}
        /\ Goto(c, "run")
        /\ UNCHANGED <<conn, next, reply, pool>>
     \/ outcome = "replay" /\ RollBackWith(c, "replayed")
     \/ outcome = "in_progress" /\ RollBackWith(c, "inProgress")
     \/ outcome = "conflict" /\ RollBackWith(c, "conflict")
  /\ UNCHANGED <<request, inflight, crashes>>

(* The statement loop, one statement at a time.                            *)
RunStatement(c) ==
  /\ Awaits(c, "run")
  /\ next[c] <= NumStatements
  /\ RunStatementTx(conn[c], <<c, next[c]>>)
  /\ next' = [next EXCEPT ![c] = @ + 1]
  /\ UNCHANGED <<request, pc, conn, reply, pool, inflight, crashes>>

StatementsDoneUnmarked(c) ==
  /\ pc[c] = "run"
  /\ next[c] > NumStatements
  /\ IF DryRun(c)
       THEN RollBackWith(c, "dryRun")
       ELSE Goto(c, "commit") /\ UNCHANGED <<conn, next, reply, pool>>
  /\ UNCHANGED <<request, inflight, crashes, dbVars>>

(* Faulty variant of StatementsDone: the loop runs one statement too few.  *)
StatementsDoneEarly(c) ==
  /\ pc[c] = "run"
  /\ next[c] >= NumStatements
  /\ IF DryRun(c)
       THEN RollBackWith(c, "dryRun")
       ELSE Goto(c, "succeed") /\ UNCHANGED <<conn, next, reply, pool>>
  /\ UNCHANGED <<request, inflight, crashes, dbVars>>

(* The end of the statement loop: a dry run rolls back.                    *)
StatementsDone(c) ==
  /\ pc[c] = "run"
  /\ next[c] > NumStatements
  /\ IF DryRun(c)
       THEN RollBackWith(c, "dryRun")
       ELSE Goto(c, "succeed") /\ UNCHANGED <<conn, next, reply, pool>>
  /\ UNCHANGED <<request, inflight, crashes, dbVars>>

(* operationLog.succeed(): the guarded UPDATE, an error when it matches no *)
(* row, and then the row is read back.                                     *)
Succeed(c) ==
  LET row == VisibleRow(conn[c], Key(c)) IN
  /\ Awaits(c, "succeed")
  /\ SucceedRow(conn[c], c)
  /\ IF row # None /\ row.status = "running"
       THEN Goto(c, "reread") /\ UNCHANGED <<conn, next, reply, pool>>
       ELSE RollBackWith(c, "error")
  /\ UNCHANGED <<request, inflight, crashes>>

ReadBack(c) ==
  /\ Awaits(c, "reread")
  /\ Goto(c, "commit")
  /\ UNCHANGED <<request, conn, next, reply, pool, inflight, crashes, dbVars>>

Commit(c) ==
  /\ Awaits(c, "commit")
  /\ CommitTx(conn[c])
  /\ ReleaseWith(c, "executed")
  /\ UNCHANGED <<request, inflight, crashes>>

Rollback(c) ==
  /\ Awaits(c, "rollback")
  /\ RollbackTx(conn[c])
  /\ ReleaseWith(c, reply[c])
  /\ UNCHANGED <<request, inflight, crashes>>

-------------------------------------------------------------------------------
(* What may go wrong with a query a call awaits.                           *)

OpsAt(point) ==
  CASE point = "begin"   -> {"BEGIN"}
    [] point = "lock"    -> {"READ", "LOCK"}
    [] point = "claim"   -> {"READ", "CLAIM"}
    [] point = "run"     -> {"STATEMENT"}
    [] point = "succeed" -> {"SUCCEED"}
    [] point = "reread"  -> {"READ"}
    [] point = "commit"  -> {"COMMIT"}
    [] OTHER             -> {}

QueriesOf(c) ==
  IF pc[c] = "run" /\ next[c] > NumStatements THEN {}
  ELSE [op : OpsAt(pc[c]), call : {c}]

(* Lock timeouts and the driver's timeout answer "in progress" while the   *)
(* key is being claimed, 500 afterwards and in a dry run.                  *)
WaitConflict(c) ==
  IF pc[c] \in {"lock", "claim"} /\ ~DryRun(c) THEN "inProgress" ELSE "error"

(* Faulty variant of AfterFailure: the finally does not cover BEGIN.       *)
AfterFailureKeeping(c, answer) ==
  IF pc[c] = "begin"
    THEN Goto(c, "done") /\ reply' = [reply EXCEPT ![c] = answer] /\ UNCHANGED <<conn, next, pool>>
    ELSE RollBackWith(c, answer)

(* A failed BEGIN is outside the try that rolls back: it only releases.    *)
AfterFailure(c, answer) ==
  IF pc[c] = "begin" THEN ReleaseWith(c, answer) ELSE RollBackWith(c, answer)

QueryRefused(c) ==
  /\ \E query \in QueriesOf(c) :
       /\ inflight[conn[c]] = None
       /\ Refuse(conn[c], query)
  /\ \E answer \in {WaitConflict(c), "error"} : AfterFailure(c, answer)
  /\ UNCHANGED <<request, inflight, crashes>>

(* query_timeout fires.  The query was sent and stays in flight, or it was *)
(* still queued behind an older one and is dropped.                        *)
QueryTimesOut(c) ==
  /\ \E query \in QueriesOf(c) :
       inflight' = [inflight EXCEPT ![conn[c]] = IF @ = None THEN query ELSE @]
  /\ AfterFailure(c, WaitConflict(c))
  /\ UNCHANGED <<request, crashes, dbVars>>

(* rollbackQuietly ignores the failure of ROLLBACK; a dry run reports it.  *)
AfterFailedRollback(c) == IF DryRun(c) THEN "error" ELSE reply[c]

RollbackTimesOut(c) ==
  /\ Awaits(c, "rollback")
  /\ inflight' = [inflight EXCEPT ![conn[c]] = [op |-> "ROLLBACK", call |-> c]]
  /\ ReleaseWith(c, AfterFailedRollback(c))
  /\ UNCHANGED <<request, crashes, dbVars>>

RollbackDropped(c) ==
  /\ RollbackMayBeDropped
  /\ pc[c] = "rollback"
  /\ inflight[conn[c]] # None
  /\ ReleaseWith(c, AfterFailedRollback(c))
  /\ UNCHANGED <<request, inflight, crashes, dbVars>>

-------------------------------------------------------------------------------
(* The server, the connections and the process.                            *)

(* The server finishes a query its client gave up on.                      *)
FinishAbandoned(x) ==
  /\ inflight[x] # None
  /\ pool[x] # "closing"
  /\ Serve(x, inflight[x]) \/ Refuse(x, inflight[x])
  /\ inflight' = [inflight EXCEPT ![x] = None]
  /\ UNCHANGED <<request, callVars, pool, crashes>>

(* The pool's idle timeout closes a connection nobody uses.                *)
EvictIdle(x) ==
  /\ pool[x] = "idle"
  /\ pool' = [pool EXCEPT ![x] = "closing"]
  /\ UNCHANGED <<request, callVars, inflight, crashes, dbVars>>

(* A COMMIT the client was waiting for may have reached the server.        *)
SentCommit(c) == [op |-> "COMMIT", call |-> c]

(* A checked-out connection breaks: every query on it fails at once, and   *)
(* the pool discards it on release.                                        *)
Disconnect(c) ==
  /\ conn[c] # None
  /\ Goto(c, "done")
  /\ reply' = [reply EXCEPT ![c] =
                 IF pc[c] = "rollback" THEN AfterFailedRollback(c) ELSE "error"]
  /\ conn' = [conn EXCEPT ![c] = None]
  /\ pool' = [pool EXCEPT ![conn[c]] = "closing"]
  /\ inflight' = IF pc[c] = "commit"
                   THEN [inflight EXCEPT ![conn[c]] = SentCommit(c)]
                   ELSE inflight
  /\ UNCHANGED <<request, next, crashes, dbVars>>

(* The server notices that the client of a session is gone.  Only a COMMIT *)
(* already sent may still take effect.                                     *)
SessionEnds(x) ==
  /\ pool[x] = "closing"
  /\ \/ RollbackTx(x)
     \/ /\ inflight[x] # None
        /\ inflight[x].op = "COMMIT"
        /\ CommitTx(x)
  /\ inflight' = [inflight EXCEPT ![x] = None]
  /\ pool' = [pool EXCEPT ![x] = "free"]
  /\ UNCHANGED <<request, callVars, crashes>>

Running(c) == pc[c] \notin {"idle", "done"}

(* The process dies: every running call is lost, every connection breaks.  *)
Crash ==
  /\ crashes < MaxCrashes
  /\ crashes' = crashes + 1
  /\ pc' = [c \in Calls |-> IF Running(c) THEN "done" ELSE pc[c]]
  /\ reply' = [c \in Calls |-> IF Running(c) THEN "lost" ELSE reply[c]]
  /\ conn' = [c \in Calls |-> None]
  /\ pool' = [x \in Conns |-> IF pool[x] = "free" THEN "free" ELSE "closing"]
  /\ inflight' = [x \in Conns |->
                    IF \E c \in Calls : conn[c] = x /\ pc[c] = "commit"
                      THEN SentCommit(CHOOSE c \in Calls : conn[c] = x)
                      ELSE inflight[x]]
  /\ UNCHANGED <<request, next, dbVars>>

(* What execute() does by itself: a query returns, or a driver timer fires. *)
CallStep(c) ==
  \/ Begin(c) \/ Lock(c) \/ Claim(c)
  \/ RunStatement(c) \/ StatementsDone(c)
  \/ Succeed(c) \/ ReadBack(c) \/ Commit(c) \/ Rollback(c)
  \/ QueryRefused(c) \/ QueryTimesOut(c)
  \/ RollbackTimesOut(c) \/ RollbackDropped(c)

ServerStep(x) == FinishAbandoned(x) \/ EvictIdle(x) \/ SessionEnds(x)

Next ==
  \/ \E c \in Calls : Connect(c) \/ ConnectFails(c) \/ CallStep(c) \/ Disconnect(c)
  \/ \E x \in Conns : ServerStep(x)
  \/ Crash

Spec == Init /\ [][Next]_vars

(***************************************************************************)
(* Fairness.  Every await of a started call ends: the query returns, or    *)
(* the driver's query_timeout fires.  The server finishes what it runs     *)
(* unless that waits for the lock, cleans up after a broken connection,    *)
(* and the pool's idle timer fires.  Nothing makes a new request arrive, a *)
(* connection break or the process die.                                    *)
(***************************************************************************)
WaitsForLock(x) ==
  /\ inflight[x] # None
  /\ inflight[x].op = "LOCK"
  /\ lock \notin {None, x}

Fairness ==
  /\ \A c \in Calls : WF_vars(CallStep(c))
  /\ \A x \in Conns :
       /\ WF_vars(~WaitsForLock(x) /\ FinishAbandoned(x))
       /\ WF_vars(~WaitsForLock(x) /\ SessionEnds(x))
       /\ WF_vars(EvictIdle(x))

FairSpec == Spec /\ Fairness

-------------------------------------------------------------------------------
(***************************************************************************)
(* Properties.                                                             *)
(***************************************************************************)

(* No two calls that share an idempotency key ever both change the schema, *)
(* whatever is retried, timed out, dropped or leaked (the boundary that    *)
(* schema-operation-log.ts promises).                                      *)
AtMostOnce ==
  \A e, f \in schema :
    ~DryRun(e[1]) /\ ~DryRun(f[1]) /\ Key(e[1]) = Key(f[1]) => e[1] = f[1]

(* No failure ever leaves a durable 'running' key: what is committed has   *)
(* succeeded (the header of schema-ddl.ts, and the comment in execute()).  *)
NoDurableRunning ==
  \A k \in Keys : log[k] # None => log[k].status = "succeeded"

(* A dry run leaves the schema and the history as they were, whoever uses  *)
(* its connection afterwards.                                              *)
DryRunLeavesNothing ==
  /\ \A e \in schema : ~DryRun(e[1])
  /\ \A k \in Keys : log[k] # None => ~DryRun(log[k].by)

(* The advisory lock serializes writers: two sessions never both hold      *)
(* uncommitted changes, so nobody waits on another's history row.          *)
Writes(x) == txLog[x] # NoRows \/ txSchema[x] # {}

ExclusiveWriter ==
  \A x, y \in Conns : Writes(x) /\ Writes(y) => x = y

(* A row of the history is final: the key stays bound to its command and   *)
(* to the call that ran it.                                                *)
CommittedRowsAreFinal ==
  [][\A k \in Keys : log[k] # None => log'[k] = log[k]]_log

(* Nothing is kept for ever: every call ends and its connection goes back  *)
(* or is discarded, and the advisory lock is let go even where a dropped   *)
(* ROLLBACK left it with an idle connection, which the next borrower or    *)
(* the pool's idle timer ends (otherwise every later command starves).     *)
LockAndConnectionsComeBack ==
  \A x \in Conns : pool[x] = "held" \/ lock = x ~> pool[x] # "held" /\ lock # x

(***************************************************************************)
(* The executor implements IdempotentCommands, as long as no ROLLBACK is   *)
(* dropped: a key is bound by its committed row, and an answer is what a   *)
(* finished call was told.                                                 *)
(***************************************************************************)
Binding == [k \in Keys |->
  IF log[k] = None THEN None ELSE [command |-> log[k].command, by |-> log[k].by]]

ASSUME NoneIsNotABinding == None \notin [command : Commands, by : Calls]

Delivered == [c \in Calls |-> IF pc[c] = "done" THEN reply[c] ELSE "none"]

Promise == INSTANCE IdempotentCommands WITH
  bound <- Binding, applied <- schema, answer <- Delivered

(* Every behaviour of the executor is one the promise allows: bind once,   *)
(* take effect once and as a whole, answer truthfully.                     *)
KeepsPromise == Promise!Spec

(* The history and the schema tell the same story: every command on record *)
(* took effect with all its statements, and nothing else did, however the  *)
(* calls failed, were retried or lost their COMMIT (the header of          *)
(* schema-ddl.ts: history row, statements and succeeded update "commit or  *)
(* roll back together").                                                   *)
HistoryTellsTheSchema ==
  schema = {<<log[k].by, n>> : k \in {j \in Keys : log[j] # None}, n \in 1..NumStatements}

(* What a caller was told of its key stays true ever after: a command said *)
(* to have run is on record as its own, one replayed as the same command   *)
(* run by another call, and a conflict is with another command.            *)
AnswersStayTrue ==
  \A c \in Calls :
    LET row == log[Key(c)] IN
    /\ Delivered[c] = "executed" => row # None /\ row.by = c
    /\ Delivered[c] = "replayed" => row # None /\ row.by # c /\ row.command = Command(c)
    /\ Delivered[c] = "conflict" => row # None /\ row.command # Command(c)
    /\ Delivered[c] = "dryRun" => DryRun(c)
===============================================================================
