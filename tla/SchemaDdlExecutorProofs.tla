------------------------ MODULE SchemaDdlExecutorProofs ------------------------
(***************************************************************************)
(* Theorems about SchemaDdlExecutor, for every number of calls, keys,      *)
(* commands, connections, statements and crashes: its types, the writers'  *)
(* exclusion and at-most-once whether or not a ROLLBACK may be dropped;    *)
(* that rows are final; and, when no ROLLBACK is dropped, that nothing     *)
(* running is durable, that dry runs leave nothing and that the executor   *)
(* implements IdempotentCommands, from which follows that the schema is    *)
(* what the history tells and that answers stay true.                      *)
(*                                                                         *)
(* The argument: only the holder of the advisory lock writes, so at most   *)
(* one session has uncommitted rows; a call runs its statements only in a  *)
(* transaction that also wrote its row, for a key that had no committed    *)
(* row; and rows are never failed, so no key is claimed twice.             *)
(***************************************************************************)
EXTENDS SchemaDdlExecutor, TLAPS

(* The actions of a server or of one call that end, start or extend a      *)
(* transaction keep the database well-typed.                               *)
LEMMA EndTxType ==
  ASSUME DatabaseTypeOK, NEW x \in Conns, RollbackTx(x) \/ CommitTx(x)
  PROVE  DatabaseTypeOK'
<1>1. /\ txState' \in [Conns -> {"none", "open", "aborted"}]
      /\ txLog' \in [Conns -> [Keys -> Record \cup {None}]]
      /\ txSchema' \in [Conns -> SUBSET Effects]
      /\ lock' \in Conns \cup {None}
  BY DEF DatabaseTypeOK, RollbackTx, CommitTx, EndTx, NoRows
<1>2. log' \in [Keys -> Record \cup {None}]
  BY DEF DatabaseTypeOK, RollbackTx, CommitTx, VisibleRow, durableVars
<1>3. schema' \in SUBSET Effects
  BY DEF DatabaseTypeOK, RollbackTx, CommitTx, durableVars
<1> QED BY <1>1, <1>2, <1>3 DEF DatabaseTypeOK

LEMMA WriteRowType ==
  ASSUME DatabaseTypeOK, NEW x \in Conns, NEW k \in Keys, NEW row \in Record,
         WriteRow(x, k, row)
  PROVE  DatabaseTypeOK'
BY DEF DatabaseTypeOK, WriteRow, durableVars

LEMMA VisibleRowType ==
  ASSUME DatabaseTypeOK, NEW x \in Conns, NEW k \in Keys
  PROVE  VisibleRow(x, k) \in Record \cup {None}
BY DEF DatabaseTypeOK, VisibleRow

LEMMA RequestType ==
  ASSUME TypeOK, NEW c \in Calls
  PROVE  Key(c) \in Keys /\ Command(c) \in Commands /\ DryRun(c) \in BOOLEAN
BY RequestsTyped DEF TypeOK, Key, Command, DryRun

LEMMA UnchangedDb ==
  ASSUME DatabaseTypeOK, UNCHANGED dbVars
  PROVE  DatabaseTypeOK'
BY DEF DatabaseTypeOK, dbVars, sessionVars, durableVars

LEMMA ClaimRowType ==
  ASSUME TypeOK, NEW x \in Conns, NEW c \in Calls, ClaimRow(x, c)
  PROVE  DatabaseTypeOK'
<1> DEFINE row == VisibleRow(x, Key(c))
<1>1. DatabaseTypeOK /\ Key(c) \in Keys /\ Command(c) \in Commands
  BY RequestType DEF TypeOK
<1>2. CASE WriteRow(x, Key(c), RunningRecord(c, Command(c)))
  <2>1. RunningRecord(c, Command(c)) \in Record
    BY <1>1 DEF RunningRecord, Record, Status
  <2> QED BY <1>1, <1>2, <2>1, WriteRowType
<1>3. CASE ClaimOutcome(x, c) = "restart" /\ WriteRow(x, Key(c), Restarted(row, c))
  <2>1. row \in Record
    BY <1>1, <1>3, VisibleRowType DEF ClaimOutcome
  <2>2. Restarted(row, c) \in Record
    BY <2>1 DEF Restarted, Record, Status
  <2> QED BY <1>1, <1>3, <2>2, WriteRowType
<1>4. CASE UNCHANGED dbVars
  BY <1>1, <1>4, UnchangedDb
<1> QED BY <1>2, <1>3, <1>4 DEF ClaimRow

LEMMA SucceedRowType ==
  ASSUME TypeOK, NEW x \in Conns, NEW c \in Calls, SucceedRow(x, c)
  PROVE  DatabaseTypeOK'
<1> DEFINE row == VisibleRow(x, Key(c))
<1>1. DatabaseTypeOK /\ Key(c) \in Keys
  BY RequestType DEF TypeOK
<1>2. CASE row # None /\ WriteRow(x, Key(c), Finished(row, "succeeded"))
  <2>1. Finished(row, "succeeded") \in Record
    BY <1>1, <1>2, VisibleRowType DEF Finished, Record, Status
  <2> QED BY <1>1, <1>2, <2>1, WriteRowType
<1>3. CASE UNCHANGED dbVars
  BY <1>1, <1>3, UnchangedDb
<1> QED BY <1>2, <1>3 DEF SucceedRow

LEMMA StatementType ==
  ASSUME DatabaseTypeOK, NEW x \in Conns, NEW e \in Effects, RunStatementTx(x, e)
  PROVE  DatabaseTypeOK'
BY DEF DatabaseTypeOK, RunStatementTx, durableVars

LEMMA SmallTxType ==
  ASSUME DatabaseTypeOK, NEW x \in Conns, BeginTx(x) \/ LockTx(x) \/ AbortTx(x)
  PROVE  DatabaseTypeOK'
BY DEF DatabaseTypeOK, BeginTx, LockTx, AbortTx, sessionVars, durableVars

LEMMA RefuseType ==
  ASSUME DatabaseTypeOK, NEW x \in Conns, NEW query \in Query, Refuse(x, query)
  PROVE  DatabaseTypeOK'
BY EndTxType, SmallTxType DEF Refuse

-------------------------------------------------------------------------------
(***************************************************************************)
(* Who holds which connection, and what an abandoned query may be.         *)
(***************************************************************************)
ConnInv ==
  /\ \A c \in Calls : Running(c) <=> conn[c] # None
  /\ \A c \in Calls : conn[c] # None => pool[conn[c]] = "held"
  /\ \A c, d \in Calls : conn[c] # None /\ conn[c] = conn[d] => c = d

AbandonedInv ==
  \A x \in Conns : inflight[x] # None =>
    /\ pc[inflight[x].call] \in {"rollback", "done"}
    /\ inflight[x].op = "STATEMENT" => next[inflight[x].call] <= NumStatements

ControlInv == TypeOK /\ ConnInv /\ AbandonedInv

(* The call, pool and abandoned-query part of the type invariant.          *)
ControlType ==
  /\ request \in [Calls -> Requests]
  /\ pc \in [Calls -> Points]
  /\ conn \in [Calls -> Conns \cup {None}]
  /\ next \in [Calls -> 1..NumStatements + 1]
  /\ reply \in [Calls -> Replies]
  /\ pool \in [Conns -> {"free", "idle", "held", "closing"}]
  /\ inflight \in [Conns -> Query \cup {None}]
  /\ crashes \in 0..MaxCrashes

LEMMA TypeParts == TypeOK <=> DatabaseTypeOK /\ ControlType
BY DEF TypeOK, ControlType

LEMMA HeldConn ==
  ASSUME ControlInv, NEW c \in Calls, Running(c)
  PROVE  conn[c] \in Conns /\ pool[conn[c]] = "held"
BY DEF ControlInv, ConnInv, TypeOK

(* Every step of the database variables is one of the typed operations.    *)
LEMMA DatabaseStep ==
  ASSUME ControlInv, [Next]_vars
  PROVE  DatabaseTypeOK'
<1> USE DEF ControlInv
<1>1. DatabaseTypeOK
  BY DEF TypeOK
<1>2. ASSUME NEW c \in Calls, Connect(c) \/ ConnectFails(c) \/ CallStep(c) \/ Disconnect(c)
      PROVE  DatabaseTypeOK'
  <2>1. CASE UNCHANGED dbVars
    BY <1>1, <2>1, UnchangedDb
  <2>2. CASE Running(c)
    <3>1. conn[c] \in Conns
      BY <2>2, HeldConn
    <3>2. CASE Begin(c)
      BY <1>1, <3>1, <3>2, SmallTxType DEF Begin
    <3>3. CASE Lock(c)
      BY <1>1, <3>1, <3>3, SmallTxType DEF Lock
    <3>4. CASE Claim(c)
      BY <3>1, <3>4, ClaimRowType DEF Claim
    <3>5. CASE RunStatement(c)
      <4>1. next[c] \in 1..NumStatements
        BY <3>5, NumStatementsPositive DEF RunStatement, TypeOK
      <4>2. <<c, next[c]>> \in Effects
        BY <4>1 DEF Effects
      <4> QED BY <1>1, <3>1, <3>5, <4>2, StatementType DEF RunStatement
    <3>6. CASE Succeed(c)
      BY <3>1, <3>6, SucceedRowType DEF Succeed
    <3>7. CASE Commit(c) \/ Rollback(c)
      BY <1>1, <3>1, <3>7, EndTxType DEF Commit, Rollback
    <3>8. CASE QueryRefused(c)
      <4>1. PICK query \in QueriesOf(c) : Refuse(conn[c], query)
        BY <3>8 DEF QueryRefused
      <4>2. query \in Query
        BY <4>1 DEF QueriesOf, OpsAt, Query, Ops
      <4> QED BY <1>1, <3>1, <4>1, <4>2, RefuseType
    <3> QED BY <1>2, <2>1, <3>2, <3>3, <3>4, <3>5, <3>6, <3>7, <3>8
            DEF CallStep, Connect, ConnectFails, Disconnect, StatementsDone, ReadBack,
                QueryTimesOut, RollbackTimesOut, RollbackDropped
  <2>3. CASE ~Running(c)
    BY <1>2, <2>1, <2>3, HeldConn
       DEF CallStep, Connect, ConnectFails, Disconnect, Begin, Lock, Claim, RunStatement,
           StatementsDone, Succeed, ReadBack, Commit, Rollback, QueryRefused, QueryTimesOut,
           RollbackTimesOut, RollbackDropped, Awaits, QueriesOf, OpsAt, Running, ConnInv
  <2> QED BY <2>2, <2>3
<1>3. ASSUME NEW x \in Conns, ServerStep(x)
      PROVE  DatabaseTypeOK'
  <2>1. CASE FinishAbandoned(x)
    <3>1. inflight[x] \in Query
      BY <2>1 DEF FinishAbandoned, TypeOK
    <3>2. CASE Refuse(x, inflight[x])
      BY <1>1, <3>1, <3>2, RefuseType
    <3>3. CASE Serve(x, inflight[x])
      <4> DEFINE c == inflight[x].call
      <4>1. c \in Calls
        BY <3>1 DEF Query
      <4>2. inflight[x].op = "STATEMENT" => <<c, next[c]>> \in Effects
        <5>1. inflight[x].op = "STATEMENT" => next[c] <= NumStatements
          BY <2>1 DEF FinishAbandoned, AbandonedInv
        <5>2. next[c] \in 1..NumStatements + 1
          BY <4>1 DEF TypeOK
        <5> QED BY <4>1, <5>1, <5>2, NumStatementsPositive DEF Effects
      <4>3. CASE BeginTx(x) \/ LockTx(x)
        BY <1>1, <4>3, SmallTxType
      <4>4. CASE UNCHANGED dbVars
        BY <1>1, <4>4, UnchangedDb
      <4>5. CASE ClaimRow(x, c)
        BY <4>1, <4>5, ClaimRowType
      <4>6. CASE SucceedRow(x, c)
        BY <4>1, <4>6, SucceedRowType
      <4>7. CASE inflight[x].op = "STATEMENT" /\ RunStatementTx(x, <<c, next[c]>>)
        BY <1>1, <4>2, <4>7, StatementType
      <4>8. CASE CommitTx(x) \/ RollbackTx(x)
        BY <1>1, <4>8, EndTxType
      <4> QED BY <3>3, <4>3, <4>4, <4>5, <4>6, <4>7, <4>8 DEF Serve
    <3> QED BY <2>1, <3>2, <3>3 DEF FinishAbandoned
  <2>2. CASE EvictIdle(x)
    BY <1>1, <2>2, UnchangedDb DEF EvictIdle
  <2>3. CASE SessionEnds(x)
    BY <1>1, <2>3, EndTxType DEF SessionEnds
  <2> QED BY <1>3, <2>1, <2>2, <2>3 DEF ServerStep
<1>4. CASE Crash
  BY <1>1, <1>4, UnchangedDb DEF Crash
<1>5. CASE UNCHANGED vars
  BY <1>1, <1>5, UnchangedDb DEF vars
<1> QED BY <1>2, <1>3, <1>4, <1>5 DEF Next

(* What a step of call c does to the variables of the calls and the pool:  *)
(* c keeps its connection, or gives it back, or ends without one.          *)
LEMMA CallStepControl ==
  ASSUME ControlInv, NEW c \in Calls, CallStep(c)
  PROVE  /\ Running(c)
         /\ UNCHANGED <<request, crashes>>
         /\ \E point \in Points : pc' = [pc EXCEPT ![c] = point] /\ point # "idle"
         /\ \E answer \in Replies : reply' = [reply EXCEPT ![c] = answer]
         /\ \/ next' = next
            \/ pc[c] = "run" /\ inflight' = inflight /\ next[c] <= NumStatements
               /\ next' = [next EXCEPT ![c] = @ + 1]
         /\ \/ pc'[c] # "done" /\ UNCHANGED <<conn, pool>>
            \/ /\ pc'[c] = "done"
               /\ conn' = [conn EXCEPT ![c] = None]
               /\ pool' = [pool EXCEPT ![conn[c]] = "idle"]
         /\ \/ UNCHANGED inflight
            \/ /\ pc'[c] \in {"rollback", "done"}
               /\ \E query \in Query :
                    /\ query.call = c
                    /\ query.op = "STATEMENT" => next[c] <= NumStatements
                    /\ next' = next
                    /\ inflight' = [inflight EXCEPT ![conn[c]] = query]
<1> USE DEF Goto, Points, Replies, Running, ControlInv
<1>t. pc \in [Calls -> Points] /\ reply \in [Calls -> Replies] /\ conn[c] \in Conns \cup {None}
      /\ inflight \in [Conns -> Query \cup {None}] /\ reply[c] \in Replies
      /\ next[c] \in 1..NumStatements + 1
  BY DEF TypeOK
<1>1. CASE Begin(c)
  BY <1>t, <1>1 DEF Begin, Awaits
<1>2. CASE Lock(c)
  BY <1>t, <1>2 DEF Lock, Awaits
<1>3. CASE Claim(c)
  BY <1>t, <1>3 DEF Claim, Awaits, RollBackWith
<1>4. CASE RunStatement(c)
  <2>1. reply' = [reply EXCEPT ![c] = reply[c]] /\ pc' = [pc EXCEPT ![c] = pc[c]]
    BY <1>t, <1>4 DEF RunStatement
  <2> QED BY <1>t, <1>4, <2>1 DEF RunStatement, Awaits
<1>5. CASE StatementsDone(c)
  BY <1>t, <1>5 DEF StatementsDone, RollBackWith
<1>6. CASE Succeed(c)
  BY <1>t, <1>6 DEF Succeed, Awaits, RollBackWith
<1>7. CASE ReadBack(c)
  BY <1>t, <1>7 DEF ReadBack, Awaits
<1>8. CASE Commit(c)
  BY <1>t, <1>8 DEF Commit, Awaits, ReleaseWith
<1>9. CASE Rollback(c)
  BY <1>t, <1>9 DEF Rollback, Awaits, ReleaseWith
<1>10. CASE QueryRefused(c)
  <2>1. pc[c] \notin {"idle", "done", "rollback"}
    BY <1>10 DEF QueryRefused, QueriesOf, OpsAt
  <2> QED BY <1>t, <1>10, <2>1 DEF QueryRefused, AfterFailure, ReleaseWith, RollBackWith, WaitConflict
<1>11. CASE QueryTimesOut(c)
  <2>1. PICK query \in QueriesOf(c) :
          inflight' = [inflight EXCEPT ![conn[c]] = IF @ = None THEN query ELSE @]
    BY <1>11 DEF QueryTimesOut
  <2>2. pc[c] \notin {"idle", "done", "rollback"}
    BY <2>1 DEF QueriesOf, OpsAt
  <2>3. query \in Query /\ query.call = c /\ (query.op = "STATEMENT" => next[c] <= NumStatements)
    BY <1>t, <2>1, NumStatementsPositive DEF QueriesOf, OpsAt, Query, Ops
  <2>4. conn[c] \in Conns
    BY <2>2, HeldConn
  <2>5. inflight' = inflight \/ inflight' = [inflight EXCEPT ![conn[c]] = query]
    BY <1>t, <2>1, <2>4
  <2>6. next' = next
    BY <1>11 DEF QueryTimesOut, AfterFailure, ReleaseWith, RollBackWith
  <2>7. /\ pc'[c] \in {"rollback", "done"}
        /\ \/ pc'[c] # "done" /\ UNCHANGED <<conn, pool>>
           \/ /\ pc'[c] = "done"
              /\ conn' = [conn EXCEPT ![c] = None]
              /\ pool' = [pool EXCEPT ![conn[c]] = "idle"]
        /\ \E point \in Points : pc' = [pc EXCEPT ![c] = point] /\ point # "idle"
        /\ \E answer \in Replies : reply' = [reply EXCEPT ![c] = answer]
    BY <1>t, <1>11 DEF QueryTimesOut, AfterFailure, ReleaseWith, RollBackWith, WaitConflict
  <2> QED BY <1>11, <2>2, <2>3, <2>5, <2>6, <2>7 DEF QueryTimesOut
<1>12. CASE RollbackTimesOut(c)
  <2>1. [op |-> "ROLLBACK", call |-> c] \in Query
    BY DEF Query, Ops
  <2> QED BY <1>t, <1>12, <2>1 DEF RollbackTimesOut, Awaits, ReleaseWith, AfterFailedRollback
<1>13. CASE RollbackDropped(c)
  BY <1>t, <1>13 DEF RollbackDropped, ReleaseWith, AfterFailedRollback
<1> QED BY <1>1, <1>2, <1>3, <1>4, <1>5, <1>6, <1>7, <1>8, <1>9, <1>10, <1>11, <1>12, <1>13
        DEF CallStep

LEMMA SentCommitType ==
  ASSUME NEW c \in Calls
  PROVE  SentCommit(c) \in Query /\ SentCommit(c).call = c /\ SentCommit(c).op = "COMMIT"
BY DEF SentCommit, Query, Ops

LEMMA ControlStep ==
  ASSUME ControlInv, [Next]_vars
  PROVE  ControlType' /\ ConnInv' /\ AbandonedInv'
<1> USE DEF ControlInv, ControlType
<1>0. ControlType
  BY DEF TypeOK
<1>1. ASSUME NEW c \in Calls, Connect(c)
      PROVE  ControlType' /\ ConnInv' /\ AbandonedInv'
  <2>1. PICK x \in Conns : /\ pool[x] \in {"idle", "free"}
                          /\ pool' = [pool EXCEPT ![x] = "held"]
                          /\ conn' = [conn EXCEPT ![c] = x]
    BY <1>1 DEF Connect
  <2>2. pc' = [pc EXCEPT ![c] = "begin"] /\ pc[c] = "idle"
        /\ UNCHANGED <<request, next, reply, inflight, crashes>>
    BY <1>1 DEF Connect, Goto
  <2>3. ControlType'
    BY <1>0, <2>1, <2>2 DEF Points
  <2>4. ConnInv'
    BY <1>0, <2>1, <2>2, NoneIsNotAConn DEF ConnInv, Running
  <2>5. AbandonedInv'
    BY <1>0, <2>2 DEF AbandonedInv, Query
  <2> QED BY <2>3, <2>4, <2>5
<1>2. ASSUME NEW c \in Calls, ConnectFails(c)
      PROVE  ControlType' /\ ConnInv' /\ AbandonedInv'
  <2>1. ControlType'
    BY <1>0, <1>2 DEF ConnectFails, Goto, Points, Replies
  <2>2. ConnInv'
    BY <1>0, <1>2 DEF ConnectFails, Goto, ConnInv, Running
  <2>3. AbandonedInv'
    BY <1>0, <1>2 DEF ConnectFails, Goto, AbandonedInv, Query
  <2> QED BY <2>1, <2>2, <2>3
<1>3. ASSUME NEW c \in Calls, CallStep(c)
      PROVE  ControlType' /\ ConnInv' /\ AbandonedInv'
  <2>1. Running(c) /\ conn[c] \in Conns /\ pool[conn[c]] = "held"
    BY <1>3, CallStepControl, HeldConn
  <2>2. ControlType'
    <3>1. next' \in [Calls -> 1..NumStatements + 1]
      BY <1>0, <1>3, CallStepControl, NumStatementsPositive
    <3>2. inflight' \in [Conns -> Query \cup {None}]
      BY <1>0, <1>3, CallStepControl
    <3>3. pc' \in [Calls -> Points] /\ reply' \in [Calls -> Replies]
          /\ conn' \in [Calls -> Conns \cup {None}]
          /\ pool' \in [Conns -> {"free", "idle", "held", "closing"}]
          /\ UNCHANGED <<request, crashes>>
      BY <1>0, <1>3, CallStepControl
    <3> QED BY <1>0, <3>1, <3>2, <3>3
  <2>3. ConnInv'
    BY <1>0, <1>3, <2>1, CallStepControl DEF ConnInv, Running, Points
  <2>4. AbandonedInv'
    <3> SUFFICES ASSUME NEW y \in Conns, inflight'[y] # None
                 PROVE  /\ pc'[inflight'[y].call] \in {"rollback", "done"}
                        /\ inflight'[y].op = "STATEMENT"
                              => next'[inflight'[y].call] <= NumStatements
      BY DEF AbandonedInv
    <3>1. CASE inflight'[y] = inflight[y]
      <4>1. inflight[y].call \in Calls
        BY <1>0, <3>1 DEF Query
      <4>2. pc[inflight[y].call] \in {"rollback", "done"}
            /\ (inflight[y].op = "STATEMENT" => next[inflight[y].call] <= NumStatements)
        BY <3>1 DEF AbandonedInv
      <4>3. next'[inflight[y].call] = next[inflight[y].call]
        BY <1>0, <1>3, <4>1, <4>2, CallStepControl
      <4>4. pc'[inflight[y].call] \in {"rollback", "done"}
        <5>1. CASE inflight[y].call # c
          BY <1>0, <1>3, <4>1, <4>2, <5>1, CallStepControl
        <5>2. CASE inflight[y].call = c
          <6>1. pc[c] = "rollback"
            BY <2>1, <4>2, <5>2 DEF Running
          <6>2. pc'[c] = "done"
            BY <1>0, <1>3, <6>1
               DEF CallStep, Begin, Lock, Claim, RunStatement, StatementsDone, Succeed, ReadBack,
                   Commit, Rollback, QueryRefused, QueryTimesOut, RollbackTimesOut,
                   RollbackDropped, Awaits, QueriesOf, OpsAt, ReleaseWith, Goto
          <6> QED BY <5>2, <6>2
        <5> QED BY <5>1, <5>2
      <4> QED BY <3>1, <4>2, <4>3, <4>4
    <3>2. CASE inflight'[y] # inflight[y]
      BY <1>0, <1>3, <2>1, <3>2, CallStepControl
    <3> QED BY <3>1, <3>2
  <2> QED BY <2>2, <2>3, <2>4
<1>4. ASSUME NEW c \in Calls, Disconnect(c)
      PROVE  ControlType' /\ ConnInv' /\ AbandonedInv'
  <2>1. Running(c) /\ conn[c] \in Conns
    BY <1>0, <1>4 DEF Disconnect, ConnInv
  <2>2. inflight' = inflight \/ inflight' = [inflight EXCEPT ![conn[c]] = SentCommit(c)]
    BY <1>4 DEF Disconnect
  <2>3. pc' = [pc EXCEPT ![c] = "done"] /\ conn' = [conn EXCEPT ![c] = None]
        /\ pool' = [pool EXCEPT ![conn[c]] = "closing"] /\ UNCHANGED <<request, next, crashes>>
    BY <1>4 DEF Disconnect, Goto
  <2>4. ControlType'
    <3>1. reply' \in [Calls -> Replies]
      BY <1>0, <1>4 DEF Disconnect, AfterFailedRollback, Replies
    <3>2. inflight' \in [Conns -> Query \cup {None}]
      BY <1>0, <2>2, SentCommitType
    <3> QED BY <1>0, <2>3, <3>1, <3>2 DEF Points
  <2>5. ConnInv'
    BY <1>0, <2>1, <2>3 DEF ConnInv, Running
  <2>6. AbandonedInv'
    <3> SUFFICES ASSUME NEW y \in Conns, inflight'[y] # None
                 PROVE  /\ pc'[inflight'[y].call] \in {"rollback", "done"}
                        /\ inflight'[y].op = "STATEMENT"
                              => next'[inflight'[y].call] <= NumStatements
      BY DEF AbandonedInv
    <3>1. CASE inflight'[y] = inflight[y]
      BY <1>0, <2>3, <3>1 DEF AbandonedInv, Query
    <3>2. CASE inflight'[y] = SentCommit(c)
      BY <1>0, <2>3, <3>2, SentCommitType
    <3> QED BY <1>0, <2>1, <2>2, <3>1, <3>2
  <2> QED BY <2>4, <2>5, <2>6
<1>5. ASSUME NEW x \in Conns, ServerStep(x)
      PROVE  ControlType' /\ ConnInv' /\ AbandonedInv'
  <2>1. /\ UNCHANGED <<request, pc, conn, next, reply, crashes>>
        /\ inflight' = inflight \/ inflight' = [inflight EXCEPT ![x] = None]
        /\ \/ pool' = pool
           \/ pool[x] # "held" /\ \E s \in {"closing", "free"} : pool' = [pool EXCEPT ![x] = s]
    BY <1>0, <1>5 DEF ServerStep, FinishAbandoned, EvictIdle, SessionEnds, callVars
  <2>2. ControlType'
    BY <1>0, <2>1
  <2>3. ConnInv'
    BY <1>0, <2>1 DEF ConnInv, Running
  <2>4. AbandonedInv'
    BY <1>0, <2>1 DEF AbandonedInv
  <2> QED BY <2>2, <2>3, <2>4
<1>6. CASE Crash
  <2>1. /\ pc' = [c \in Calls |-> IF Running(c) THEN "done" ELSE pc[c]]
        /\ conn' = [c \in Calls |-> None]
        /\ UNCHANGED <<request, next>>
    BY <1>6 DEF Crash
  <2>2. \A y \in Conns : \/ inflight'[y] = inflight[y]
                         \/ \E c \in Calls : Running(c) /\ inflight'[y] = SentCommit(c)
    <3> SUFFICES ASSUME NEW y \in Conns, inflight'[y] # inflight[y]
                 PROVE  \E c \in Calls : Running(c) /\ inflight'[y] = SentCommit(c)
      OBVIOUS
    <3>1. /\ \E c \in Calls : conn[c] = y
          /\ inflight'[y] = SentCommit(CHOOSE c \in Calls : conn[c] = y)
      BY <1>6 DEF Crash
    <3>2. PICK c \in Calls : conn[c] = y /\ inflight'[y] = SentCommit(c)
      BY <3>1
    <3>3. Running(c)
      BY <3>2, NoneIsNotAConn DEF ConnInv
    <3> QED BY <3>2, <3>3
  <2>3. ControlType'
    <3>1. pc' \in [Calls -> Points] /\ reply' \in [Calls -> Replies]
          /\ crashes' \in 0..MaxCrashes
      BY <1>0, <1>6, MaxCrashesIsNat DEF Crash, Points, Replies
    <3>2. inflight' \in [Conns -> Query \cup {None}]
      <4>1. inflight' = [y \in Conns |-> inflight'[y]]
        BY <1>6 DEF Crash
      <4>2. \A y \in Conns : inflight'[y] \in Query \cup {None}
        BY <1>0, <2>2, SentCommitType
      <4> HIDE DEF ControlType
      <4> QED BY <4>1, <4>2
    <3>3. pool' \in [Conns -> {"free", "idle", "held", "closing"}]
      BY <1>0, <1>6 DEF Crash
    <3> QED BY <1>0, <2>1, <3>1, <3>2, <3>3
  <2>4. ConnInv'
    BY <1>0, <2>1 DEF ConnInv, Running
  <2>5. AbandonedInv'
    <3> SUFFICES ASSUME NEW y \in Conns, inflight'[y] # None
                 PROVE  /\ pc'[inflight'[y].call] \in {"rollback", "done"}
                        /\ inflight'[y].op = "STATEMENT"
                              => next'[inflight'[y].call] <= NumStatements
      BY DEF AbandonedInv
    <3>1. CASE inflight'[y] = inflight[y]
      BY <1>0, <2>1, <3>1 DEF AbandonedInv, Query, Running
    <3>2. ASSUME NEW c \in Calls, Running(c), inflight'[y] = SentCommit(c)
          PROVE  pc'[c] = "done" /\ inflight'[y].call = c /\ inflight'[y].op = "COMMIT"
      BY <2>1, <3>2, SentCommitType
    <3> QED BY <2>2, <3>1, <3>2
  <2> QED BY <2>3, <2>4, <2>5
<1>7. CASE UNCHANGED vars
  BY <1>0, <1>7 DEF vars, callVars, ConnInv, AbandonedInv, Running
<1> QED BY <1>1, <1>2, <1>3, <1>4, <1>5, <1>6, <1>7 DEF Next

(* Every variable of the executor keeps its type.                          *)
THEOREM ExecutorTypeCorrect == Spec => []TypeOK
<1>1. Init => ControlInv
  BY NumStatementsPositive, MaxCrashesIsNat
     DEF Init, DatabaseInit, ControlInv, TypeOK, DatabaseTypeOK, ConnInv, AbandonedInv, Running,
         Points, Replies, NoRows
<1>2. ControlInv /\ [Next]_vars => ControlInv'
  BY DatabaseStep, ControlStep, TypeParts DEF ControlInv, TypeOK, ControlType, DatabaseTypeOK
<1> QED BY <1>1, <1>2, PTL DEF Spec, ControlInv

-------------------------------------------------------------------------------
(* Safety: the writers, the rows, the effects.                             *)

(* The row of call c is among the uncommitted rows of session x.           *)
Owns(x, c) == txLog[x][Key(c)] # None /\ txLog[x][Key(c)].by = c

(* What the database holds.                                                *)
RowsInv ==
  /\ \A k \in Keys : log[k] # None => log[k].status # "failed"
  /\ \A x \in Conns, k \in Keys :
       txLog[x][k] # None => log[k] = None /\ txLog[x][k].status # "failed"

EffectsInv ==
  /\ \A x \in Conns : \A e \in txSchema[x] : ~DryRun(e[1]) => Owns(x, e[1])
  /\ \A e \in schema : ~DryRun(e[1]) => log[Key(e[1])] # None /\ log[Key(e[1])].by = e[1]

WriterInv == \A x \in Conns : Writes(x) => lock = x

DataInv == RowsInv /\ EffectsInv /\ WriterInv

(* What makes it safe for session x to execute a query.                    *)
Safe(x, query) ==
  LET c == query.call IN
  /\ query.op \in {"CLAIM", "STATEMENT", "SUCCEED"} => lock = x
  /\ query.op \in {"CLAIM", "SUCCEED"} => ~DryRun(c)
  /\ query.op \in {"STATEMENT", "SUCCEED"} /\ ~DryRun(c) => Owns(x, c)

Locked == {"claim", "run", "succeed", "reread", "commit"}

(* What the calls and the abandoned queries rely on.                       *)
CallInv ==
  \A c \in Calls :
    /\ pc[c] \in Locked \cup {"lock"} => inflight[conn[c]] = None
    /\ pc[c] \in Locked => lock = conn[c]
    /\ pc[c] \in Locked \ {"run"} => ~DryRun(c)
    /\ pc[c] \in Locked \ {"claim"} /\ ~DryRun(c) => Owns(conn[c], c)

FlightInv == \A x \in Conns : inflight[x] # None => Safe(x, inflight[x])

SafeInv == ControlInv /\ DataInv /\ CallInv /\ FlightInv

-------------------------------------------------------------------------------
(* The database operations.                                                *)

(* Session x does something; the others keep their rows and their lock.    *)
Frame(x) ==
  \A y \in Conns \ {x} :
    txLog'[y] = txLog[y] /\ txSchema'[y] = txSchema[y] /\ (lock = y => lock' = y)

(* Session x goes on with its transaction.                                 *)
GoesOn(x) ==
  /\ lock = x => lock' = x
  /\ \A c \in Calls : Owns(x, c) => Owns(x, c)'

LEMMA KeyKept ==
  ASSUME request' = request
  PROVE  \A c \in Calls : Key(c)' = Key(c) /\ Command(c)' = Command(c) /\ DryRun(c)' = DryRun(c)
BY DEF Key, Command, DryRun

(* Two sessions never both hold rows or effects.                           *)
LEMMA OneWriter ==
  ASSUME WriterInv, NEW x \in Conns, NEW y \in Conns, Writes(x), Writes(y)
  PROVE  x = y
BY DEF WriterInv

LEMMA RowMeansWriting ==
  ASSUME NEW x \in Conns, NEW k \in Keys, txLog[x][k] # None
  PROVE  Writes(x)
BY DEF Writes, NoRows

(* A rollback forgets what the session wrote.                              *)
LEMMA RollbackSafe ==
  ASSUME TypeOK, DataInv, request' = request, NEW x \in Conns, RollbackTx(x)
  PROVE  DataInv' /\ Frame(x)
<1> USE DEF TypeOK, DatabaseTypeOK
<1>1. /\ txLog'[x] = NoRows /\ txSchema'[x] = {} /\ log' = log /\ schema' = schema
      /\ \A y \in Conns \ {x} : txLog'[y] = txLog[y] /\ txSchema'[y] = txSchema[y]
      /\ lock' = IF lock = x THEN None ELSE lock
  BY DEF RollbackTx, EndTx, durableVars
<1>2. \A k \in Keys : NoRows[k] = None
  BY DEF NoRows
<1>3. Frame(x)
  BY <1>1 DEF Frame
<1>4. RowsInv'
  BY <1>1, <1>2 DEF DataInv, RowsInv
<1>5. EffectsInv'
  <2>1. \A y \in Conns : \A e \in txSchema'[y] : e[1] \in Calls /\ y # x /\ e \in txSchema[y]
    BY <1>1 DEF Effects
  <2>2. \A e \in schema' : e[1] \in Calls /\ e \in schema
    BY <1>1 DEF Effects
  <2> QED BY <1>1, <2>1, <2>2, KeyKept DEF DataInv, EffectsInv, Owns
<1>6. WriterInv'
  BY <1>1 DEF DataInv, WriterInv, Writes
<1> QED BY <1>3, <1>4, <1>5, <1>6 DEF DataInv

(* A commit moves the session's rows and effects together.                 *)
LEMMA CommitSafe ==
  ASSUME TypeOK, DataInv, request' = request, NEW x \in Conns, CommitTx(x)
  PROVE  DataInv' /\ Frame(x)
<1> USE DEF TypeOK, DatabaseTypeOK
<1>1. CASE txState[x] # "open"
  BY <1>1, RollbackSafe DEF CommitTx, RollbackTx
<1>2. CASE txState[x] = "open"
  <2>1. /\ txLog'[x] = NoRows /\ txSchema'[x] = {}
        /\ log' = [k \in Keys |-> VisibleRow(x, k)] /\ schema' = schema \cup txSchema[x]
        /\ \A y \in Conns \ {x} : txLog'[y] = txLog[y] /\ txSchema'[y] = txSchema[y]
        /\ lock' = IF lock = x THEN None ELSE lock
    BY <1>2 DEF CommitTx, EndTx
  <2>2. \A k \in Keys : NoRows[k] = None
    BY DEF NoRows
  <2>3. Frame(x)
    BY <2>1 DEF Frame
  <2>4. \A y \in Conns, k \in Keys : txLog'[y][k] # None => txLog[x][k] = None
    BY <2>1, <2>2, OneWriter, RowMeansWriting DEF DataInv
  <2>5. RowsInv'
    BY <2>1, <2>2, <2>4 DEF DataInv, RowsInv, VisibleRow
  <2>6. EffectsInv'
    <3>1. \A y \in Conns : \A e \in txSchema'[y] : e[1] \in Calls /\ y # x /\ e \in txSchema[y]
      BY <2>1 DEF Effects
    <3>2. \A y \in Conns : \A e \in txSchema'[y] : ~DryRun(e[1])' => Owns(y, e[1])'
      BY <2>1, <3>1, KeyKept DEF DataInv, EffectsInv, Owns
    <3>3. ASSUME NEW e \in schema', ~DryRun(e[1])'
          PROVE  log'[Key(e[1])'] # None /\ log'[Key(e[1])'].by = e[1]
      <4>1. e[1] \in Calls /\ (e \in schema \/ e \in txSchema[x])
        BY <2>1, <3>3 DEF Effects
      <4>2. Key(e[1]) \in Keys /\ Key(e[1])' = Key(e[1]) /\ ~DryRun(e[1])
        BY <3>3, <4>1, RequestType, KeyKept
      <4>3. CASE e \in txSchema[x]
        BY <2>1, <4>1, <4>2, <4>3 DEF DataInv, EffectsInv, Owns, VisibleRow
      <4>4. CASE e \in schema
        <5>1. log[Key(e[1])] # None /\ log[Key(e[1])].by = e[1]
          BY <4>2, <4>4 DEF DataInv, EffectsInv
        <5>2. txLog[x][Key(e[1])] = None
          BY <4>2, <5>1 DEF DataInv, RowsInv
        <5> QED BY <2>1, <4>2, <5>1, <5>2 DEF VisibleRow
      <4> QED BY <4>1, <4>3, <4>4
    <3> QED BY <3>2, <3>3 DEF EffectsInv
  <2>7. WriterInv'
    BY <2>1 DEF DataInv, WriterInv, Writes
  <2> QED BY <2>3, <2>5, <2>6, <2>7 DEF DataInv
<1> QED BY <1>1, <1>2

(* BEGIN, the lock and an error leave rows and effects alone.              *)
LEMMA SmallSafe ==
  ASSUME TypeOK, DataInv, request' = request, NEW x \in Conns,
         BeginTx(x) \/ LockTx(x) \/ AbortTx(x) \/ UNCHANGED dbVars
  PROVE  DataInv' /\ Frame(x) /\ GoesOn(x)
<1>1. UNCHANGED <<txLog, txSchema, log, schema>> /\ (lock' = lock \/ (lock' = x /\ lock \in {None, x}))
  BY DEF BeginTx, LockTx, AbortTx, dbVars, sessionVars, durableVars
<1>2. RowsInv'
  BY <1>1 DEF DataInv, RowsInv
<1>3. EffectsInv'
  <2>1. /\ \A y \in Conns : \A e \in txSchema[y] : e[1] \in Calls
        /\ \A e \in schema : e[1] \in Calls
    BY DEF TypeOK, DatabaseTypeOK, Effects
  <2> QED BY <1>1, <2>1, KeyKept DEF DataInv, EffectsInv, Owns
<1>4. WriterInv'
  BY <1>1, NoneIsNotAConn DEF DataInv, WriterInv, Writes
<1>5. Frame(x)
  BY <1>1, NoneIsNotAConn DEF Frame
<1>6. GoesOn(x)
  BY <1>1, KeyKept DEF GoesOn, Owns
<1> QED BY <1>2, <1>3, <1>4, <1>5, <1>6 DEF DataInv

(* The holder of the lock writes a row for a key that has no committed row *)
(* and, if it has an uncommitted one already, for the same call.           *)
LEMMA WriteSafe ==
  ASSUME TypeOK, DataInv, request' = request, NEW x \in Conns, NEW k \in Keys,
         NEW row \in Record, WriteRow(x, k, row), lock = x, log[k] = None,
         row.status # "failed", txLog[x][k] # None => txLog[x][k].by = row.by
  PROVE  DataInv' /\ Frame(x) /\ GoesOn(x)
<1> USE DEF TypeOK, DatabaseTypeOK
<1>1. /\ txLog' = [txLog EXCEPT ![x][k] = row]
      /\ UNCHANGED <<txSchema, lock, log, schema>>
  BY DEF WriteRow, durableVars
<1>2. row # None
  BY NoneIsNotARecord
<1>3. \A y \in Conns, j \in Keys : txLog'[y][j] = IF y = x /\ j = k THEN row ELSE txLog[y][j]
  BY <1>1
<1>4. RowsInv'
  BY <1>1, <1>3 DEF DataInv, RowsInv
<1>5. \A y \in Conns, c \in Calls : Owns(y, c) => Owns(y, c)'
  BY <1>2, <1>3, RequestType, KeyKept DEF Owns
<1>6. EffectsInv'
  <2>1. /\ \A y \in Conns : \A e \in txSchema[y] : e[1] \in Calls
        /\ \A e \in schema : e[1] \in Calls
    BY DEF Effects
  <2> QED BY <1>1, <1>5, <2>1, KeyKept DEF DataInv, EffectsInv
<1>7. WriterInv'
  BY <1>1 DEF DataInv, WriterInv, Writes
<1>8. Frame(x) /\ GoesOn(x)
  BY <1>1, <1>5 DEF Frame, GoesOn
<1> QED BY <1>4, <1>6, <1>7, <1>8 DEF DataInv

(* begin(): an unused key gets the row of the caller; a used one is left   *)
(* alone, since no row is ever failed.                                     *)
LEMMA ClaimSafe ==
  ASSUME TypeOK, DataInv, request' = request, NEW x \in Conns, NEW c \in Calls,
         lock = x, ClaimRow(x, c)
  PROVE  /\ DataInv' /\ Frame(x) /\ GoesOn(x)
         /\ ClaimOutcome(x, c) \in {"insert", "restart"} => Owns(x, c)'
<1>1. Key(c) \in Keys /\ Command(c) \in Commands /\ Key(c)' = Key(c)
  BY RequestType, KeyKept
<1>2. VisibleRow(x, Key(c)) # None => VisibleRow(x, Key(c)).status # "failed"
  BY <1>1 DEF DataInv, RowsInv, VisibleRow
<1>3. VisibleRow(x, Key(c)) \in Record \cup {None}
  BY <1>1, VisibleRowType DEF TypeOK
<1>4. ClaimOutcome(x, c) # "restart"
  BY <1>2, <1>3 DEF ClaimOutcome, Classify, Record, Status
<1>5. CASE ClaimOutcome(x, c) = "insert"
  <2> DEFINE row == RunningRecord(c, Command(c))
  <2>1. row \in Record /\ row.status = "running" /\ row.by = c
    BY <1>1 DEF RunningRecord, Record, Status
  <2>2. WriteRow(x, Key(c), row)
    BY <1>4, <1>5 DEF ClaimRow
  <2>3. VisibleRow(x, Key(c)) = None
    BY <1>3, <1>5 DEF ClaimOutcome, Classify
  <2>4. log[Key(c)] = None /\ txLog[x][Key(c)] = None
    BY <2>3 DEF VisibleRow
  <2>5. DataInv' /\ Frame(x) /\ GoesOn(x)
    BY <1>1, <2>1, <2>2, <2>4, WriteSafe
  <2>6. Owns(x, c)'
    <3>1. txLog' = [txLog EXCEPT ![x][Key(c)] = row]
      BY <2>2 DEF WriteRow
    <3>2. txLog'[x][Key(c)] = row
      BY <1>1, <3>1 DEF TypeOK, DatabaseTypeOK
    <3> QED BY <1>1, <2>1, <3>2, NoneIsNotARecord DEF Owns
  <2> QED BY <2>5, <2>6
<1>6. CASE ClaimOutcome(x, c) # "insert"
  <2>1. UNCHANGED dbVars
    BY <1>4, <1>6 DEF ClaimRow
  <2> QED BY <1>4, <1>6, <2>1, SmallSafe
<1> QED BY <1>5, <1>6

(* succeed(): the row that is marked is the caller's own.                  *)
LEMMA SucceedSafe ==
  ASSUME TypeOK, DataInv, request' = request, NEW x \in Conns, NEW c \in Calls,
         lock = x, Owns(x, c), SucceedRow(x, c)
  PROVE  DataInv' /\ Frame(x) /\ GoesOn(x)
<1> DEFINE row == VisibleRow(x, Key(c))
<1>1. Key(c) \in Keys
  BY RequestType
<1>2. row = txLog[x][Key(c)] /\ row # None
  BY DEF Owns, VisibleRow
<1>3. CASE WriteRow(x, Key(c), Finished(row, "succeeded"))
  <2>1. row \in Record
    BY <1>1, <1>2, VisibleRowType DEF TypeOK
  <2>2. /\ Finished(row, "succeeded") \in Record
        /\ Finished(row, "succeeded").status = "succeeded"
        /\ Finished(row, "succeeded").by = row.by
    BY <2>1 DEF Finished, Record, Status
  <2>3. log[Key(c)] = None
    BY <1>1, <1>2 DEF DataInv, RowsInv
  <2> QED BY <1>1, <1>2, <1>3, <2>2, <2>3, WriteSafe
<1>4. CASE UNCHANGED dbVars
  BY <1>4, SmallSafe
<1> QED BY <1>3, <1>4 DEF SucceedRow

(* A plan statement runs beside the row of its call, or in a dry run.      *)
LEMMA StatementSafe ==
  ASSUME TypeOK, DataInv, request' = request, NEW x \in Conns, NEW c \in Calls, NEW n,
         lock = x, ~DryRun(c) => Owns(x, c), RunStatementTx(x, <<c, n>>)
  PROVE  DataInv' /\ Frame(x) /\ GoesOn(x)
<1>1. /\ txSchema' = [txSchema EXCEPT ![x] = @ \cup {<<c, n>>}]
      /\ UNCHANGED <<txLog, lock, log, schema>>
  BY DEF RunStatementTx, durableVars
<1>2. RowsInv'
  BY <1>1 DEF DataInv, RowsInv
<1>3. \A y \in Conns, d \in Calls : Owns(y, d)' <=> Owns(y, d)
  BY <1>1, KeyKept DEF Owns
<1>4. \A y \in Conns : \A e \in txSchema'[y] :
        e[1] \in Calls /\ (e \in txSchema[y] \/ (y = x /\ e[1] = c))
  BY <1>1 DEF TypeOK, DatabaseTypeOK, Effects
<1>5. \A e \in schema : e[1] \in Calls
  BY DEF TypeOK, DatabaseTypeOK, Effects
<1>6. EffectsInv'
  BY <1>1, <1>3, <1>4, <1>5, KeyKept DEF DataInv, EffectsInv
<1>7. WriterInv'
  BY <1>1 DEF DataInv, WriterInv, Writes, TypeOK, DatabaseTypeOK
<1>8. Frame(x) /\ GoesOn(x)
  BY <1>1, <1>3 DEF Frame, GoesOn, TypeOK, DatabaseTypeOK
<1> QED BY <1>2, <1>6, <1>7, <1>8 DEF DataInv

(* The server executes or refuses a query that is safe to execute.         *)
LEMMA ServeSafe ==
  ASSUME TypeOK, DataInv, request' = request, NEW x \in Conns, NEW query \in Query,
         Safe(x, query), Serve(x, query)
  PROVE  /\ DataInv' /\ Frame(x)
         /\ query.op \notin {"COMMIT", "ROLLBACK"} => GoesOn(x)
<1> DEFINE c == query.call
<1>1. c \in Calls
  BY DEF Query
<1>2. CASE query.op = "BEGIN" /\ BeginTx(x)
  BY <1>2, SmallSafe
<1>3. CASE query.op = "READ" /\ UNCHANGED dbVars
  BY <1>3, SmallSafe
<1>4. CASE query.op = "LOCK" /\ LockTx(x)
  BY <1>4, SmallSafe
<1>5. CASE query.op = "CLAIM" /\ ClaimRow(x, c)
  BY <1>1, <1>5, ClaimSafe DEF Safe
<1>6. CASE query.op = "STATEMENT" /\ RunStatementTx(x, <<c, next[c]>>)
  BY <1>1, <1>6, StatementSafe DEF Safe
<1>7. CASE query.op = "SUCCEED" /\ SucceedRow(x, c)
  BY <1>1, <1>7, SucceedSafe DEF Safe
<1>8. CASE query.op = "COMMIT" /\ CommitTx(x)
  BY <1>8, CommitSafe
<1>9. CASE query.op = "ROLLBACK" /\ RollbackTx(x)
  BY <1>9, RollbackSafe
<1> QED BY <1>2, <1>3, <1>4, <1>5, <1>6, <1>7, <1>8, <1>9 DEF Serve

LEMMA RefuseSafe ==
  ASSUME TypeOK, DataInv, request' = request, NEW x \in Conns, NEW query, Refuse(x, query)
  PROVE  DataInv' /\ Frame(x)
BY SmallSafe, RollbackSafe DEF Refuse

-------------------------------------------------------------------------------
(* The steps of a call.                                                    *)

(* Call c, at a point of its code, relies on this of its session x.        *)
Ready(x, c, point) ==
  /\ point \in Locked \cup {"lock"} => inflight[x] = None
  /\ point \in Locked => lock = x
  /\ point \in Locked \ {"run"} => ~DryRun(c)
  /\ point \in Locked \ {"claim"} /\ ~DryRun(c) => Owns(x, c)

LEMMA CallIsReady ==
  ASSUME CallInv, NEW c \in Calls
  PROVE  Ready(conn[c], c, pc[c])
BY DEF CallInv, Ready

(* A query that call c awaits is safe to execute.                          *)
LEMMA AwaitedIsSafe ==
  ASSUME CallInv, NEW c \in Calls, NEW query \in QueriesOf(c)
  PROVE  Safe(conn[c], query)
BY DEF CallInv, QueriesOf, OpsAt, Safe, Locked

(* After a step of call c, what it and its abandoned query rely on holds.  *)
LEMMA CallSafe ==
  ASSUME SafeInv, NEW c \in Calls, CallStep(c), NEW x, x = conn[c], NEW point, point = pc'[c]
  PROVE  /\ DataInv' /\ Frame(x)
         /\ Ready(x, c, point)'
         /\ inflight'[x] # None => UNCHANGED dbVars /\ Safe(x, inflight'[x])
<1>t. /\ TypeOK /\ ControlInv /\ DataInv /\ CallInv /\ FlightInv
      /\ pc \in [Calls -> Points] /\ inflight \in [Conns -> Query \cup {None}]
  BY DEF SafeInv, ControlInv, TypeOK
<1>r. /\ Running(c) /\ request' = request
      /\ \E p \in Points : pc' = [pc EXCEPT ![c] = p]
  BY <1>t, CallStepControl
<1>x. x \in Conns /\ Ready(x, c, pc[c]) /\ (inflight[x] # None => Safe(x, inflight[x]))
  BY <1>t, <1>r, HeldConn, CallIsReady DEF FlightInv
<1>k. DryRun(c)' = DryRun(c)
  BY <1>r, KeyKept
<1>p. \A p \in Points : (point = p) <=> (pc' = [pc EXCEPT ![c] = p])
  BY <1>t, <1>r
<1> USE DEF Goto, Awaits
<1>1. CASE Begin(c)
  BY <1>t, <1>r, <1>x, <1>1, SmallSafe DEF Begin, Ready, Locked
<1>2. CASE Lock(c)
  <2>1. lock' = x /\ inflight' = inflight /\ inflight[x] = None
    BY <1>2 DEF Lock, LockTx
  <2>2. point = IF DryRun(c) THEN "run" ELSE "claim"
    BY <1>t, <1>2 DEF Lock
  <2>3. DataInv' /\ Frame(x)
    BY <1>t, <1>r, <1>x, <1>2, SmallSafe DEF Lock
  <2> QED BY <1>k, <2>1, <2>2, <2>3 DEF Ready, Locked
<1>3. CASE Claim(c)
  <2>1. lock = x /\ inflight' = inflight /\ inflight[x] = None /\ ~DryRun(c)
    BY <1>x, <1>3 DEF Claim, Ready, Locked
  <2>2. /\ DataInv' /\ Frame(x) /\ GoesOn(x)
        /\ ClaimOutcome(x, c) \in {"insert", "restart"} => Owns(x, c)'
    BY <1>t, <1>r, <1>x, <1>3, <2>1, ClaimSafe DEF Claim
  <2>3. \/ point = "run" /\ ClaimOutcome(x, c) \in {"insert", "restart"}
        \/ point = "rollback"
    BY <1>t, <1>3 DEF Claim, RollBackWith
  <2> QED BY <1>k, <2>1, <2>2, <2>3 DEF Ready, Locked, GoesOn
<1>4. CASE RunStatement(c)
  <2>1. /\ lock = x /\ inflight' = inflight /\ inflight[x] = None
        /\ ~DryRun(c) => Owns(x, c)
    BY <1>x, <1>4 DEF RunStatement, Ready, Locked
  <2>2. DataInv' /\ Frame(x) /\ GoesOn(x)
    BY <1>t, <1>r, <1>x, <1>4, <2>1, StatementSafe DEF RunStatement
  <2>3. point = "run"
    BY <1>4 DEF RunStatement
  <2> QED BY <1>k, <2>1, <2>2, <2>3 DEF Ready, Locked, GoesOn
<1>5. CASE StatementsDone(c)
  <2>1. UNCHANGED <<inflight, dbVars>> /\ pc[c] = "run"
    BY <1>5 DEF StatementsDone
  <2>2. point = "rollback" \/ (point = "succeed" /\ ~DryRun(c))
    BY <1>t, <1>5 DEF StatementsDone, RollBackWith
  <2>3. DataInv' /\ Frame(x) /\ GoesOn(x)
    BY <1>t, <1>r, <1>x, <2>1, SmallSafe
  <2> QED BY <1>x, <1>k, <2>1, <2>2, <2>3 DEF Ready, Locked, GoesOn
<1>6. CASE Succeed(c)
  <2>1. lock = x /\ inflight' = inflight /\ inflight[x] = None /\ ~DryRun(c) /\ Owns(x, c)
    BY <1>x, <1>6 DEF Succeed, Ready, Locked
  <2>2. DataInv' /\ Frame(x) /\ GoesOn(x)
    BY <1>t, <1>r, <1>x, <1>6, <2>1, SucceedSafe DEF Succeed
  <2>3. point \in {"reread", "rollback"}
    BY <1>t, <1>6 DEF Succeed, RollBackWith
  <2> QED BY <1>k, <2>1, <2>2, <2>3 DEF Ready, Locked, GoesOn
<1>7. CASE ReadBack(c)
  <2>1. UNCHANGED <<inflight, dbVars>> /\ pc[c] = "reread" /\ point = "commit"
    BY <1>t, <1>7 DEF ReadBack
  <2>2. DataInv' /\ Frame(x) /\ GoesOn(x)
    BY <1>t, <1>r, <1>x, <2>1, SmallSafe
  <2> QED BY <1>x, <1>k, <2>1, <2>2 DEF Ready, Locked, GoesOn
<1>8. CASE Commit(c)
  <2>1. inflight' = inflight /\ inflight[x] = None /\ point = "done"
    BY <1>t, <1>8 DEF Commit, ReleaseWith
  <2>2. DataInv' /\ Frame(x)
    BY <1>t, <1>r, <1>x, <1>8, CommitSafe DEF Commit
  <2> QED BY <2>1, <2>2 DEF Ready, Locked
<1>9. CASE Rollback(c)
  <2>1. inflight' = inflight /\ inflight[x] = None /\ point = "done"
    BY <1>t, <1>9 DEF Rollback, ReleaseWith
  <2>2. DataInv' /\ Frame(x)
    BY <1>t, <1>r, <1>x, <1>9, RollbackSafe DEF Rollback
  <2> QED BY <2>1, <2>2 DEF Ready, Locked
<1>10. CASE QueryRefused(c)
  <2>1. PICK query \in QueriesOf(c) : inflight[x] = None /\ Refuse(x, query)
    BY <1>10 DEF QueryRefused
  <2>2. inflight' = inflight /\ point \in {"done", "rollback"}
    BY <1>t, <1>10 DEF QueryRefused, AfterFailure, ReleaseWith, RollBackWith
  <2> QED BY <1>t, <1>r, <1>x, <2>1, <2>2, RefuseSafe DEF Ready, Locked
<1>11. CASE QueryTimesOut(c)
  <2>1. PICK query \in QueriesOf(c) :
          inflight' = [inflight EXCEPT ![x] = IF @ = None THEN query ELSE @]
    BY <1>11 DEF QueryTimesOut
  <2>2. UNCHANGED dbVars /\ point \in {"done", "rollback"}
    BY <1>t, <1>11 DEF QueryTimesOut, AfterFailure, ReleaseWith, RollBackWith
  <2>3. Safe(x, inflight'[x])
    BY <1>t, <1>x, <2>1, AwaitedIsSafe
  <2> QED BY <1>t, <1>r, <1>x, <2>2, <2>3, SmallSafe DEF Ready, Locked
<1>12. CASE RollbackTimesOut(c)
  <2>1. UNCHANGED dbVars /\ point = "done" /\ inflight'[x] = [op |-> "ROLLBACK", call |-> c]
    BY <1>t, <1>x, <1>12 DEF RollbackTimesOut, ReleaseWith
  <2>2. Safe(x, inflight'[x])
    BY <2>1 DEF Safe
  <2> QED BY <1>t, <1>r, <1>x, <2>1, <2>2, SmallSafe DEF Ready, Locked
<1>13. CASE RollbackDropped(c)
  <2>1. UNCHANGED <<inflight, dbVars>> /\ point = "done"
    BY <1>t, <1>13 DEF RollbackDropped, ReleaseWith
  <2> QED BY <1>t, <1>r, <1>x, <2>1, SmallSafe DEF Ready, Locked
<1> QED BY <1>1, <1>2, <1>3, <1>4, <1>5, <1>6, <1>7, <1>8, <1>9, <1>10, <1>11, <1>12, <1>13
        DEF CallStep

(* What session y relied on before a step of another session, it still may *)
(* rely on.                                                                *)
LEMMA FrameKeeps ==
  ASSUME NEW x \in Conns, NEW y \in Conns \ {x}, Frame(x), request' = request
  PROVE  /\ \A c \in Calls : \A point :
              inflight'[y] = inflight[y] /\ Ready(y, c, point) => Ready(y, c, point)'
         /\ \A query : query.call \in Calls /\ Safe(y, query) => Safe(y, query)'
<1>1. \A c \in Calls : (Owns(y, c)' <=> Owns(y, c)) /\ DryRun(c)' = DryRun(c)
  BY KeyKept DEF Frame, Owns
<1>2. lock = y => lock' = y
  BY DEF Frame
<1> QED BY <1>1, <1>2 DEF Ready, Safe

LEMMA UnchangedKeeps ==
  ASSUME request' = request, UNCHANGED dbVars
  PROVE  /\ DataInv => DataInv'
         /\ \A x, c, point : inflight'[x] = inflight[x] /\ Ready(x, c, point)
                               => Ready(x, c, point)'
         /\ \A x, query : Safe(x, query) => Safe(x, query)'
BY DEF DataInv, RowsInv, EffectsInv, WriterInv, Writes, Ready, Safe, Owns, Key, DryRun,
       dbVars, sessionVars, durableVars

(* The whole step: nobody's footing is lost.                               *)
LEMMA SafeStep == SafeInv /\ [Next]_vars => SafeInv'
<1> SUFFICES ASSUME SafeInv, [Next]_vars
             PROVE  DataInv' /\ CallInv' /\ FlightInv'
  <2>1. ControlInv /\ [Next]_vars => ControlInv'
    BY DatabaseStep, ControlStep DEF ControlInv, TypeOK, ControlType, DatabaseTypeOK
  <2> QED BY <2>1 DEF SafeInv
<1>0. /\ TypeOK /\ ControlInv /\ DataInv /\ CallInv /\ FlightInv /\ ConnInv
      /\ pc \in [Calls -> Points] /\ inflight \in [Conns -> Query \cup {None}]
      /\ conn \in [Calls -> Conns \cup {None}]
  BY DEF SafeInv, ControlInv, TypeOK
<1>a. \A c \in Calls : Ready(conn[c], c, pc[c])
  BY <1>0, CallIsReady
<1>b. \A x \in Conns : inflight[x] # None => inflight[x].call \in Calls /\ Safe(x, inflight[x])
  BY <1>0 DEF FlightInv, Query
<1>c. (\A c \in Calls : Ready(conn[c], c, pc[c])') => CallInv'
  BY DEF CallInv, Ready
<1>1. ASSUME NEW c \in Calls, Connect(c) \/ ConnectFails(c)
      PROVE  DataInv' /\ CallInv' /\ FlightInv'
  <2>1. UNCHANGED <<request, inflight, dbVars>>
    BY <1>1 DEF Connect, ConnectFails
  <2>2. /\ pc'[c] \in {"begin", "done"}
        /\ \A d \in Calls \ {c} : pc'[d] = pc[d] /\ conn'[d] = conn[d]
    BY <1>0, <1>1 DEF Connect, ConnectFails, Goto, Points
  <2>3. CallInv'
    <3> SUFFICES ASSUME NEW d \in Calls PROVE Ready(conn[d], d, pc[d])'
      BY <1>c
    <3>1. CASE d = c
      BY <2>2, <3>1 DEF Ready, Locked
    <3>2. CASE d # c
      BY <1>a, <2>1, <2>2, <3>2, UnchangedKeeps
    <3> QED BY <3>1, <3>2
  <2> QED BY <1>0, <1>b, <2>1, <2>3, UnchangedKeeps DEF FlightInv
<1>2. ASSUME NEW c \in Calls, CallStep(c)
      PROVE  DataInv' /\ CallInv' /\ FlightInv'
  <2>1. Running(c) /\ request' = request /\ conn[c] \in Conns
    BY <1>0, <1>2, CallStepControl, HeldConn
  <2>x. PICK x \in Conns : x = conn[c]
    BY <2>1
  <2>p. PICK point : point = pc'[c]
    OBVIOUS
  <2>2. /\ DataInv' /\ Frame(x) /\ Ready(x, c, point)'
        /\ inflight'[x] # None => UNCHANGED dbVars /\ Safe(x, inflight'[x])
    BY <1>2, <2>x, <2>p, CallSafe
  <2>3. /\ \A d \in Calls \ {c} : pc'[d] = pc[d] /\ conn'[d] = conn[d]
        /\ conn'[c] = x \/ pc'[c] = "done"
        /\ \A y \in Conns \ {x} : inflight'[y] = inflight[y]
    BY <1>0, <1>2, <2>x, CallStepControl
  <2>4. CallInv'
    <3> SUFFICES ASSUME NEW d \in Calls PROVE Ready(conn[d], d, pc[d])'
      BY <1>c
    <3>1. CASE d = c
      <4>1. CASE conn'[c] = x
        BY <2>2, <2>p, <3>1, <4>1 DEF Ready
      <4>2. CASE pc'[c] = "done"
        BY <3>1, <4>2 DEF Ready, Locked
      <4> QED BY <2>3, <4>1, <4>2
    <3>2. CASE d # c /\ Running(d)
      <4>1. conn[d] \in Conns \ {x}
        BY <1>0, <2>1, <2>x, <3>2, HeldConn DEF ConnInv
      <4> QED BY <1>a, <2>1, <2>2, <2>3, <3>2, <4>1, FrameKeeps DEF Ready
    <3>3. CASE d # c /\ ~Running(d)
      BY <2>3, <3>3 DEF Running, Ready, Locked
    <3> QED BY <3>1, <3>2, <3>3
  <2>5. FlightInv'
    <3> SUFFICES ASSUME NEW y \in Conns, inflight'[y] # None PROVE Safe(y, inflight[y])'
      BY DEF FlightInv
    <3>1. CASE y = x
      BY <2>1, <2>2, <3>1, UnchangedKeeps DEF Safe
    <3>2. CASE y # x
      BY <1>b, <2>1, <2>2, <2>3, <3>2, FrameKeeps DEF Safe
    <3> QED BY <3>1, <3>2
  <2> QED BY <2>2, <2>4, <2>5
<1>3. ASSUME NEW c \in Calls, Disconnect(c)
      PROVE  DataInv' /\ CallInv' /\ FlightInv'
  <2>1. UNCHANGED <<request, dbVars>>
    BY <1>3 DEF Disconnect
  <2>2. /\ pc'[c] = "done"
        /\ \A d \in Calls \ {c} : pc'[d] = pc[d] /\ conn'[d] = conn[d]
    BY <1>0, <1>3 DEF Disconnect, Goto
  <2>3. conn[c] \in Conns
    BY <1>0, <1>3 DEF Disconnect
  <2>4. \A y \in Conns : inflight'[y] = inflight[y] \/ (y = conn[c] /\ inflight'[y] = SentCommit(c))
    BY <1>0, <1>3, <2>3 DEF Disconnect
  <2>5. CallInv'
    <3> SUFFICES ASSUME NEW d \in Calls PROVE Ready(conn[d], d, pc[d])'
      BY <1>c
    <3>1. CASE d # c /\ Running(d)
      <4>1. conn[d] \in Conns /\ conn[d] # conn[c]
        BY <1>0, <2>3, <3>1, HeldConn DEF ConnInv
      <4> QED BY <1>a, <2>1, <2>2, <2>4, <3>1, <4>1, UnchangedKeeps
    <3>2. CASE d = c \/ ~Running(d)
      BY <2>2, <3>2 DEF Running, Ready, Locked
    <3> QED BY <3>1, <3>2
  <2>6. FlightInv'
    <3> SUFFICES ASSUME NEW y \in Conns, inflight'[y] # None PROVE Safe(y, inflight[y])'
      BY DEF FlightInv
    <3>1. CASE inflight'[y] = SentCommit(c)
      BY <3>1 DEF Safe, SentCommit
    <3>2. CASE inflight'[y] = inflight[y]
      BY <1>b, <2>1, <3>2, UnchangedKeeps
    <3> QED BY <2>4, <3>1, <3>2
  <2> QED BY <1>0, <2>1, <2>5, <2>6, UnchangedKeeps
<1>4. ASSUME NEW x \in Conns, FinishAbandoned(x) \/ SessionEnds(x)
      PROVE  DataInv' /\ CallInv' /\ FlightInv'
  <2>1. /\ UNCHANGED <<request, callVars>>
        /\ inflight' = [inflight EXCEPT ![x] = None]
    BY <1>4 DEF FinishAbandoned, SessionEnds
  <2>2. DataInv' /\ Frame(x)
    <3>1. CASE SessionEnds(x)
      BY <1>0, <2>1, <3>1, RollbackSafe, CommitSafe DEF SessionEnds
    <3>2. CASE FinishAbandoned(x)
      <4>1. inflight[x] \in Query /\ Safe(x, inflight[x])
        BY <1>0, <1>b, <3>2 DEF FinishAbandoned
      <4> QED BY <1>0, <2>1, <3>2, <4>1, ServeSafe, RefuseSafe DEF FinishAbandoned
    <3> QED BY <1>4, <3>1, <3>2
  <2>3. CallInv'
    <3> SUFFICES ASSUME NEW d \in Calls PROVE Ready(conn[d], d, pc[d])'
      BY <1>c
    <3>1. pc'[d] = pc[d] /\ conn'[d] = conn[d]
      BY <2>1 DEF callVars
    <3>2. CASE Running(d) /\ conn[d] # x
      <4>1. conn[d] \in Conns \ {x} /\ inflight'[conn[d]] = inflight[conn[d]]
        BY <1>0, <2>1, <3>2, HeldConn
      <4> QED BY <1>a, <2>1, <2>2, <3>1, <4>1, FrameKeeps DEF Ready
    <3>3. CASE Running(d) /\ conn[d] = x
      <4>1. FinishAbandoned(x)
        BY <1>0, <1>4, <3>3, HeldConn DEF SessionEnds
      <4>2. pc[d] \notin Locked \cup {"lock"}
        BY <1>0, <3>3, <4>1 DEF FinishAbandoned, CallInv
      <4> QED BY <3>1, <4>2 DEF Ready, Locked
    <3>4. CASE ~Running(d)
      BY <3>1, <3>4 DEF Running, Ready, Locked
    <3> QED BY <3>2, <3>3, <3>4
  <2>4. FlightInv'
    <3> SUFFICES ASSUME NEW y \in Conns, inflight'[y] # None PROVE Safe(y, inflight[y])'
      BY DEF FlightInv
    <3>1. y # x /\ inflight'[y] = inflight[y]
      BY <1>0, <2>1
    <3> QED BY <1>b, <2>1, <2>2, <3>1, FrameKeeps DEF Safe
  <2> QED BY <2>2, <2>3, <2>4
<1>5. ASSUME NEW x \in Conns, EvictIdle(x)
      PROVE  DataInv' /\ CallInv' /\ FlightInv'
  <2>1. UNCHANGED <<request, callVars, inflight, dbVars>>
    BY <1>5 DEF EvictIdle
  <2> QED BY <1>0, <1>a, <1>b, <1>c, <2>1, UnchangedKeeps DEF callVars, FlightInv
<1>6. CASE Crash
  <2>1. UNCHANGED <<request, dbVars>>
    BY <1>6 DEF Crash
  <2>2. \A d \in Calls : pc'[d] \in {"idle", "done"}
    BY <1>0, <1>6 DEF Crash, Running
  <2>3. CallInv'
    BY <2>2 DEF CallInv, Locked
  <2>4. FlightInv'
    <3> SUFFICES ASSUME NEW y \in Conns, inflight'[y] # None PROVE Safe(y, inflight[y])'
      BY DEF FlightInv
    <3>1. inflight'[y] = inflight[y] \/ \E c \in Calls : inflight'[y] = SentCommit(c)
      BY <1>0, <1>6 DEF Crash, Running
    <3>2. ASSUME NEW c \in Calls, inflight'[y] = SentCommit(c)
          PROVE  Safe(y, inflight[y])'
      BY <3>2 DEF Safe, SentCommit
    <3>3. CASE inflight'[y] = inflight[y]
      BY <1>b, <2>1, <3>3, UnchangedKeeps
    <3> QED BY <3>1, <3>2, <3>3
  <2> QED BY <1>0, <2>1, <2>3, <2>4, UnchangedKeeps
<1>7. CASE UNCHANGED vars
  <2>1. UNCHANGED <<request, callVars, inflight, dbVars>>
    BY <1>7 DEF vars
  <2> QED BY <1>0, <1>a, <1>b, <1>c, <2>1, UnchangedKeeps DEF callVars, FlightInv
<1> QED BY <1>1, <1>2, <1>3, <1>4, <1>5, <1>6, <1>7 DEF Next, ServerStep

LEMMA SafeInit == Init => SafeInv
<1> SUFFICES ASSUME Init PROVE SafeInv
  OBVIOUS
<1>1. ControlInv
  BY NumStatementsPositive, MaxCrashesIsNat
     DEF Init, DatabaseInit, ControlInv, TypeOK, DatabaseTypeOK, ConnInv, AbandonedInv, Running,
         Points, Replies, NoRows
<1>2. DataInv
  BY DEF Init, DatabaseInit, DataInv, RowsInv, EffectsInv, WriterInv, Writes, NoRows
<1>3. CallInv /\ FlightInv
  BY DEF Init, CallInv, FlightInv, Locked
<1> QED BY <1>1, <1>2, <1>3 DEF SafeInv

-------------------------------------------------------------------------------
(* The advisory lock serializes the writers: two pooled sessions never     *)
(* both hold uncommitted rows or schema changes of execute().              *)
THEOREM WritersAreExclusive == Spec => []ExclusiveWriter
<1>1. SafeInv => ExclusiveWriter
  BY OneWriter DEF SafeInv, DataInv, ExclusiveWriter
<1> QED BY <1>1, SafeInit, SafeStep, PTL DEF Spec

(* No two calls that share an idempotency key ever both change the schema, *)
(* whatever times out, breaks, crashes or leaks.                           *)
THEOREM KeysRunAtMostOnce == Spec => []AtMostOnce
<1>1. SafeInv => AtMostOnce
  <2> SUFFICES ASSUME SafeInv, NEW e \in schema, NEW f \in schema,
                      ~DryRun(e[1]), ~DryRun(f[1]), Key(e[1]) = Key(f[1])
               PROVE  e[1] = f[1]
    BY DEF AtMostOnce
  <2> QED BY DEF SafeInv, DataInv, EffectsInv
<1> QED BY <1>1, SafeInit, SafeStep, PTL DEF Spec

-------------------------------------------------------------------------------
(* The history only ever grows.                                            *)

LEMMA DurableMoves ==
  ASSUME ControlInv, [Next]_vars
  PROVE  UNCHANGED durableVars \/ \E x \in Conns : CommitTx(x)
<1> USE DEF durableVars, dbVars, sessionVars
<1>1. \A x : ClaimRow(x, inflight[x].call) \/ SucceedRow(x, inflight[x].call) => UNCHANGED durableVars
  BY DEF ClaimRow, SucceedRow, WriteRow
<1>2. \A x, query : Refuse(x, query) => UNCHANGED durableVars
  BY DEF Refuse, RollbackTx, AbortTx
<1>3. ASSUME NEW x \in Conns, ServerStep(x)
      PROVE  UNCHANGED durableVars \/ CommitTx(x)
  BY <1>1, <1>2, <1>3
     DEF ServerStep, FinishAbandoned, EvictIdle, SessionEnds, Serve, BeginTx, LockTx,
         RunStatementTx, RollbackTx
<1>4. ASSUME NEW c \in Calls, CallStep(c)
      PROVE  UNCHANGED durableVars \/ \E x \in Conns : CommitTx(x)
  <2>1. conn[c] \in Conns
    BY <1>4, CallStepControl, HeldConn
  <2>2. Claim(c) \/ Succeed(c) => UNCHANGED durableVars
    BY DEF Claim, Succeed, ClaimRow, SucceedRow, WriteRow
  <2>3. QueryRefused(c) => UNCHANGED durableVars
    BY <1>2 DEF QueryRefused
  <2>4. Begin(c) \/ Lock(c) \/ RunStatement(c) \/ Rollback(c) => UNCHANGED durableVars
    BY DEF Begin, Lock, RunStatement, Rollback, BeginTx, LockTx, RunStatementTx, RollbackTx
  <2>5. StatementsDone(c) \/ ReadBack(c) \/ QueryTimesOut(c) \/ RollbackTimesOut(c)
          \/ RollbackDropped(c) => UNCHANGED durableVars
    BY DEF StatementsDone, ReadBack, QueryTimesOut, RollbackTimesOut, RollbackDropped
  <2> QED BY <1>4, <2>1, <2>2, <2>3, <2>4, <2>5 DEF CallStep, Commit
<1>5. ASSUME NEW c \in Calls, Connect(c) \/ ConnectFails(c) \/ Disconnect(c)
      PROVE  UNCHANGED durableVars
  BY <1>5 DEF Connect, ConnectFails, Disconnect
<1>6. Crash \/ UNCHANGED vars => UNCHANGED durableVars
  BY DEF Crash, vars
<1> QED BY <1>3, <1>4, <1>5, <1>6 DEF Next

(* A session that commits wrote no key that is in the history.             *)
LEMMA HistoryGrows ==
  ASSUME SafeInv, [Next]_vars
  PROVE  \A k \in Keys : log[k] # None => log'[k] = log[k]
<1>1. ControlInv /\ DataInv
  BY DEF SafeInv
<1>2. ASSUME NEW x \in Conns, CommitTx(x), NEW k \in Keys, log[k] # None
      PROVE  log'[k] = log[k]
  <2>1. txLog[x][k] = None
    BY <1>1, <1>2 DEF DataInv, RowsInv
  <2> QED BY <1>2, <2>1 DEF CommitTx, VisibleRow, durableVars
<1> QED BY <1>1, <1>2, DurableMoves DEF durableVars

-------------------------------------------------------------------------------
(***************************************************************************)
(* The promise, as long as no ROLLBACK is dropped.  A session nobody is    *)
(* writing in is clean, or a ROLLBACK is on its way to clean it; a COMMIT  *)
(* is only ever sent for the whole of one command; so what is durable is   *)
(* whole commands, each succeeded, and what a call answers agrees with it. *)
(***************************************************************************)

Clean(x) == (\A k \in Keys : txLog[x][k] = None) /\ txSchema[x] = {}

(* Session x wrote the row of call c, with this status, and no other.      *)
OwnRow(x, c, status) ==
  LET row == txLog[x][Key(c)] IN
  /\ row # None /\ row.command = Command(c) /\ row.status = status /\ row.by = c
  /\ \A k \in Keys \ {Key(c)} : txLog[x][k] = None

Statements(c, last) == {<<c, n>> : n \in 1..last}

(* Session x holds everything call c has to do, and nothing else.          *)
Whole(x, c) ==
  /\ ~DryRun(c)
  /\ OwnRow(x, c, "succeeded")
  /\ txSchema[x] = Statements(c, NumStatements)

(* A session that nobody writes in.                                        *)
Unused(x) ==
  /\ inflight[x] # None => inflight[x].op \in {"BEGIN", "ROLLBACK"}
  /\ inflight[x] = None \/ inflight[x].op = "BEGIN" => Clean(x)

(* A call whose COMMIT nobody waits for any more has no answer yet, or one *)
(* that settles nothing.                                                   *)
Unsettled(x, c) ==
  \/ pc[c] = "rollback" /\ conn[c] = x /\ reply[c] = "error"
  \/ pc[c] = "done" /\ reply[c] \in {"error", "lost"}

ConnOK(x) ==
  /\ pool[x] = "free" => Clean(x) /\ inflight[x] = None
  /\ pool[x] = "idle" => Unused(x)
  /\ inflight[x] # None /\ inflight[x].op = "COMMIT"
       => Whole(x, inflight[x].call) /\ Unsettled(x, inflight[x].call)

Early == {"idle", "begin", "lock", "claim"}

(* What call c, at a point of its code, has written in its session x.      *)
Footing(x, c, point) ==
  /\ point = "begin" => Unused(x)
  /\ point \in Locked \cup {"lock"} => txState[x] = "open"
  /\ point \in {"lock", "claim"} => Clean(x)
  /\ point \in {"run", "succeed"} /\ ~DryRun(c)
       => OwnRow(x, c, "running") /\ txSchema[x] = Statements(c, next[c] - 1)
  /\ point = "succeed" => next[c] = NumStatements + 1
  /\ point \in {"reread", "commit"} => Whole(x, c)

(* The answers that a finished call may be given.                          *)
Truthful(c, a) ==
  LET row == log[Key(c)] IN
  \/ a = "replayed" /\ row # None /\ row.command = Command(c) /\ row.by # c
  \/ a = "conflict" /\ row # None /\ row.command # Command(c)
  \/ a = "dryRun" /\ DryRun(c)
  \/ a \in {"inProgress", "error"}

CallOK(c) ==
  /\ pc[c] \in Early => next[c] = 1
  /\ Running(c) => Footing(conn[c], c, pc[c])
  /\ pc[c] = "rollback" => Truthful(c, reply[c])

(* What is durable.                                                        *)
HistoryInv ==
  /\ \A k \in Keys : log[k] # None =>
       LET c == log[k].by IN
       /\ log[k].status = "succeeded"
       /\ ~DryRun(c)
       /\ pc[c] \in {"rollback", "done"}
  /\ \A e \in schema : ~DryRun(e[1])

PromiseInv ==
  /\ \A x \in Conns : ConnOK(x)
  /\ \A c \in Calls : CallOK(c)
  /\ HistoryInv

-------------------------------------------------------------------------------
(* Session x does something: the others stay as they are.                  *)
OthersKeep(x) ==
  \A y \in Conns \ {x} :
    txState'[y] = txState[y] /\ txLog'[y] = txLog[y] /\ txSchema'[y] = txSchema[y]

LEMMA OperationsKeepOthers ==
  ASSUME TypeOK, NEW x \in Conns,
         \/ BeginTx(x) \/ LockTx(x) \/ AbortTx(x) \/ RollbackTx(x) \/ CommitTx(x)
         \/ UNCHANGED dbVars
         \/ \E k \in Keys : \E row : WriteRow(x, k, row)
         \/ \E e : RunStatementTx(x, e)
  PROVE  OthersKeep(x)
BY DEF TypeOK, DatabaseTypeOK, OthersKeep, BeginTx, LockTx, AbortTx, RollbackTx, CommitTx, EndTx,
       WriteRow, RunStatementTx, dbVars, sessionVars

LEMMA QueriesKeepOthers ==
  ASSUME TypeOK, NEW x \in Conns, NEW query \in Query, Serve(x, query) \/ Refuse(x, query)
  PROVE  OthersKeep(x)
<1>1. query.call \in Calls /\ Key(query.call) \in Keys
  BY RequestType DEF Query
<1>2. ClaimRow(x, query.call) \/ SucceedRow(x, query.call) => OthersKeep(x)
  BY <1>1, OperationsKeepOthers DEF ClaimRow, SucceedRow
<1> QED BY <1>2, OperationsKeepOthers DEF Serve, Refuse

LEMMA CallKeepsOthers ==
  ASSUME ControlInv, NEW c \in Calls, CallStep(c), NEW x \in Conns, x = conn[c]
  PROVE  OthersKeep(x)
<1>1. TypeOK /\ Key(c) \in Keys
  BY RequestType DEF ControlInv
<1>2. Claim(c) \/ Succeed(c) => OthersKeep(x)
  BY <1>1, OperationsKeepOthers DEF Claim, Succeed, ClaimRow, SucceedRow
<1>3. QueryRefused(c) => OthersKeep(x)
  BY <1>1, OperationsKeepOthers DEF QueryRefused, Refuse
<1>4. Begin(c) \/ Lock(c) \/ RunStatement(c) \/ Commit(c) \/ Rollback(c) => OthersKeep(x)
  BY <1>1, OperationsKeepOthers DEF Begin, Lock, RunStatement, Commit, Rollback
<1>5. StatementsDone(c) \/ ReadBack(c) \/ QueryTimesOut(c) \/ RollbackTimesOut(c)
        \/ RollbackDropped(c) => OthersKeep(x)
  BY <1>1, OperationsKeepOthers
     DEF StatementsDone, ReadBack, QueryTimesOut, RollbackTimesOut, RollbackDropped
<1> QED BY <1>2, <1>3, <1>4, <1>5 DEF CallStep

(* What session y holds is the same after a step that leaves it alone.     *)
LEMMA SessionKept ==
  ASSUME NEW y \in Conns, txState'[y] = txState[y], txLog'[y] = txLog[y],
         txSchema'[y] = txSchema[y], request' = request
  PROVE  /\ Clean(y) => Clean(y)'
         /\ \A d \in Calls : \A s : OwnRow(y, d, s) => OwnRow(y, d, s)'
         /\ \A d \in Calls : Whole(y, d) => Whole(y, d)'
         /\ inflight'[y] = inflight[y] /\ Unused(y) => Unused(y)'
         /\ \A d \in Calls : \A point :
              inflight'[y] = inflight[y] /\ next'[d] = next[d] /\ Footing(y, d, point)
                => Footing(y, d, point)'
<1>1. Clean(y) => Clean(y)'
  BY DEF Clean
<1>2. \A d \in Calls : \A s : OwnRow(y, d, s) => OwnRow(y, d, s)'
  BY DEF OwnRow, Key, Command
<1>3. \A d \in Calls : Whole(y, d) => Whole(y, d)'
  BY DEF Whole, OwnRow, Key, Command, DryRun, Statements
<1>4. inflight'[y] = inflight[y] /\ Unused(y) => Unused(y)'
  BY <1>1 DEF Unused
<1>5. ASSUME NEW d \in Calls, NEW point, inflight'[y] = inflight[y], next'[d] = next[d],
             Footing(y, d, point)
      PROVE  Footing(y, d, point)'
  BY <1>1, <1>2, <1>3, <1>4, <1>5 DEF Footing, DryRun, Statements
<1> QED BY <1>1, <1>2, <1>3, <1>4, <1>5

LEMMA TruthKept ==
  ASSUME TypeOK, request' = request, \A k \in Keys : log[k] # None => log'[k] = log[k]
  PROVE  \A c \in Calls : \A a : Truthful(c, a) => Truthful(c, a)'
<1>1. \A c \in Calls : Key(c) \in Keys
  BY RequestType
<1> QED BY <1>1 DEF Truthful, Key, Command, DryRun

(* A step in session x, of the calls in moved, is not felt elsewhere.      *)
LEMMA Elsewhere ==
  ASSUME SafeInv, PromiseInv, NEW x, OthersKeep(x), request' = request,
         \A y \in Conns \ {x} : pool'[y] = pool[y] /\ inflight'[y] = inflight[y],
         \A k \in Keys : log[k] # None => log'[k] = log[k],
         NEW moved \in SUBSET Calls,
         \A c \in moved : pc[c] # "done" /\ (pc[c] = "rollback" => conn[c] = x),
         \A d \in Calls \ moved : /\ pc'[d] = pc[d] /\ conn'[d] = conn[d]
                                  /\ next'[d] = next[d] /\ reply'[d] = reply[d]
  PROVE  /\ \A y \in Conns \ {x} : ConnOK(y)'
         /\ \A d \in Calls \ moved : (Running(d) => conn[d] # x) => CallOK(d)'
<1>0. TypeOK /\ ControlInv
  BY DEF SafeInv, ControlInv
<1>1. ASSUME NEW y \in Conns \ {x} PROVE ConnOK(y)'
  <2>1. /\ txState'[y] = txState[y] /\ txLog'[y] = txLog[y] /\ txSchema'[y] = txSchema[y]
        /\ pool'[y] = pool[y] /\ inflight'[y] = inflight[y] /\ ConnOK(y)
    BY DEF OthersKeep, PromiseInv
  <2>2. ASSUME inflight[y] # None, inflight[y].op = "COMMIT"
        PROVE  Whole(y, inflight[y].call)' /\ Unsettled(y, inflight[y].call)'
    <3>1. PICK e \in Calls : e = inflight[y].call
      BY <1>0, <2>2 DEF TypeOK, Query
    <3>2. Whole(y, e) /\ Unsettled(y, e)
      BY <2>1, <2>2, <3>1 DEF ConnOK
    <3>3. e \notin moved
      BY <3>2 DEF Unsettled
    <3>4. Whole(y, e)' /\ Unsettled(y, e)'
      BY <2>1, <3>2, <3>3, SessionKept DEF Unsettled
    <3> QED BY <2>1, <3>1, <3>4
  <2>3. (Clean(y) => Clean(y)') /\ (Unused(y) => Unused(y)')
    BY <2>1, SessionKept
  <2> QED BY <2>1, <2>2, <2>3 DEF ConnOK
<1>2. ASSUME NEW d \in Calls \ moved, Running(d) => conn[d] # x PROVE CallOK(d)'
  <2>1. /\ pc'[d] = pc[d] /\ conn'[d] = conn[d] /\ next'[d] = next[d] /\ reply'[d] = reply[d]
        /\ CallOK(d)
    BY DEF PromiseInv
  <2>2. ASSUME Running(d) PROVE Footing(conn[d], d, pc[d])'
    <3>1. PICK y \in Conns \ {x} : y = conn[d]
      BY <1>0, <1>2, <2>2, HeldConn
    <3>2. PICK point : point = pc[d]
      OBVIOUS
    <3>3. Footing(y, d, point)
      BY <2>1, <2>2, <3>1, <3>2 DEF CallOK
    <3>4. Footing(y, d, point)'
      BY <2>1, <3>3, SessionKept DEF OthersKeep
    <3> QED BY <2>1, <3>1, <3>2, <3>4
  <2>3. PICK a : a = reply[d]
    OBVIOUS
  <2>4. pc[d] = "rollback" => Truthful(d, a)'
    BY <1>0, <2>1, <2>3, TruthKept DEF CallOK
  <2> QED BY <2>1, <2>2, <2>3, <2>4 DEF CallOK, Running
<1> QED BY <1>1, <1>2

-------------------------------------------------------------------------------
(* The end of a transaction, and what a whole command leaves behind.       *)

LEMMA EndTxCleans ==
  ASSUME TypeOK, NEW x \in Conns, RollbackTx(x) \/ CommitTx(x)
  PROVE  Clean(x)'
<1>1. /\ txLog' = [txLog EXCEPT ![x] = NoRows]
      /\ txSchema' = [txSchema EXCEPT ![x] = {}]
  BY DEF RollbackTx, CommitTx, EndTx
<1>2. txLog'[x] = NoRows /\ txSchema'[x] = {}
  BY <1>1 DEF TypeOK, DatabaseTypeOK
<1> QED BY <1>2 DEF Clean, NoRows

(* Either nothing is durable that was not, or the key of the command is    *)
(* bound and all its statements are in the schema.                         *)
LEMMA CommitTakesEffect ==
  ASSUME TypeOK, DataInv, NEW x \in Conns, NEW c \in Calls, Whole(x, c), CommitTx(x)
  PROVE  \/ txState[x] # "open" /\ UNCHANGED durableVars
         \/ /\ txState[x] = "open" /\ log[Key(c)] = None
            /\ log'[Key(c)] # None /\ log'[Key(c)].command = Command(c)
            /\ log'[Key(c)].status = "succeeded" /\ log'[Key(c)].by = c
            /\ \A k \in Keys \ {Key(c)} : log'[k] = log[k]
            /\ schema' = schema \cup Statements(c, NumStatements)
<1>1. Key(c) \in Keys
  BY RequestType
<1>2. OwnRow(x, c, "succeeded") /\ txSchema[x] = Statements(c, NumStatements)
  BY DEF Whole
<1>3. log[Key(c)] = None
  BY <1>1, <1>2 DEF DataInv, RowsInv, OwnRow
<1>4. CASE txState[x] = "open"
  <2>1. log' = [k \in Keys |-> VisibleRow(x, k)] /\ schema' = schema \cup txSchema[x]
    BY <1>4 DEF CommitTx
  <2>2. \A k \in Keys : log'[k] = IF k = Key(c) THEN txLog[x][k] ELSE log[k]
    BY <1>2, <2>1 DEF OwnRow, VisibleRow
  <2> QED BY <1>1, <1>2, <1>3, <1>4, <2>1, <2>2 DEF OwnRow
<1>5. CASE txState[x] # "open"
  BY <1>5 DEF CommitTx
<1> QED BY <1>4, <1>5

(* No call goes back behind its commit.                                    *)
Onward == \A c \in Calls : pc[c] \in {"rollback", "done"} => pc'[c] \in {"rollback", "done"}

LEMMA HistoryKept ==
  ASSUME TypeOK, HistoryInv, request' = request, UNCHANGED durableVars, Onward
  PROVE  HistoryInv'
<1>1. \A k \in Keys : log[k] # None => log[k].by \in Calls
  BY DEF TypeOK, DatabaseTypeOK, Record
<1> QED BY <1>1 DEF HistoryInv, durableVars, Onward, DryRun

LEMMA CommitKeepsHistory ==
  ASSUME TypeOK, DataInv, HistoryInv, request' = request, Onward, NEW x \in Conns,
         NEW c \in Calls, Whole(x, c), CommitTx(x), pc'[c] \in {"rollback", "done"}
  PROVE  HistoryInv'
<1>1. CASE UNCHANGED durableVars
  BY <1>1, HistoryKept
<1>2. CASE /\ log'[Key(c)] # None /\ log'[Key(c)].status = "succeeded" /\ log'[Key(c)].by = c
           /\ \A k \in Keys \ {Key(c)} : log'[k] = log[k]
           /\ schema' = schema \cup Statements(c, NumStatements)
  <2>1. \A k \in Keys : log[k] # None => log[k].by \in Calls
    BY DEF TypeOK, DatabaseTypeOK, Record
  <2>2. ~DryRun(c)
    BY DEF Whole
  <2>3. \A d \in Calls : DryRun(d)' <=> DryRun(d)
    BY DEF DryRun
  <2>4. \A k \in Keys : log'[k] # None =>
          /\ log'[k].status = "succeeded"
          /\ ~request[log'[k].by].dryRun
          /\ pc'[log'[k].by] \in {"rollback", "done"}
    BY <1>2, <2>1, <2>2 DEF HistoryInv, Onward, DryRun
  <2>5. \A e \in schema' : ~request[e[1]].dryRun
    BY <1>2, <2>2 DEF HistoryInv, Statements, DryRun
  <2> QED BY <2>4, <2>5 DEF HistoryInv, DryRun
<1> QED BY <1>1, <1>2, CommitTakesEffect

-------------------------------------------------------------------------------
(* The steps of a call, in its own session.                                *)

LEMMA CallOnward ==
  ASSUME ControlInv, NEW c \in Calls, CallStep(c)
  PROVE  Onward
<1>1. /\ pc \in [Calls -> Points] /\ pc[c] # "done"
      /\ \E point \in Points : pc' = [pc EXCEPT ![c] = point]
  BY CallStepControl DEF ControlInv, TypeOK, Running
<1>2. pc[c] = "rollback" => pc'[c] = "done"
  BY <1>1 DEF CallStep, Begin, Lock, Claim, RunStatement, StatementsDone, Succeed, ReadBack,
              Commit, Rollback, QueryRefused, QueryTimesOut, RollbackTimesOut,
              RollbackDropped, Awaits, QueriesOf, OpsAt, ReleaseWith, Goto
<1> QED BY <1>1, <1>2 DEF Onward

(* A step of a call that goes on in its transaction: the session stays     *)
(* held, and what the next point requires is there.                        *)
LEMMA GoesOnOK ==
  ASSUME TypeOK, NEW c \in Calls, NEW x \in Conns, x = conn[c], pool[x] = "held",
         pool' = pool, conn' = conn, inflight'[x] = None,
         NEW point \in Points, pc'[c] = point, point # "rollback",
         Footing(x, c, point)', point \in Early => next'[c] = 1
  PROVE  ConnOK(x)' /\ CallOK(c)'
<1>1. ConnOK(x)'
  BY DEF ConnOK
<1>2. CallOK(c)'
  BY DEF CallOK
<1> QED BY <1>1, <1>2

(* A step that turns to ROLLBACK with a truthful answer.                   *)
LEMMA TurnsBackOK ==
  ASSUME TypeOK, NEW c \in Calls, NEW x \in Conns, x = conn[c], pool[x] = "held",
         NEW a, RollBackWith(c, a), Truthful(c, a)',
         inflight'[x] = None \/ inflight'[x].op # "COMMIT"
  PROVE  ConnOK(x)' /\ CallOK(c)'
<1>1. pc'[c] = "rollback" /\ reply'[c] = a /\ conn' = conn /\ pool' = pool
  BY DEF RollBackWith, Goto, TypeOK
<1>2. ConnOK(x)'
  BY <1>1 DEF ConnOK
<1>3. CallOK(c)'
  BY <1>1 DEF CallOK, Footing, Early, Locked
<1> QED BY <1>2, <1>3

(* A call that ends leaves a session nobody writes in.                     *)
LEMMA ReleaseOK ==
  ASSUME TypeOK, NEW c \in Calls, NEW x \in Conns, x = conn[c], NEW a, ReleaseWith(c, a),
         Unused(x)'
  PROVE  ConnOK(x)' /\ CallOK(c)'
<1>1. pc'[c] = "done" /\ pool'[x] = "idle"
  BY DEF ReleaseWith, Goto, TypeOK
<1>2. ConnOK(x)'
  BY <1>1 DEF ConnOK, Unused
<1>3. CallOK(c)'
  BY <1>1 DEF CallOK, Early, Running
<1> QED BY <1>2, <1>3

(* What call c can rely on at a point of its code.                         *)
LEMMA AtPoint ==
  ASSUME SafeInv, PromiseInv, NEW c \in Calls, CallStep(c), NEW x, x = conn[c]
  PROVE  /\ x \in Conns /\ pool[x] = "held" /\ Key(c) \in Keys
         /\ TypeOK /\ ControlInv /\ DataInv /\ HistoryInv /\ request' = request /\ Onward
         /\ pc[c] \in Points /\ pc \in [Calls -> Points] /\ reply \in [Calls -> Replies]
         /\ inflight \in [Conns -> Query \cup {None}] /\ next \in [Calls -> 1..NumStatements + 1]
         /\ Ready(x, c, pc[c]) /\ Footing(x, c, pc[c])
         /\ pc[c] \in Early => next[c] = 1
         /\ pc[c] = "rollback" => Truthful(c, reply[c])
         /\ DryRun(c)' = DryRun(c) /\ Key(c)' = Key(c) /\ Command(c)' = Command(c)
<1>1. ControlInv /\ TypeOK /\ CallInv /\ DataInv /\ HistoryInv /\ CallOK(c)
  BY DEF SafeInv, ControlInv, PromiseInv
<1>2. Running(c) /\ request' = request
  BY <1>1, CallStepControl
<1>3. x \in Conns /\ pool[x] = "held" /\ Key(c) \in Keys
  BY <1>1, <1>2, HeldConn, RequestType
<1> QED BY <1>1, <1>2, <1>3, CallIsReady, CallOnward, KeyKept DEF CallOK, TypeOK

LEMMA BeginKeeps ==
  ASSUME SafeInv, PromiseInv, NEW c \in Calls, CallStep(c), Begin(c), NEW x, x = conn[c]
  PROVE  ConnOK(x)' /\ CallOK(c)' /\ HistoryInv'
<1> USE AtPoint
<1>1. /\ UNCHANGED <<txLog, txSchema, durableVars>> /\ txState'[x] = "open"
      /\ pc[c] = "begin" /\ pc'[c] = "lock" /\ inflight'[x] = None /\ inflight[x] = None
      /\ UNCHANGED <<conn, pool, next>>
  BY DEF Begin, BeginTx, Goto, Awaits, TypeOK, DatabaseTypeOK
<1>2. Footing(x, c, "lock")'
  BY <1>1 DEF Footing, Unused, Clean, Locked
<1> QED BY <1>1, <1>2, GoesOnOK, HistoryKept DEF Points, Early

LEMMA LockKeeps ==
  ASSUME SafeInv, PromiseInv, NEW c \in Calls, CallStep(c), Lock(c), NEW x, x = conn[c]
  PROVE  ConnOK(x)' /\ CallOK(c)' /\ HistoryInv'
<1> USE AtPoint
<1>1. /\ UNCHANGED <<sessionVars, durableVars>>
      /\ pc[c] = "lock" /\ pc'[c] = (IF DryRun(c) THEN "run" ELSE "claim")
      /\ inflight'[x] = None /\ UNCHANGED <<conn, pool, next>>
  BY DEF Lock, LockTx, Goto, Awaits
<1>2. txState'[x] = "open" /\ Clean(x)'
  BY <1>1 DEF Footing, Clean, sessionVars, Locked
<1>3. ASSUME NEW point \in {"run", "claim"}, point = pc'[c]
      PROVE  Footing(x, c, point)'
  BY <1>1, <1>2, <1>3 DEF Footing, Locked
<1> QED BY <1>1, <1>3, GoesOnOK, HistoryKept DEF Points, Early

LEMMA ClaimKeeps ==
  ASSUME SafeInv, PromiseInv, NEW c \in Calls, CallStep(c), Claim(c), NEW x, x = conn[c]
  PROVE  ConnOK(x)' /\ CallOK(c)' /\ HistoryInv'
<1> USE AtPoint
<1>1. /\ ClaimRow(x, c) /\ pc[c] = "claim" /\ inflight'[x] = None /\ next[c] = 1
      /\ Clean(x) /\ txState[x] = "open"
  BY DEF Claim, Awaits, Footing, Early, Locked
<1>2. VisibleRow(x, Key(c)) = log[Key(c)]
  BY <1>1 DEF Clean, VisibleRow
<1>3. log[Key(c)] # None =>
        log[Key(c)].status = "succeeded" /\ log[Key(c)].by # c /\ log[Key(c)] \in Record
  BY <1>1 DEF HistoryInv, TypeOK, DatabaseTypeOK
<1>4. CASE log[Key(c)] = None
  <2> DEFINE row == RunningRecord(c, Command(c))
  <2>1. ClaimOutcome(x, c) = "insert"
    BY <1>2, <1>4 DEF ClaimOutcome
  <2>2. WriteRow(x, Key(c), row) /\ pc'[c] = "run" /\ UNCHANGED <<conn, next, pool, durableVars>>
    BY <2>1 DEF Claim, ClaimRow, Goto, WriteRow, RollBackWith
  <2>3. /\ txLog' = [txLog EXCEPT ![x][Key(c)] = row] /\ txSchema' = txSchema
        /\ txState' = txState
    BY <2>2 DEF WriteRow
  <2>4. txLog'[x][Key(c)] = row /\ \A k \in Keys \ {Key(c)} : txLog'[x][k] = None
    BY <1>1, <2>3 DEF Clean, TypeOK, DatabaseTypeOK
  <2>5. row # None /\ row.command = Command(c) /\ row.status = "running" /\ row.by = c
    <3>1. row \in Record
      BY RequestType DEF RunningRecord, Record, Status
    <3> QED BY <3>1, NoneIsNotARecord DEF RunningRecord
  <2> HIDE DEF row
  <2>6. OwnRow(x, c, "running")'
    BY <2>4, <2>5 DEF OwnRow
  <2>7. txSchema'[x] = Statements(c, next'[c] - 1)
    BY <1>1, <2>2, <2>3 DEF Clean, Statements
  <2>8. Footing(x, c, "run")'
    BY <1>1, <2>3, <2>6, <2>7 DEF Footing, Statements
  <2> QED BY <1>1, <2>2, <2>8, GoesOnOK, HistoryKept DEF Points, Early
<1>5. CASE log[Key(c)] # None
  <2> DEFINE outcome == ClaimOutcome(x, c)
  <2>0. outcome = Classify(log[Key(c)], Command(c))
    BY ONLY <1>2, <1>5 DEF ClaimOutcome
  <2>1. \/ outcome = "replay" /\ log[Key(c)].command = Command(c)
        \/ outcome = "conflict" /\ log[Key(c)].command # Command(c)
    BY ONLY <1>3, <1>5, <2>0 DEF Classify
  <2>2. UNCHANGED dbVars
    BY <1>1, <2>1 DEF ClaimRow
  <2>3. \/ Truthful(c, "replayed") /\ RollBackWith(c, "replayed")
        \/ Truthful(c, "conflict") /\ RollBackWith(c, "conflict")
    BY <1>3, <1>5, <2>1 DEF Claim, Truthful
  <2>4. PICK a : Truthful(c, a) /\ RollBackWith(c, a)
    BY <2>3
  <2>5. log' = log /\ UNCHANGED durableVars
    BY <2>2 DEF dbVars, durableVars
  <2>6. Truthful(c, a)'
    BY <2>4, <2>5 DEF Truthful
  <2> QED BY <1>1, <2>4, <2>5, <2>6, TurnsBackOK, HistoryKept
<1> QED BY <1>4, <1>5

LEMMA RunKeeps ==
  ASSUME SafeInv, PromiseInv, NEW c \in Calls, CallStep(c), RunStatement(c), NEW x, x = conn[c]
  PROVE  ConnOK(x)' /\ CallOK(c)' /\ HistoryInv'
<1> USE AtPoint
<1>1. /\ pc[c] = "run" /\ pc'[c] = "run" /\ inflight'[x] = None
      /\ UNCHANGED <<conn, pool, durableVars, txState, txLog>>
      /\ txSchema' = [txSchema EXCEPT ![x] = @ \cup {<<c, next[c]>>}]
      /\ next' = [next EXCEPT ![c] = @ + 1] /\ next[c] <= NumStatements
  BY DEF RunStatement, RunStatementTx, Awaits
<1>2. txState'[x] = "open" /\ (~DryRun(c) => OwnRow(x, c, "running")')
  BY <1>1 DEF Footing, OwnRow, Locked
<1>3. ASSUME ~DryRun(c) PROVE txSchema'[x] = Statements(c, next'[c] - 1)
  <2>1. txSchema[x] = Statements(c, next[c] - 1)
    BY <1>1, <1>3 DEF Footing
  <2>2. txSchema'[x] = Statements(c, next[c] - 1) \cup {<<c, next[c]>>}
    BY <1>1, <2>1 DEF TypeOK, DatabaseTypeOK
  <2>3. next'[c] - 1 = next[c] /\ next[c] \in Nat \ {0}
    BY <1>1, NumStatementsPositive
  <2> QED BY <2>2, <2>3 DEF Statements
<1>4. Footing(x, c, "run")'
  BY <1>2, <1>3 DEF Footing, Statements
<1> QED BY <1>1, <1>4, GoesOnOK, HistoryKept DEF Points, Early

LEMMA StatementsDoneKeeps ==
  ASSUME SafeInv, PromiseInv, NEW c \in Calls, CallStep(c), StatementsDone(c), NEW x, x = conn[c]
  PROVE  ConnOK(x)' /\ CallOK(c)' /\ HistoryInv'
<1> USE AtPoint
<1>1. /\ pc[c] = "run" /\ inflight'[x] = None /\ UNCHANGED dbVars
      /\ next[c] = NumStatements + 1
  BY NumStatementsPositive DEF StatementsDone, Ready, Locked
<1>2. HistoryInv'
  BY <1>1, HistoryKept DEF dbVars
<1>3. CASE DryRun(c)
  <2>1. RollBackWith(c, "dryRun") /\ Truthful(c, "dryRun")'
    BY <1>3 DEF StatementsDone, Truthful
  <2> QED BY <1>1, <1>2, <2>1, TurnsBackOK
<1>4. CASE ~DryRun(c)
  <2>1. pc'[c] = "succeed" /\ UNCHANGED <<conn, next, pool>>
    BY <1>4 DEF StatementsDone, Goto
  <2>2. Footing(x, c, "run")' /\ txState'[x] = "open"
    BY <1>1, <2>1, SessionKept DEF dbVars, sessionVars, Footing, Locked
  <2>3. Footing(x, c, "succeed")'
    BY <1>1, <2>1, <2>2 DEF Footing
  <2> QED BY <1>1, <1>2, <2>1, <2>3, GoesOnOK DEF Points, Early
<1> QED BY <1>3, <1>4

LEMMA SucceedKeeps ==
  ASSUME SafeInv, PromiseInv, NEW c \in Calls, CallStep(c), Succeed(c), NEW x, x = conn[c]
  PROVE  ConnOK(x)' /\ CallOK(c)' /\ HistoryInv'
<1> USE AtPoint
<1> DEFINE row == Finished(VisibleRow(x, Key(c)), "succeeded")
<1>1. /\ SucceedRow(x, c) /\ pc[c] = "succeed" /\ inflight'[x] = None
      /\ ~DryRun(c) /\ txState[x] = "open" /\ next[c] = NumStatements + 1
  BY DEF Succeed, Awaits, Footing, Ready, Locked
<1>2. OwnRow(x, c, "running") /\ txSchema[x] = Statements(c, NumStatements)
  <2>1. OwnRow(x, c, "running") /\ txSchema[x] = Statements(c, next[c] - 1)
    BY <1>1 DEF Footing
  <2>2. next[c] - 1 = NumStatements
    BY <1>1, NumStatementsPositive
  <2> QED BY <2>1, <2>2
<1>3. VisibleRow(x, Key(c)) = txLog[x][Key(c)] /\ VisibleRow(x, Key(c)).status = "running"
      /\ VisibleRow(x, Key(c)) \in Record /\ VisibleRow(x, Key(c)) # None
  BY <1>2 DEF OwnRow, VisibleRow, TypeOK, DatabaseTypeOK
<1>4. row \in Record /\ row.status = "succeeded" /\ row.command = Command(c) /\ row.by = c
  BY <1>2, <1>3 DEF Finished, Record, Status, OwnRow
<1>5. WriteRow(x, Key(c), row) /\ pc'[c] = "reread" /\ UNCHANGED <<conn, next, pool>>
  BY <1>1, <1>3 DEF Succeed, SucceedRow, Goto
<1>6. /\ txLog' = [txLog EXCEPT ![x][Key(c)] = row]
      /\ txSchema' = txSchema /\ txState' = txState /\ UNCHANGED durableVars
  BY <1>5 DEF WriteRow
<1> HIDE DEF row
<1>7. txLog'[x][Key(c)] = row /\ \A k \in Keys \ {Key(c)} : txLog'[x][k] = None
  BY <1>2, <1>6 DEF OwnRow, TypeOK, DatabaseTypeOK
<1>8. OwnRow(x, c, "succeeded")'
  BY <1>4, <1>7, NoneIsNotARecord DEF OwnRow
<1>9. Whole(x, c)'
  BY <1>1, <1>2, <1>6, <1>8 DEF Whole, Statements
<1>10. Footing(x, c, "reread")'
  BY <1>1, <1>6, <1>9 DEF Footing
<1> QED BY <1>1, <1>5, <1>6, <1>10, GoesOnOK, HistoryKept DEF Points, Early

LEMMA ReadBackKeeps ==
  ASSUME SafeInv, PromiseInv, NEW c \in Calls, CallStep(c), ReadBack(c), NEW x, x = conn[c]
  PROVE  ConnOK(x)' /\ CallOK(c)' /\ HistoryInv'
<1> USE AtPoint
<1>1. /\ pc[c] = "reread" /\ pc'[c] = "commit" /\ inflight'[x] = None
      /\ UNCHANGED <<dbVars, conn, next, pool>>
  BY DEF ReadBack, Awaits, Goto
<1>2. Whole(x, c) /\ txState[x] = "open"
  BY <1>1 DEF Footing, Locked
<1>3. Whole(x, c)' /\ txState'[x] = "open"
  BY <1>1, <1>2, SessionKept DEF dbVars, sessionVars
<1>4. Footing(x, c, "commit")'
  BY <1>3 DEF Footing
<1> QED BY <1>1, <1>4, GoesOnOK, HistoryKept DEF Points, Early, dbVars

LEMMA EndsKeep ==
  ASSUME SafeInv, PromiseInv, NEW c \in Calls, CallStep(c), Commit(c) \/ Rollback(c),
         NEW x, x = conn[c]
  PROVE  ConnOK(x)' /\ CallOK(c)' /\ HistoryInv'
<1> USE AtPoint
<1>1. inflight'[x] = None /\ (CommitTx(x) \/ RollbackTx(x)) /\ \E a : ReleaseWith(c, a)
  BY DEF Commit, Rollback, Awaits
<1>2. Unused(x)'
  BY <1>1, EndTxCleans DEF Unused
<1>3. ConnOK(x)' /\ CallOK(c)'
  BY <1>1, <1>2, ReleaseOK
<1>4. CASE Rollback(c)
  BY <1>3, <1>4, HistoryKept DEF Rollback, RollbackTx
<1>5. CASE Commit(c)
  <2>1. CommitTx(x) /\ Whole(x, c) /\ pc'[c] = "done"
    BY <1>5 DEF Commit, Awaits, Footing, ReleaseWith, Goto
  <2> QED BY <1>3, <2>1, CommitKeepsHistory
<1> QED BY <1>4, <1>5

LEMMA RefusedKeeps ==
  ASSUME SafeInv, PromiseInv, NEW c \in Calls, CallStep(c), QueryRefused(c), NEW x, x = conn[c]
  PROVE  ConnOK(x)' /\ CallOK(c)' /\ HistoryInv'
<1> USE AtPoint
<1>1. PICK query \in QueriesOf(c) : inflight[x] = None /\ Refuse(x, query)
  BY DEF QueryRefused
<1>2. PICK a \in {"inProgress", "error"} : AfterFailure(c, a)
  BY DEF QueryRefused, WaitConflict
<1>3. inflight'[x] = None /\ UNCHANGED durableVars
  BY <1>1 DEF QueryRefused, Refuse, RollbackTx, AbortTx
<1>4. HistoryInv'
  BY <1>3, HistoryKept
<1>5. CASE pc[c] = "begin"
  <2>1. UNCHANGED <<txLog, txSchema>> /\ ReleaseWith(c, a)
    BY <1>1, <1>2, <1>5 DEF AfterFailure, QueriesOf, OpsAt, Refuse, AbortTx
  <2>2. Unused(x)'
    BY <1>1, <1>3, <1>5, <2>1 DEF Footing, Unused, Clean
  <2> QED BY <1>4, <2>1, <2>2, ReleaseOK
<1>6. CASE pc[c] # "begin"
  <2>1. RollBackWith(c, a) /\ Truthful(c, a)'
    BY <1>2, <1>6 DEF AfterFailure, Truthful
  <2> QED BY <1>3, <1>4, <2>1, TurnsBackOK
<1> QED BY <1>5, <1>6

LEMMA TimedOutKeeps ==
  ASSUME SafeInv, PromiseInv, NEW c \in Calls, CallStep(c), QueryTimesOut(c), NEW x, x = conn[c]
  PROVE  ConnOK(x)' /\ CallOK(c)' /\ HistoryInv'
<1> USE AtPoint
<1>1. PICK query \in QueriesOf(c) :
        inflight' = [inflight EXCEPT ![x] = IF @ = None THEN query ELSE @]
  BY DEF QueryTimesOut
<1>2. PICK a \in {"inProgress", "error"} : a = WaitConflict(c)
  BY DEF WaitConflict
<1>3. UNCHANGED dbVars /\ AfterFailure(c, a)
  BY <1>2 DEF QueryTimesOut
<1>4. HistoryInv'
  BY <1>3, HistoryKept DEF dbVars
<1>5. inflight'[x] = (IF inflight[x] = None THEN query ELSE inflight[x]) /\ query.call = c
  BY <1>1 DEF QueriesOf
<1>6. CASE pc[c] = "begin"
  <2>1. ReleaseWith(c, a) /\ query.op = "BEGIN"
    BY <1>1, <1>3, <1>6 DEF AfterFailure, QueriesOf, OpsAt
  <2>2. Unused(x)'
    BY <1>3, <1>5, <1>6, <2>1 DEF Footing, Unused, Clean, dbVars, sessionVars
  <2> QED BY <1>4, <2>1, <2>2, ReleaseOK
<1>7. CASE pc[c] # "begin"
  <2>1. RollBackWith(c, a) /\ Truthful(c, a)'
    BY <1>2, <1>3, <1>7 DEF AfterFailure, Truthful
  <2>2. inflight[x] = None /\ inflight'[x] = query
    BY <1>1, <1>5, <1>7 DEF Ready, Locked, QueriesOf, OpsAt
  <2>3. CASE query.op # "COMMIT"
    BY <1>4, <2>1, <2>2, <2>3, TurnsBackOK
  <2>4. CASE query.op = "COMMIT"
    <3>1. pc[c] = "commit" /\ a = "error"
      BY <1>1, <1>2, <2>4 DEF QueriesOf, OpsAt, WaitConflict
    <3>2. Whole(x, c)'
      BY <1>3, <3>1, SessionKept DEF Footing, dbVars, sessionVars
    <3>3. pc'[c] = "rollback" /\ reply'[c] = "error" /\ conn' = conn /\ pool' = pool
      BY <2>1, <3>1 DEF RollBackWith, Goto
    <3>4. ConnOK(x)'
      BY <1>5, <2>2, <3>2, <3>3 DEF ConnOK, Unsettled
    <3>5. CallOK(c)'
      BY <2>1, <3>1, <3>3 DEF CallOK, Footing, Early, Locked
    <3> QED BY <1>4, <3>4, <3>5
  <2> QED BY <2>3, <2>4
<1> QED BY <1>6, <1>7

LEMMA RollbackTimedOutKeeps ==
  ASSUME SafeInv, PromiseInv, NEW c \in Calls, CallStep(c), RollbackTimesOut(c), NEW x, x = conn[c]
  PROVE  ConnOK(x)' /\ CallOK(c)' /\ HistoryInv'
<1> USE AtPoint
<1>1. UNCHANGED dbVars /\ inflight'[x] = [op |-> "ROLLBACK", call |-> c]
      /\ inflight'[x] \in Query /\ \E a : ReleaseWith(c, a)
  BY DEF RollbackTimesOut, Query, Ops
<1>2. Unused(x)'
  BY <1>1, NoneIsNotAQuery DEF Unused
<1> QED BY <1>1, <1>2, ReleaseOK, HistoryKept DEF dbVars

LEMMA CallKeepsPromise ==
  ASSUME ~RollbackMayBeDropped, SafeInv, PromiseInv, NEW c \in Calls, CallStep(c),
         NEW x, x = conn[c]
  PROVE  ConnOK(x)' /\ CallOK(c)' /\ HistoryInv'
BY BeginKeeps, LockKeeps, ClaimKeeps, RunKeeps, StatementsDoneKeeps, SucceedKeeps, ReadBackKeeps,
   EndsKeep, RefusedKeeps, TimedOutKeeps, RollbackTimedOutKeeps DEF CallStep, RollbackDropped

-------------------------------------------------------------------------------
(* The other steps.                                                        *)

(* The holder of a session is the only call there.                         *)
LEMMA OneHolder ==
  ASSUME ControlInv, NEW c \in Calls, NEW d \in Calls \ {c}, Running(c), Running(d)
  PROVE  conn[d] # conn[c]
BY HeldConn DEF ControlInv, ConnInv

LEMMA NothingHappens ==
  ASSUME UNCHANGED dbVars
  PROVE  \A x : OthersKeep(x)
BY DEF OthersKeep, dbVars, sessionVars

LEMMA ConnectKeeps ==
  ASSUME SafeInv, PromiseInv, NEW c \in Calls, Connect(c)
  PROVE  PromiseInv'
<1>1. /\ UNCHANGED <<request, next, reply, inflight, dbVars>> /\ pc[c] = "idle"
      /\ pc' = [pc EXCEPT ![c] = "begin"]
  BY DEF Connect, Goto
<1>2. PICK x \in Conns : /\ pool[x] \in {"idle", "free"}
                         /\ pool' = [pool EXCEPT ![x] = "held"]
                         /\ conn' = [conn EXCEPT ![c] = x]
  BY DEF Connect
<1>3. TypeOK /\ ControlInv /\ HistoryInv /\ ConnOK(x) /\ CallOK(c)
  BY DEF SafeInv, ControlInv, PromiseInv
<1>4. Unused(x)
  BY <1>2, <1>3 DEF ConnOK, Unused
<1>5. Unused(x)'
  BY <1>1, <1>4, SessionKept DEF dbVars, sessionVars
<1>6. ConnOK(x)'
  BY <1>1, <1>2, <1>3, <1>4 DEF ConnOK, Unused, TypeOK
<1>7. pc'[c] = "begin" /\ conn'[c] = x /\ next'[c] = 1
  BY <1>1, <1>2, <1>3 DEF TypeOK, CallOK, Early
<1>8. CallOK(c)'
  BY <1>5, <1>7 DEF CallOK, Footing, Locked
<1>9. \A d \in Calls : Running(d) => conn[d] # x
  BY <1>2, <1>3, HeldConn
<1>10. /\ \A y \in Conns \ {x} : ConnOK(y)'
       /\ \A d \in Calls \ {c} : CallOK(d)'
  <2>1. OthersKeep(x) /\ log' = log
    BY <1>1, NothingHappens DEF dbVars, durableVars
  <2>2. \A d \in Calls \ {c} : pc'[d] = pc[d] /\ conn'[d] = conn[d]
    BY <1>1, <1>2, <1>3 DEF TypeOK
  <2>3. \A y \in Conns \ {x} : pool'[y] = pool[y]
    BY <1>2, <1>3 DEF TypeOK
  <2>4. {c} \in SUBSET Calls /\ \A d \in {c} : pc[d] = "idle"
    BY <1>1
  <2> QED BY <1>1, <1>9, <2>1, <2>2, <2>3, <2>4, Elsewhere
<1>11. HistoryInv'
  BY <1>1, <1>3, HistoryKept DEF Onward, TypeOK, dbVars
<1> QED BY <1>6, <1>8, <1>10, <1>11 DEF PromiseInv

LEMMA ConnectFailsKeeps ==
  ASSUME SafeInv, PromiseInv, NEW c \in Calls, ConnectFails(c)
  PROVE  PromiseInv'
<1>1. /\ UNCHANGED <<request, next, conn, pool, inflight, dbVars>> /\ pc[c] = "idle"
      /\ pc' = [pc EXCEPT ![c] = "done"] /\ reply' = [reply EXCEPT ![c] = "error"]
  BY DEF ConnectFails, Goto
<1>2. TypeOK /\ ControlInv /\ HistoryInv
  BY DEF SafeInv, ControlInv, PromiseInv
<1>3. pc'[c] = "done" /\ \A d \in Calls \ {c} : pc'[d] = pc[d] /\ reply'[d] = reply[d]
  BY <1>1, <1>2 DEF TypeOK
<1>4. CallOK(c)'
  BY <1>3 DEF CallOK, Early, Running
<1>5. /\ \A y \in Conns : ConnOK(y)'
      /\ \A d \in Calls \ {c} : CallOK(d)'
  <2>1. OthersKeep(None) /\ log' = log
    BY <1>1, NothingHappens DEF dbVars, durableVars
  <2>2. \A d \in Calls : Running(d) => conn[d] # None
    BY <1>2 DEF ControlInv, ConnInv
  <2>3. /\ {c} \in SUBSET Calls
        /\ \A e \in {c} : pc[e] # "done" /\ (pc[e] = "rollback" => conn[e] = None)
    BY <1>1
  <2>4. \A y \in Conns \ {None} : pool'[y] = pool[y] /\ inflight'[y] = inflight[y]
    BY <1>1
  <2>5. \A k \in Keys : log[k] # None => log'[k] = log[k]
    BY <2>1
  <2>6. \A d \in Calls \ {c} : /\ pc'[d] = pc[d] /\ conn'[d] = conn[d]
                               /\ next'[d] = next[d] /\ reply'[d] = reply[d]
    BY <1>1, <1>3
  <2>7. request' = request
    BY <1>1
  <2>8. /\ \A y \in Conns \ {None} : ConnOK(y)'
        /\ \A d \in Calls \ {c} : (Running(d) => conn[d] # None) => CallOK(d)'
    BY <2>1, <2>3, <2>4, <2>5, <2>6, <2>7, Elsewhere
  <2> QED BY <2>2, <2>8, NoneIsNotAConn
<1>6. HistoryInv'
  BY <1>1, <1>2, HistoryKept DEF Onward, TypeOK, dbVars
<1> QED BY <1>4, <1>5, <1>6 DEF PromiseInv

(* What becomes of an abandoned COMMIT when its session breaks.            *)
LEMMA DisconnectKeeps ==
  ASSUME SafeInv, PromiseInv, NEW c \in Calls, Disconnect(c)
  PROVE  PromiseInv'
<1>1. /\ UNCHANGED <<request, next, dbVars>> /\ conn[c] # None
      /\ pc' = [pc EXCEPT ![c] = "done"]
      /\ reply' = [reply EXCEPT ![c] = IF pc[c] = "rollback" THEN AfterFailedRollback(c) ELSE "error"]
      /\ conn' = [conn EXCEPT ![c] = None] /\ pool' = [pool EXCEPT ![conn[c]] = "closing"]
      /\ inflight' = IF pc[c] = "commit" THEN [inflight EXCEPT ![conn[c]] = SentCommit(c)]
                     ELSE inflight
  BY DEF Disconnect, Goto
<1>2. TypeOK /\ ControlInv /\ HistoryInv /\ Running(c) /\ CallOK(c)
  BY <1>1 DEF SafeInv, ControlInv, PromiseInv, ConnInv
<1>3. PICK x \in Conns : x = conn[c] /\ pool[x] = "held" /\ ConnOK(x)
  BY <1>2, HeldConn DEF PromiseInv
<1>4. /\ pc'[c] = "done" /\ pool'[x] = "closing"
      /\ reply'[c] = IF pc[c] = "rollback" THEN AfterFailedRollback(c) ELSE "error"
      /\ \A d \in Calls \ {c} : pc'[d] = pc[d] /\ conn'[d] = conn[d] /\ reply'[d] = reply[d]
      /\ \A y \in Conns \ {x} : pool'[y] = pool[y] /\ inflight'[y] = inflight[y]
  BY <1>1, <1>2, <1>3 DEF TypeOK
<1>5. CallOK(c)'
  BY <1>4 DEF CallOK, Early, Running
<1>6. \A d \in Calls : Whole(x, d) => Whole(x, d)'
  BY <1>1, SessionKept DEF dbVars, sessionVars
<1>7. ASSUME NEW d \in Calls, NEW query, query = inflight'[x], query # None,
             query.op = "COMMIT", query.call = d
      PROVE  Whole(x, d)' /\ Unsettled(x, d)'
  <2>1. CASE pc[c] = "commit"
    <3>1. d = c /\ Whole(x, c)
      BY <1>1, <1>2, <1>3, <1>7, <2>1, SentCommitType DEF TypeOK, CallOK, Footing
    <3> QED BY <1>4, <1>6, <2>1, <3>1 DEF Unsettled
  <2>2. CASE pc[c] # "commit"
    <3>1. Whole(x, d) /\ Unsettled(x, d)
      BY <1>1, <1>3, <1>7, <2>2 DEF ConnOK
    <3>2. CASE d = c
      <4>1. pc[c] = "rollback" /\ reply[c] = "error"
        BY <1>2, <3>1, <3>2 DEF Unsettled, Running
      <4> QED BY <1>4, <1>6, <3>1, <3>2, <4>1 DEF Unsettled, AfterFailedRollback
    <3>3. CASE d # c
      BY <1>4, <1>6, <3>1, <3>3 DEF Unsettled
    <3> QED BY <3>2, <3>3
  <2> QED BY <2>1, <2>2
<1>8. ConnOK(x)'
  <2>1. PICK query : query = inflight'[x]
    OBVIOUS
  <2>2. query \in Query \cup {None}
    BY <1>1, <1>2, <1>3, <2>1, SentCommitType DEF TypeOK
  <2>3. query # None /\ query.op = "COMMIT" => Whole(x, query.call)' /\ Unsettled(x, query.call)'
    BY <1>7, <2>1, <2>2 DEF Query
  <2> QED BY <1>4, <2>1, <2>3 DEF ConnOK
<1>9. /\ \A y \in Conns \ {x} : ConnOK(y)'
      /\ \A d \in Calls \ {c} : CallOK(d)'
  <2>1. OthersKeep(x) /\ log' = log
    BY <1>1, NothingHappens DEF dbVars, durableVars
  <2>2. \A d \in Calls \ {c} : Running(d) => conn[d] # x
    BY <1>2, <1>3, OneHolder
  <2>3. {c} \in SUBSET Calls /\ \A d \in {c} : pc[d] # "done" /\ conn[d] = x
    BY <1>2, <1>3 DEF Running
  <2>4. /\ request' = request /\ \A k \in Keys : log[k] # None => log'[k] = log[k]
        /\ \A d \in Calls \ {c} : /\ pc'[d] = pc[d] /\ conn'[d] = conn[d]
                                 /\ next'[d] = next[d] /\ reply'[d] = reply[d]
        /\ \A y \in Conns \ {x} : pool'[y] = pool[y] /\ inflight'[y] = inflight[y]
    BY <1>1, <1>4, <2>1
  <2> QED BY <2>1, <2>2, <2>3, <2>4, Elsewhere
<1>10. HistoryInv'
  BY <1>1, <1>2, <1>4, HistoryKept DEF Onward, dbVars
<1> QED BY <1>5, <1>8, <1>9, <1>10 DEF PromiseInv

(* A session nobody writes in stays so while the server works for it.      *)
LEMMA FinishKeepsUnused ==
  ASSUME TypeOK, NEW x \in Conns, Unused(x), FinishAbandoned(x)
  PROVE  Unused(x)'
<1>1. /\ inflight[x].op \in {"BEGIN", "ROLLBACK"} /\ inflight'[x] = None
      /\ inflight[x].op = "BEGIN" => Clean(x)
  BY DEF Unused, FinishAbandoned, TypeOK
<1>2. CASE inflight[x].op = "BEGIN"
  <2>1. UNCHANGED <<txLog, txSchema>>
    BY <1>2 DEF FinishAbandoned, Serve, Refuse, BeginTx, AbortTx
  <2> QED BY <1>1, <1>2, <2>1 DEF Unused, Clean
<1>3. CASE inflight[x].op = "ROLLBACK"
  <2>1. RollbackTx(x)
    BY <1>3 DEF FinishAbandoned, Serve, Refuse
  <2> QED BY <1>1, <2>1, EndTxCleans DEF Unused
<1> QED BY <1>1, <1>2, <1>3

LEMMA ServerKeeps ==
  ASSUME SafeInv, PromiseInv, [Next]_vars, NEW x \in Conns, FinishAbandoned(x) \/ SessionEnds(x)
  PROVE  PromiseInv'
<1>1. /\ UNCHANGED <<request, pc, conn, next, reply>>
      /\ inflight' = [inflight EXCEPT ![x] = None]
  BY DEF FinishAbandoned, SessionEnds, callVars
<1>2. TypeOK /\ ControlInv /\ DataInv /\ HistoryInv /\ ConnOK(x) /\ CallInv
  BY DEF SafeInv, ControlInv, PromiseInv
<1>3. inflight'[x] = None /\ \A y \in Conns \ {x} : inflight'[y] = inflight[y]
  BY <1>1, <1>2 DEF TypeOK
<1>4. \A y \in Conns \ {x} : pool'[y] = pool[y]
  BY <1>2 DEF FinishAbandoned, SessionEnds, TypeOK
<1>5. OthersKeep(x)
  <2>1. CASE SessionEnds(x)
    BY <1>2, <2>1, OperationsKeepOthers DEF SessionEnds
  <2>2. CASE FinishAbandoned(x)
    <3>1. inflight[x] \in Query
      BY <1>2, <2>2 DEF FinishAbandoned, TypeOK
    <3> QED BY <1>2, <2>2, <3>1, QueriesKeepOthers DEF FinishAbandoned
  <2> QED BY <2>1, <2>2
<1>6. \A k \in Keys : log[k] # None => log'[k] = log[k]
  BY HistoryGrows
<1>7. /\ \A y \in Conns \ {x} : ConnOK(y)'
      /\ \A d \in Calls : (Running(d) => conn[d] # x) => CallOK(d)'
  <2>1. {} \in SUBSET Calls
    OBVIOUS
  <2> QED BY <1>1, <1>3, <1>4, <1>5, <1>6, <2>1, Elsewhere
<1>8. ConnOK(x)'
  <2>1. CASE SessionEnds(x)
    <3>1. Clean(x)'
      BY <1>2, <2>1, EndTxCleans DEF SessionEnds
    <3>2. pool'[x] = "free"
      BY <1>2, <2>1 DEF SessionEnds, TypeOK
    <3> QED BY <1>3, <3>1, <3>2 DEF ConnOK
  <2>2. CASE FinishAbandoned(x)
    <3>1. pool'[x] = pool[x] /\ pool[x] # "free"
      BY <1>2, <2>2 DEF FinishAbandoned, ConnOK
    <3>2. pool[x] = "idle" => Unused(x)'
      BY <1>2, <2>2, FinishKeepsUnused DEF ConnOK
    <3> QED BY <1>3, <3>1, <3>2 DEF ConnOK
  <2> QED BY <2>1, <2>2
<1>9. ASSUME NEW d \in Calls, Running(d), conn[d] = x PROVE CallOK(d)'
  <2>1. FinishAbandoned(x)
    BY <1>2, <1>9, HeldConn DEF SessionEnds
  <2>2. pc[d] \in {"begin", "rollback"}
    BY <1>2, <1>9, <2>1 DEF FinishAbandoned, CallInv, Locked, Running, TypeOK, Points
  <2>3. CallOK(d)
    BY DEF PromiseInv
  <2>4. pc[d] = "begin" => Unused(x)'
    BY <1>2, <1>9, <2>1, <2>3, FinishKeepsUnused DEF CallOK, Footing
  <2>5. PICK a : a = reply[d]
    OBVIOUS
  <2>6. pc[d] = "rollback" => Truthful(d, a)'
    BY <1>1, <1>2, <1>6, <2>3, <2>5, TruthKept DEF CallOK
  <2> QED BY <1>1, <1>9, <2>2, <2>3, <2>4, <2>5, <2>6 DEF CallOK, Footing, Locked
<1>10. HistoryInv'
  <2>1. Onward
    BY <1>1 DEF Onward
  <2>2. CASE UNCHANGED durableVars
    BY <1>1, <1>2, <2>1, <2>2, HistoryKept
  <2>3. CASE inflight[x] # None /\ inflight[x].op = "COMMIT" /\ CommitTx(x)
    <3>1. PICK d \in Calls : d = inflight[x].call
      BY <1>2, <2>3 DEF TypeOK, Query
    <3>2. Whole(x, d) /\ pc'[d] \in {"rollback", "done"}
      BY <1>1, <1>2, <2>3, <3>1 DEF ConnOK, Unsettled
    <3> QED BY <1>1, <1>2, <2>1, <2>3, <3>2, CommitKeepsHistory
  <2>4. UNCHANGED durableVars \/ (inflight[x] # None /\ inflight[x].op = "COMMIT" /\ CommitTx(x))
    BY DEF FinishAbandoned, SessionEnds, Serve, Refuse, BeginTx, LockTx, AbortTx, RollbackTx,
           RunStatementTx, ClaimRow, SucceedRow, WriteRow, dbVars
  <2> QED BY <2>2, <2>3, <2>4
<1> QED BY <1>7, <1>8, <1>9, <1>10 DEF PromiseInv

LEMMA EvictKeeps ==
  ASSUME SafeInv, PromiseInv, NEW x \in Conns, EvictIdle(x)
  PROVE  PromiseInv'
<1>1. /\ UNCHANGED <<request, pc, conn, next, reply, inflight, dbVars>> /\ pool[x] = "idle"
      /\ pool' = [pool EXCEPT ![x] = "closing"]
  BY DEF EvictIdle, callVars
<1>2. TypeOK /\ ControlInv /\ HistoryInv /\ ConnOK(x)
  BY DEF SafeInv, ControlInv, PromiseInv
<1>3. pool'[x] = "closing" /\ \A y \in Conns \ {x} : pool'[y] = pool[y]
  BY <1>1, <1>2 DEF TypeOK
<1>4. ConnOK(x)'
  BY <1>1, <1>2, <1>3 DEF ConnOK, Unused
<1>5. /\ \A y \in Conns \ {x} : ConnOK(y)'
      /\ \A d \in Calls : CallOK(d)'
  <2>1. OthersKeep(x) /\ log' = log
    BY <1>1, NothingHappens DEF dbVars, durableVars
  <2>2. \A d \in Calls : Running(d) => conn[d] # x
    BY <1>1, <1>2, HeldConn
  <2>3. {} \in SUBSET Calls
    OBVIOUS
  <2> QED BY <1>1, <1>3, <2>1, <2>2, <2>3, Elsewhere
<1>6. HistoryInv'
  BY <1>1, <1>2, HistoryKept DEF Onward, dbVars
<1> QED BY <1>4, <1>5, <1>6 DEF PromiseInv

LEMMA CrashKeeps ==
  ASSUME SafeInv, PromiseInv, Crash
  PROVE  PromiseInv'
<1>1. /\ UNCHANGED <<request, next, dbVars>>
      /\ pc' = [c \in Calls |-> IF Running(c) THEN "done" ELSE pc[c]]
      /\ reply' = [c \in Calls |-> IF Running(c) THEN "lost" ELSE reply[c]]
      /\ pool' = [x \in Conns |-> IF pool[x] = "free" THEN "free" ELSE "closing"]
  BY DEF Crash
<1>2. TypeOK /\ ControlInv /\ HistoryInv
  BY DEF SafeInv, ControlInv, PromiseInv
<1>3. ASSUME NEW c \in Calls PROVE CallOK(c)'
  <2>1. CallOK(c)
    BY DEF PromiseInv
  <2> QED BY <1>1, <2>1 DEF CallOK, Running, Early
<1>4. ASSUME NEW x \in Conns PROVE ConnOK(x)'
  <2>1. ConnOK(x) /\ (pool'[x] = IF pool[x] = "free" THEN "free" ELSE "closing")
    BY <1>1 DEF PromiseInv
  <2>2. (Clean(x) => Clean(x)') /\ \A d \in Calls : Whole(x, d) => Whole(x, d)'
    BY <1>1, SessionKept DEF dbVars, sessionVars
  <2>3. CASE \E c \in Calls : conn[c] = x /\ pc[c] = "commit"
    <3>1. PICK c \in Calls : conn[c] = x /\ pc[c] = "commit"
      BY <2>3
    <3>2. (CHOOSE d \in Calls : conn[d] = x) = c
      BY <1>2, <3>1, NoneIsNotAConn DEF ControlInv, ConnInv
    <3>3. inflight'[x] = SentCommit(c)
      BY <2>3, <3>2 DEF Crash
    <3>4. Running(c) /\ Whole(x, c)
      BY <3>1 DEF PromiseInv, CallOK, Footing, Running
    <3>5. pool[x] = "held"
      BY <1>2, <3>1, <3>4, HeldConn
    <3>6. Whole(x, c)' /\ Unsettled(x, c)'
      BY <1>1, <2>2, <3>4 DEF Unsettled
    <3>7. inflight'[x].call = c
      BY <3>3, SentCommitType
    <3> QED BY <2>1, <3>5, <3>6, <3>7 DEF ConnOK
  <2>4. CASE ~\E c \in Calls : conn[c] = x /\ pc[c] = "commit"
    <3>1. inflight'[x] = inflight[x]
      BY <2>4 DEF Crash
    <3>2. ASSUME inflight[x] # None, inflight[x].op = "COMMIT", NEW d \in Calls,
                 d = inflight[x].call
          PROVE  Whole(x, d)' /\ Unsettled(x, d)'
      <4>1. Whole(x, d) /\ Unsettled(x, d)
        BY <2>1, <3>2 DEF ConnOK
      <4> QED BY <1>1, <2>2, <4>1 DEF Unsettled, Running
    <3>3. inflight[x] # None => inflight[x].call \in Calls
      BY <1>2 DEF TypeOK, Query
    <3> QED BY <2>1, <2>2, <3>1, <3>2, <3>3 DEF ConnOK
  <2> QED BY <2>3, <2>4
<1>5. HistoryInv'
  BY <1>1, <1>2, HistoryKept DEF Onward, dbVars
<1> QED BY <1>3, <1>4, <1>5 DEF PromiseInv

LEMMA PromiseStep ==
  ASSUME ~RollbackMayBeDropped, SafeInv, PromiseInv, [Next]_vars
  PROVE  PromiseInv'
<1>1. ASSUME NEW c \in Calls, CallStep(c) PROVE PromiseInv'
  <2>1. TypeOK /\ ControlInv /\ Running(c) /\ request' = request
    BY <1>1, CallStepControl DEF SafeInv, ControlInv
  <2>2. PICK x \in Conns : x = conn[c]
    BY <2>1, HeldConn
  <2>3. ConnOK(x)' /\ CallOK(c)' /\ HistoryInv'
    BY <1>1, <2>2, CallKeepsPromise
  <2>4. /\ \A d \in Calls \ {c} : /\ pc'[d] = pc[d] /\ conn'[d] = conn[d]
                                 /\ next'[d] = next[d] /\ reply'[d] = reply[d]
        /\ \A y \in Conns \ {x} : pool'[y] = pool[y] /\ inflight'[y] = inflight[y]
    BY <1>1, <2>1, <2>2, CallStepControl DEF TypeOK
  <2>5. OthersKeep(x) /\ \A d \in Calls \ {c} : Running(d) => conn[d] # x
    BY <1>1, <2>1, <2>2, CallKeepsOthers, OneHolder
  <2>6. \A k \in Keys : log[k] # None => log'[k] = log[k]
    BY HistoryGrows
  <2>7. {c} \in SUBSET Calls /\ \A d \in {c} : pc[d] # "done" /\ conn[d] = x
    BY <2>1, <2>2 DEF Running
  <2>8. /\ \A y \in Conns \ {x} : ConnOK(y)'
        /\ \A d \in Calls \ {c} : CallOK(d)'
    BY <2>1, <2>4, <2>5, <2>6, <2>7, Elsewhere
  <2> QED BY <2>3, <2>8 DEF PromiseInv
<1>2. ASSUME NEW x \in Conns, ServerStep(x) PROVE PromiseInv'
  BY <1>2, ServerKeeps, EvictKeeps DEF ServerStep
<1>3. CASE UNCHANGED vars
  <2>1. UNCHANGED <<request, pc, conn, next, reply, pool, inflight, dbVars>>
    BY <1>3 DEF vars, callVars
  <2>2. TypeOK /\ ControlInv /\ HistoryInv
    BY DEF SafeInv, ControlInv, PromiseInv
  <2>3. OthersKeep(None) /\ log' = log
    BY <2>1, NothingHappens DEF dbVars, durableVars
  <2>4. \A d \in Calls : Running(d) => conn[d] # None
    BY <2>2 DEF ControlInv, ConnInv
  <2>5. {} \in SUBSET Calls
    OBVIOUS
  <2>6. (\A y \in Conns : ConnOK(y)') /\ \A d \in Calls : CallOK(d)'
    BY <2>1, <2>3, <2>4, <2>5, Elsewhere, NoneIsNotAConn
  <2>7. HistoryInv'
    BY <2>1, <2>2, HistoryKept DEF Onward, dbVars
  <2> QED BY <2>6, <2>7 DEF PromiseInv
<1> QED BY <1>1, <1>2, <1>3, ConnectKeeps, ConnectFailsKeeps, DisconnectKeeps, CrashKeeps DEF Next

LEMMA PromiseInit == Init => PromiseInv
<1> SUFFICES ASSUME Init PROVE PromiseInv
  OBVIOUS
<1>1. \A x \in Conns : Clean(x) /\ inflight[x] = None
  BY DEF Init, DatabaseInit, Clean, NoRows
<1>2. \A c \in Calls : CallOK(c)
  BY DEF Init, CallOK, Running
<1>3. HistoryInv
  BY DEF Init, DatabaseInit, HistoryInv, NoRows
<1> QED BY <1>1, <1>2, <1>3 DEF PromiseInv, ConnOK, Unused

LEMMA PromiseHolds ==
  ASSUME ~RollbackMayBeDropped
  PROVE  Spec => [](SafeInv /\ PromiseInv)
<1>1. SafeInv /\ PromiseInv /\ [Next]_vars => SafeInv' /\ PromiseInv'
  BY SafeStep, PromiseStep
<1> QED BY <1>1, SafeInit, PromiseInit, PTL DEF Spec

-------------------------------------------------------------------------------
(* What the history holds stays as it is, even if a ROLLBACK is dropped: a *)
(* session that commits wrote no key that the history has.                 *)
THEOREM HistoryIsFinal == Spec => CommittedRowsAreFinal
<1>1. SafeInv /\ [Next]_vars => [\A k \in Keys : log[k] # None => log'[k] = log[k]]_log
  BY HistoryGrows
<1> QED BY <1>1, SafeInit, SafeStep, PTL DEF Spec, CommittedRowsAreFinal

(* As long as no ROLLBACK is dropped, no failure leaves a durable running  *)
(* key: only a COMMIT that follows succeed() makes a row durable.          *)
THEOREM NothingRunningIsDurable ==
  ASSUME ~RollbackMayBeDropped
  PROVE  Spec => []NoDurableRunning
<1>1. PromiseInv => NoDurableRunning
  BY DEF PromiseInv, HistoryInv, NoDurableRunning
<1> QED BY <1>1, PromiseHolds, PTL

(* And a dry run leaves nothing: it is the dropped ROLLBACK, and nothing   *)
(* else, that can make one durable.                                        *)
THEOREM DryRunsLeaveNothing ==
  ASSUME ~RollbackMayBeDropped
  PROVE  Spec => []DryRunLeavesNothing
<1>1. PromiseInv => DryRunLeavesNothing
  BY DEF PromiseInv, HistoryInv, DryRunLeavesNothing
<1> QED BY <1>1, PromiseHolds, PTL

-------------------------------------------------------------------------------
(***************************************************************************)
(* The executor implements IdempotentCommands, step by step: the commit of *)
(* a whole command is TakeEffect, the end of a call is Answer, a crash is  *)
(* LoseAnswers, and everything else is invisible.                          *)
(***************************************************************************)

LEMMA BindingShows ==
  ASSUME TypeOK, NEW k \in Keys
  PROVE  /\ log[k] = None => Binding[k] = None
         /\ log[k] # None => /\ Binding[k] # None /\ Binding[k].command = log[k].command
                             /\ Binding[k].by = log[k].by
<1>1. log[k] # None => [command |-> log[k].command, by |-> log[k].by] \in [command : Commands, by : Calls]
  BY DEF TypeOK, DatabaseTypeOK, Record
<1> QED BY <1>1, NoneIsNotABinding DEF Binding

(* Nothing durable changes, and nobody learns anything.                    *)
LEMMA Invisible ==
  ASSUME UNCHANGED <<request, durableVars>>, Delivered' = Delivered
  PROVE  UNCHANGED Promise!vars
BY DEF Promise!vars, Binding, durableVars

(* A call that is not answered yet stays so.                               *)
LEMMA NotYetAnswered ==
  ASSUME NEW c \in Calls, pc[c] # "done", pc'[c] # "done",
         \A d \in Calls \ {c} : pc'[d] = pc[d] /\ reply'[d] = reply[d]
  PROVE  Delivered' = Delivered
BY DEF Delivered

LEMMA AnswerMaps ==
  ASSUME TypeOK, NEW c \in Calls, NEW a, Truthful(c, a), UNCHANGED <<request, durableVars>>,
         pc[c] # "done", pc'[c] = "done", reply'[c] = a,
         \A d \in Calls \ {c} : pc'[d] = pc[d] /\ reply'[d] = reply[d]
  PROVE  Promise!Next
<1>1. Delivered[c] = "none" /\ Delivered' = [Delivered EXCEPT ![c] = a]
  BY DEF Delivered
<1>2. Binding' = Binding /\ schema' = schema /\ request' = request
  BY DEF Binding, durableVars
<1>3. Key(c) \in Keys
  BY RequestType
<1>4. \/ a = "replayed" /\ Binding[Key(c)] # None /\ Binding[Key(c)].command = Command(c)
                        /\ Binding[Key(c)].by # c
      \/ a = "conflict" /\ Binding[Key(c)] # None /\ Binding[Key(c)].command # Command(c)
      \/ a = "dryRun" /\ DryRun(c)
      \/ a \in {"inProgress", "error"}
  BY <1>3, BindingShows DEF Truthful
<1>5. Promise!Answer(c, a)
  BY <1>1, <1>2, <1>4 DEF Promise!Answer, Key, Command, DryRun
<1>6. a \in {"replayed", "conflict", "dryRun", "inProgress", "error"}
  BY <1>4
<1> QED BY <1>5, <1>6 DEF Promise!Next

(* The commit of a whole command, whoever is waiting for it.               *)
LEMMA EffectMaps ==
  ASSUME TypeOK, DataInv, NEW x \in Conns, NEW c \in Calls, Whole(x, c), CommitTx(x),
         request' = request, txState[x] = "open",
         \/ Delivered[c] = "none" /\ Delivered' = [Delivered EXCEPT ![c] = "executed"]
         \/ Delivered[c] \in {"none", "error", "lost"} /\ Delivered' = Delivered
  PROVE  Promise!Next
<1>1. Key(c) \in Keys /\ ~DryRun(c)
  BY RequestType DEF Whole
<1>2. /\ log[Key(c)] = None /\ log'[Key(c)] # None
      /\ log'[Key(c)].command = Command(c) /\ log'[Key(c)].by = c
      /\ \A k \in Keys \ {Key(c)} : log'[k] = log[k]
      /\ schema' = schema \cup Statements(c, NumStatements)
  BY CommitTakesEffect
<1>3. Binding[Key(c)] = None
  BY <1>1, <1>2, BindingShows
<1>4. Binding' = [Binding EXCEPT ![Key(c)] = [command |-> Command(c), by |-> c]]
  BY <1>1, <1>2 DEF Binding
<1>5. Promise!TakeEffect(c)
  BY <1>1, <1>2, <1>3, <1>4 DEF Promise!TakeEffect, Key, Command, DryRun, Statements
<1> QED BY <1>5 DEF Promise!Next

LEMMA CallMaps ==
  ASSUME ~RollbackMayBeDropped, SafeInv, PromiseInv, NEW c \in Calls, CallStep(c)
  PROVE  Promise!Next \/ UNCHANGED Promise!vars
<1>1. PICK x : x = conn[c]
  OBVIOUS
<1>2. /\ TypeOK /\ ControlInv /\ DataInv /\ x \in Conns /\ request' = request
      /\ pc \in [Calls -> Points] /\ reply \in [Calls -> Replies]
      /\ Footing(x, c, pc[c]) /\ (pc[c] = "rollback" => Truthful(c, reply[c]))
  BY <1>1, AtPoint
<1>3. /\ pc[c] # "done"
      /\ \A d \in Calls \ {c} : pc'[d] = pc[d] /\ reply'[d] = reply[d]
  BY <1>2, CallStepControl DEF Running
<1>4. CASE Commit(c)
  <2>1. /\ CommitTx(x) /\ Whole(x, c) /\ txState[x] = "open"
        /\ pc'[c] = "done" /\ reply'[c] = "executed"
    BY <1>1, <1>2, <1>4 DEF Commit, Awaits, Footing, Locked, ReleaseWith, Goto
  <2>2. Delivered[c] = "none" /\ Delivered' = [Delivered EXCEPT ![c] = "executed"]
    BY <1>3, <2>1 DEF Delivered
  <2> QED BY <1>2, <2>1, <2>2, EffectMaps
<1>5. ASSUME ~Commit(c) PROVE UNCHANGED durableVars
  <2>1. Claim(c) \/ Succeed(c) => UNCHANGED durableVars
    BY DEF Claim, Succeed, ClaimRow, SucceedRow, WriteRow, dbVars
  <2>2. QueryRefused(c) => UNCHANGED durableVars
    BY DEF QueryRefused, Refuse, RollbackTx, AbortTx
  <2> QED BY <1>5, <2>1, <2>2
          DEF CallStep, Begin, Lock, RunStatement, Rollback, BeginTx, LockTx, RunStatementTx,
              RollbackTx, StatementsDone, ReadBack, QueryTimesOut, RollbackTimesOut,
              RollbackDropped, dbVars
<1>6. CASE ~Commit(c) /\ pc'[c] # "done"
  BY <1>2, <1>3, <1>5, <1>6, NotYetAnswered, Invisible
<1>7. CASE ~Commit(c) /\ pc'[c] = "done"
  <2>1. CASE pc[c] = "rollback"
    <3>1. reply'[c] \in {reply[c], AfterFailedRollback(c)}
      BY <1>2, <1>7, <2>1
         DEF CallStep, Begin, Lock, Claim, RunStatement, StatementsDone, Succeed, ReadBack,
             Rollback, QueryRefused, QueryTimesOut, RollbackTimesOut, RollbackDropped, Awaits,
             QueriesOf, OpsAt, ReleaseWith
    <3>2. PICK a : a = reply'[c]
      OBVIOUS
    <3>3. Truthful(c, a)
      BY <1>2, <2>1, <3>1, <3>2 DEF Truthful, AfterFailedRollback
    <3> QED BY <1>2, <1>3, <1>5, <1>7, <3>2, <3>3, AnswerMaps
  <2>2. CASE pc[c] # "rollback"
    <3>1. reply'[c] \in {"inProgress", "error"}
      BY <1>2, <1>7, <2>2
         DEF CallStep, Begin, Lock, Claim, RunStatement, StatementsDone, Succeed, ReadBack,
             Rollback, QueryRefused, QueryTimesOut, RollbackTimesOut, RollbackDropped, Awaits,
             AfterFailure, WaitConflict, ReleaseWith, RollBackWith, Goto
    <3>2. PICK a \in {"inProgress", "error"} : a = reply'[c]
      BY <3>1
    <3>3. Truthful(c, a)
      BY DEF Truthful
    <3> QED BY <1>2, <1>3, <1>5, <1>7, <3>2, <3>3, AnswerMaps
  <2> QED BY <2>1, <2>2
<1> QED BY <1>4, <1>6, <1>7

LEMMA ServerMaps ==
  ASSUME SafeInv, PromiseInv, NEW x \in Conns, ServerStep(x)
  PROVE  Promise!Next \/ UNCHANGED Promise!vars
<1>1. UNCHANGED <<request, pc, reply>>
  BY DEF ServerStep, FinishAbandoned, SessionEnds, EvictIdle, callVars
<1>2. TypeOK /\ DataInv /\ ConnOK(x) /\ Delivered' = Delivered
  BY <1>1 DEF SafeInv, ControlInv, PromiseInv, Delivered
<1>3. CASE UNCHANGED durableVars
  BY <1>1, <1>2, <1>3, Invisible
<1>4. CASE inflight[x] # None /\ inflight[x].op = "COMMIT" /\ CommitTx(x)
  <2>1. PICK d \in Calls : d = inflight[x].call
    BY <1>2, <1>4 DEF TypeOK, Query
  <2>2. Whole(x, d) /\ Unsettled(x, d)
    BY <1>2, <1>4, <2>1 DEF ConnOK
  <2>3. Delivered[d] \in {"none", "error", "lost"}
    BY <2>2 DEF Unsettled, Delivered
  <2>4. CASE txState[x] = "open"
    BY <1>1, <1>2, <1>4, <2>2, <2>3, <2>4, EffectMaps
  <2>5. CASE txState[x] # "open"
    BY <1>3, <1>4, <2>5 DEF CommitTx
  <2> QED BY <2>4, <2>5
<1>5. UNCHANGED durableVars \/ (inflight[x] # None /\ inflight[x].op = "COMMIT" /\ CommitTx(x))
  BY DEF ServerStep, EvictIdle, FinishAbandoned, SessionEnds, Serve, Refuse, BeginTx, LockTx,
         AbortTx, RollbackTx, RunStatementTx, ClaimRow, SucceedRow, WriteRow, dbVars
<1> QED BY <1>3, <1>4, <1>5

LEMMA StepMaps ==
  ASSUME ~RollbackMayBeDropped, SafeInv, PromiseInv, [Next]_vars
  PROVE  [Promise!Next]_(Promise!vars)
<1>0. TypeOK /\ ControlInv
  BY DEF SafeInv, ControlInv
<1>1. ASSUME NEW c \in Calls, Connect(c) PROVE UNCHANGED Promise!vars
  <2>1. /\ UNCHANGED <<request, reply, dbVars>> /\ pc[c] = "idle"
        /\ pc' = [pc EXCEPT ![c] = "begin"]
    BY <1>1 DEF Connect, Goto
  <2>2. pc'[c] = "begin" /\ \A d \in Calls \ {c} : pc'[d] = pc[d]
    BY <1>0, <2>1 DEF TypeOK
  <2>3. Delivered' = Delivered
    BY <2>1, <2>2, NotYetAnswered
  <2> QED BY <2>1, <2>3, Invisible DEF dbVars
<1>2. ASSUME NEW c \in Calls, ConnectFails(c) PROVE Promise!Next
  <2>1. /\ UNCHANGED <<request, durableVars>> /\ pc[c] = "idle"
        /\ pc'[c] = "done" /\ reply'[c] = "error"
        /\ \A d \in Calls \ {c} : pc'[d] = pc[d] /\ reply'[d] = reply[d]
    BY <1>0, <1>2 DEF ConnectFails, Goto, TypeOK, dbVars
  <2>2. Truthful(c, "error")
    BY DEF Truthful
  <2> QED BY <1>0, <2>1, <2>2, AnswerMaps
<1>3. ASSUME NEW c \in Calls, Disconnect(c) PROVE Promise!Next
  <2>1. /\ UNCHANGED <<request, durableVars>> /\ pc'[c] = "done"
        /\ reply'[c] = IF pc[c] = "rollback" THEN AfterFailedRollback(c) ELSE "error"
        /\ \A d \in Calls \ {c} : pc'[d] = pc[d] /\ reply'[d] = reply[d]
    BY <1>0, <1>3 DEF Disconnect, Goto, TypeOK, dbVars
  <2>2. pc[c] # "done" /\ CallOK(c)
    BY <1>0, <1>3 DEF Disconnect, ControlInv, ConnInv, Running, PromiseInv
  <2>3. PICK a : a = reply'[c]
    OBVIOUS
  <2>4. Truthful(c, a)
    BY <2>1, <2>2, <2>3 DEF CallOK, Truthful, AfterFailedRollback
  <2> QED BY <1>0, <2>1, <2>2, <2>3, <2>4, AnswerMaps
<1>4. CASE Crash
  <2> DEFINE lost == {c \in Calls : Running(c)}
  <2>1. /\ UNCHANGED <<request, durableVars>>
        /\ \A c \in Calls : /\ pc'[c] = IF Running(c) THEN "done" ELSE pc[c]
                            /\ reply'[c] = IF Running(c) THEN "lost" ELSE reply[c]
    BY <1>4 DEF Crash, dbVars
  <2>2. \A c \in lost : Delivered[c] = "none"
    BY DEF Delivered, Running
  <2>3. Delivered' = [c \in Calls |-> IF c \in lost THEN "lost" ELSE Delivered[c]]
    BY <2>1 DEF Delivered, Running
  <2>4. Binding' = Binding /\ schema' = schema
    BY <2>1 DEF Binding, durableVars
  <2>5. Promise!LoseAnswers(lost)
    BY <2>1, <2>2, <2>3, <2>4 DEF Promise!LoseAnswers
  <2>6. lost \in SUBSET Calls
    OBVIOUS
  <2> QED BY <2>5, <2>6 DEF Promise!Next
<1>5. CASE UNCHANGED vars
  <2>1. UNCHANGED <<request, pc, reply, durableVars>>
    BY <1>5 DEF vars, callVars, dbVars
  <2>2. Delivered' = Delivered
    BY <2>1 DEF Delivered
  <2> QED BY <2>1, <2>2, Invisible
<1> QED BY <1>1, <1>2, <1>3, <1>4, <1>5, CallMaps, ServerMaps DEF Next

(* As long as no ROLLBACK is dropped, every behaviour of the executor is   *)
(* one the promise allows: a key is bound once, by a whole command, and    *)
(* every answer agrees with the binding, whatever times out, breaks or     *)
(* dies.                                                                   *)
THEOREM ExecutorKeepsPromise ==
  ASSUME ~RollbackMayBeDropped
  PROVE  Spec => KeepsPromise
<1>1. Init => Promise!Init
  <2> SUFFICES ASSUME Init PROVE Promise!Init
    OBVIOUS
  <2>1. Binding = [k \in Keys |-> None] /\ Delivered = [c \in Calls |-> "none"]
    BY DEF Init, DatabaseInit, NoRows, Binding, Delivered
  <2> QED BY <2>1 DEF Init, DatabaseInit, Promise!Init
<1>2. SafeInv /\ PromiseInv /\ [Next]_vars => [Promise!Next]_(Promise!vars)
  BY StepMaps
<1> QED BY <1>1, <1>2, PromiseHolds, PTL DEF Spec, KeepsPromise, Promise!Spec

-------------------------------------------------------------------------------
(***************************************************************************)
(* What follows from the promise alone, for whoever relies on it: in every *)
(* behaviour of IdempotentCommands the bindings of the keys, the schema    *)
(* and the answers agree, because a binding is never taken back.           *)
(***************************************************************************)

Bound(k) == Binding[k] # None

AnswersAgree ==
  \A c \in Calls :
    /\ Delivered[c] = "executed" => Bound(Key(c)) /\ Binding[Key(c)].by = c
    /\ Delivered[c] = "replayed" =>
         Bound(Key(c)) /\ Binding[Key(c)].by # c /\ Binding[Key(c)].command = Command(c)
    /\ Delivered[c] = "conflict" => Bound(Key(c)) /\ Binding[Key(c)].command # Command(c)
    /\ Delivered[c] = "dryRun" => DryRun(c)

SchemaAgrees ==
  schema = {<<Binding[k].by, n>> : k \in {j \in Keys : Bound(j)}, n \in 1..NumStatements}

Agreement == request \in [Calls -> Requests] /\ AnswersAgree /\ SchemaAgrees

(* Binding and Delivered are functions, whatever the state.                *)
LEMMA PromiseFunctions ==
  /\ DOMAIN Binding = Keys /\ DOMAIN Delivered = Calls
  /\ DOMAIN Binding' = Keys /\ DOMAIN Delivered' = Calls
BY DEF Binding, Delivered

(* An effect binds a free key to a call and adds its statements.           *)
LEMMA EffectAgrees ==
  ASSUME Agreement, NEW c \in Calls, Promise!TakeEffect(c)
  PROVE  Agreement'
<1> DEFINE k == Key(c)
           b == [command |-> Command(c), by |-> c]
<1>1. k \in Keys /\ b \in [command : Commands, by : Calls] /\ request' = request
  BY RequestsTyped DEF Agreement, Promise!TakeEffect, Key, Command
<1>2. Binding[k] = None /\ Binding' = [Binding EXCEPT ![k] = b] /\ ~DryRun(c)
  BY DEF Promise!TakeEffect, Key, Command, DryRun
<1>3. Binding'[k] = b /\ b # None /\ \A j \in Keys \ {k} : Binding'[j] = Binding[j]
  BY <1>1, <1>2, PromiseFunctions, NoneIsNotABinding
<1>4. schema' = schema \cup {<<c, n>> : n \in 1..NumStatements}
  BY DEF Promise!TakeEffect
<1>5. SchemaAgrees'
  <2>1. {j \in Keys : Bound(j)}' = {j \in Keys : Bound(j)} \cup {k}
    BY <1>1, <1>3 DEF Bound
  <2>2. \A j \in Keys : Bound(j) => j # k
    BY <1>2 DEF Bound
  <2>3. schema = {<<Binding[j].by, n>> : j \in {j \in Keys : Bound(j)}, n \in 1..NumStatements}
    BY DEF Agreement, SchemaAgrees
  <2>4. {<<Binding[j].by, n>> : j \in {j \in Keys : Bound(j)}, n \in 1..NumStatements}'
          = schema \cup {<<c, n>> : n \in 1..NumStatements}
    BY <1>1, <1>3, <2>1, <2>2, <2>3
  <2> QED BY <1>4, <2>4 DEF SchemaAgrees
<1>6. AnswersAgree'
  <2> SUFFICES ASSUME NEW d \in Calls
               PROVE  /\ Delivered'[d] = "executed" => Bound(Key(d))' /\ Binding'[Key(d)].by = d
                      /\ Delivered'[d] = "replayed" =>
                           /\ Bound(Key(d))' /\ Binding'[Key(d)].by # d
                           /\ Binding'[Key(d)].command = Command(d)
                      /\ Delivered'[d] = "conflict" =>
                           Bound(Key(d))' /\ Binding'[Key(d)].command # Command(d)
                      /\ Delivered'[d] = "dryRun" => DryRun(d)
    BY <1>1 DEF AnswersAgree, Key, Command, DryRun
  <2>1. Key(d) \in Keys
    BY RequestsTyped DEF Agreement, Key
  <2>2. Bound(Key(d)) => Bound(Key(d))' /\ Binding'[Key(d)] = Binding[Key(d)]
    BY <1>1, <1>2, <1>3, <2>1 DEF Bound, Key
  <2>3. CASE Delivered'[d] = Delivered[d]
    BY <2>2, <2>3 DEF Agreement, AnswersAgree
  <2>4. CASE Delivered'[d] # Delivered[d]
    <3>1. d = c /\ Delivered'[d] = "executed"
      BY <2>4, PromiseFunctions DEF Promise!TakeEffect
    <3> QED BY <1>1, <1>3, <3>1 DEF Bound, Key
  <2> QED BY <2>3, <2>4
<1> QED BY <1>1, <1>5, <1>6 DEF Agreement

(* An answer agrees with the binding there is.                             *)
LEMMA AnswerAgrees ==
  ASSUME Agreement, NEW c \in Calls, NEW a, Promise!Answer(c, a)
  PROVE  Agreement'
<1>1. request' = request /\ Binding' = Binding /\ schema' = schema
  BY DEF Promise!Answer
<1>2. /\ Delivered'[c] = a
      /\ \A d \in Calls \ {c} : Delivered'[d] = Delivered[d]
  BY PromiseFunctions DEF Promise!Answer
<1>3. \/ a = "replayed" /\ Bound(Key(c)) /\ Binding[Key(c)].command = Command(c)
                        /\ Binding[Key(c)].by # c
      \/ a = "conflict" /\ Bound(Key(c)) /\ Binding[Key(c)].command # Command(c)
      \/ a = "dryRun" /\ DryRun(c)
      \/ a \in {"inProgress", "error"}
  BY DEF Promise!Answer, Bound, Key, Command, DryRun
<1>4. AnswersAgree'
  BY <1>1, <1>2, <1>3 DEF Agreement, AnswersAgree, Bound, Key, Command, DryRun
<1> QED BY <1>1, <1>4 DEF Agreement, SchemaAgrees, Bound

LEMMA LossAgrees ==
  ASSUME Agreement, NEW lost \in SUBSET Calls, Promise!LoseAnswers(lost)
  PROVE  Agreement'
<1>1. request' = request /\ Binding' = Binding /\ schema' = schema
  BY DEF Promise!LoseAnswers
<1>2. \A d \in Calls : Delivered'[d] \in {"lost", Delivered[d]}
  BY DEF Promise!LoseAnswers
<1>3. AnswersAgree'
  BY <1>1, <1>2 DEF Agreement, AnswersAgree, Bound, Key, Command, DryRun
<1> QED BY <1>1, <1>3 DEF Agreement, SchemaAgrees, Bound

LEMMA PromiseAgrees == KeepsPromise => []Agreement
<1>1. Promise!Init => Agreement
  <2> SUFFICES ASSUME Promise!Init PROVE Agreement
    OBVIOUS
  <2>1. \A c \in Calls : Delivered[c] = "none"
    BY DEF Promise!Init
  <2>2. \A k \in Keys : ~Bound(k)
    BY DEF Promise!Init, Bound
  <2> QED BY <2>1, <2>2 DEF Promise!Init, Agreement, AnswersAgree, SchemaAgrees
<1>2. Agreement /\ [Promise!Next]_(Promise!vars) => Agreement'
  <2> SUFFICES ASSUME Agreement, [Promise!Next]_(Promise!vars) PROVE Agreement'
    OBVIOUS
  <2>1. CASE UNCHANGED Promise!vars
    BY <2>1 DEF Promise!vars, Agreement, AnswersAgree, SchemaAgrees, Bound, Key, Command, DryRun
  <2>2. CASE Promise!Next
    BY <2>2, EffectAgrees, AnswerAgrees, LossAgrees DEF Promise!Next
  <2> QED BY <2>1, <2>2
<1> QED BY <1>1, <1>2, PTL DEF KeepsPromise, Promise!Spec

(* The history and the schema tell the same story.                         *)
THEOREM HistoryAndSchemaAgree ==
  ASSUME ~RollbackMayBeDropped
  PROVE  Spec => []HistoryTellsTheSchema
<1>1. TypeOK /\ Agreement => HistoryTellsTheSchema
  <2> SUFFICES ASSUME TypeOK, Agreement PROVE HistoryTellsTheSchema
    OBVIOUS
  <2>1. \A k \in Keys :
          /\ Bound(k) <=> log[k] # None
          /\ log[k] # None => Binding[k].by = log[k].by
    BY BindingShows DEF Bound
  <2>2. {j \in Keys : Bound(j)} = {j \in Keys : log[j] # None}
    BY <2>1 DEF Bound
  <2>3. schema = {<<Binding[k].by, n>> : k \in {j \in Keys : log[j] # None}, n \in 1..NumStatements}
    BY <2>2 DEF Agreement, SchemaAgrees
  <2>4. \A k \in {j \in Keys : log[j] # None} : Binding[k].by = log[k].by
    BY <2>1
  <2>5. {<<Binding[k].by, n>> : k \in {j \in Keys : log[j] # None}, n \in 1..NumStatements}
          = {<<log[k].by, n>> : k \in {j \in Keys : log[j] # None}, n \in 1..NumStatements}
    BY <2>4
  <2> QED BY <2>3, <2>5 DEF HistoryTellsTheSchema
<1> QED BY <1>1, ExecutorTypeCorrect, ExecutorKeepsPromise, PromiseAgrees, PTL

(* What a caller was told of its key stays true ever after.                *)
THEOREM AnswersAreTrue ==
  ASSUME ~RollbackMayBeDropped
  PROVE  Spec => []AnswersStayTrue
<1>1. TypeOK /\ Agreement => AnswersStayTrue
  <2> SUFFICES ASSUME TypeOK, Agreement, NEW c \in Calls
               PROVE  LET row == log[Key(c)] IN
                      /\ Delivered[c] = "executed" => row # None /\ row.by = c
                      /\ Delivered[c] = "replayed" =>
                           row # None /\ row.by # c /\ row.command = Command(c)
                      /\ Delivered[c] = "conflict" => row # None /\ row.command # Command(c)
                      /\ Delivered[c] = "dryRun" => DryRun(c)
    BY DEF AnswersStayTrue
  <2>1. /\ Key(c) \in Keys
        /\ Bound(Key(c)) => /\ log[Key(c)] # None /\ log[Key(c)].by = Binding[Key(c)].by
                            /\ log[Key(c)].command = Binding[Key(c)].command
    BY BindingShows, RequestType DEF Bound
  <2> QED BY <2>1 DEF Agreement, AnswersAgree
<1> QED BY <1>1, ExecutorTypeCorrect, ExecutorKeepsPromise, PromiseAgrees, PTL
===============================================================================
