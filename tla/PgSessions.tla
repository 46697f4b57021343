------------------------------ MODULE PgSessions ------------------------------
(***************************************************************************)
(* What the schema-DDL executor uses of PostgreSQL: sessions with at most  *)
(* one transaction each, the transaction-level advisory lock               *)
(* SCHEMA_DDL_LOCK_KEY, the operation log and the schema.  External code,  *)
(* modelled from the queries schema-ddl.ts sends and the outcomes it       *)
(* handles.  A schema change is the pair <<call, statement number>>, so    *)
(* the durable schema shows exactly which statements of which calls took   *)
(* effect.                                                                 *)
(***************************************************************************)
EXTENDS Naturals, OperationRecords

CONSTANTS
  Conns,          \* the connections the admin pool may open
  NumStatements   \* statements in every plan

ASSUME NoneIsNotAConn == None \notin Conns
ASSUME NumStatementsPositive == NumStatements \in Nat \ {0}

VARIABLES
  txState,   \* [Conns -> {"none", "open", "aborted"}]
  txLog,     \* rows written by the open transaction, None where it wrote none
  txSchema,  \* schema changes of the open transaction
  lock,      \* the session that holds the advisory lock, or None
  log,       \* committed rows of schema_operations
  schema     \* committed schema changes

sessionVars == <<txState, txLog, txSchema>>
durableVars == <<log, schema>>

Effects == Calls \X (1..NumStatements)

DatabaseTypeOK ==
  /\ txState \in [Conns -> {"none", "open", "aborted"}]
  /\ txLog \in [Conns -> [Keys -> Record \cup {None}]]
  /\ txSchema \in [Conns -> SUBSET Effects]
  /\ lock \in Conns \cup {None}
  /\ log \in [Keys -> Record \cup {None}]
  /\ schema \in SUBSET Effects

DatabaseInit ==
  /\ txState = [x \in Conns |-> "none"]
  /\ txLog = [x \in Conns |-> NoRows]
  /\ txSchema = [x \in Conns |-> {}]
  /\ lock = None
  /\ log = NoRows
  /\ schema = {}

(* The rows session x sees: its own uncommitted ones over the committed.   *)
VisibleRow(x, k) == IF txLog[x][k] # None THEN txLog[x][k] ELSE log[k]

(* The end of x's transaction: its lock goes, its writes are forgotten.    *)
EndTx(x) ==
  /\ txState' = [txState EXCEPT ![x] = "none"]
  /\ txLog' = [txLog EXCEPT ![x] = NoRows]
  /\ txSchema' = [txSchema EXCEPT ![x] = {}]
  /\ lock' = IF lock = x THEN None ELSE lock

RollbackTx(x) ==
  /\ EndTx(x)
  /\ UNCHANGED durableVars

(* COMMIT of an open transaction; of an aborted one PostgreSQL rolls back. *)
CommitTx(x) ==
  /\ EndTx(x)
  /\ IF txState[x] = "open"
       THEN /\ log' = [k \in Keys |-> VisibleRow(x, k)]
            /\ schema' = schema \cup txSchema[x]
       ELSE UNCHANGED durableVars

(* BEGIN inside an open transaction only warns; in an aborted one it fails. *)
BeginTx(x) ==
  /\ txState[x] # "aborted"
  /\ txState' = [txState EXCEPT ![x] = "open"]
  /\ UNCHANGED <<txLog, txSchema, lock, durableVars>>

(* pg_advisory_xact_lock: waits for another session, re-enters for its own. *)
LockTx(x) ==
  /\ txState[x] = "open"
  /\ lock \in {None, x}
  /\ lock' = x
  /\ UNCHANGED <<sessionVars, durableVars>>

(* An INSERT or UPDATE of the row of key k.  The unique index makes it wait *)
(* while another session has written that row and not ended.               *)
WriteRow(x, k, row) ==
  /\ txState[x] = "open"
  /\ \A y \in Conns \ {x} : txLog[y][k] = None
  /\ txLog' = [txLog EXCEPT ![x][k] = row]
  /\ UNCHANGED <<txState, txSchema, lock, durableVars>>

RunStatementTx(x, effect) ==
  /\ txState[x] = "open"
  /\ txSchema' = [txSchema EXCEPT ![x] = @ \cup {effect}]
  /\ UNCHANGED <<txState, txLog, lock, durableVars>>

(* A statement fails on the server: the open transaction is aborted.       *)
AbortTx(x) ==
  /\ txState' = [txState EXCEPT ![x] = IF @ = "open" THEN "aborted" ELSE @]
  /\ UNCHANGED <<txLog, txSchema, lock, durableVars>>
===============================================================================
