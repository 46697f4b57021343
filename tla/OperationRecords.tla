--------------------------- MODULE OperationRecords ---------------------------
(***************************************************************************)
(* Rows of microjbase.schema_operations as the operation log reads and     *)
(* writes them (schema-operation-log.ts): one row per idempotency key,     *)
(* carrying the checksum of the command and of its sealed statement list,  *)
(* and a status.  A command and its checksum are one model value, since    *)
(* the code only ever compares checksums.  `by' is the call that owns the  *)
(* row: a ghost for the row's identity, used to state the properties.      *)
(***************************************************************************)
CONSTANTS
  Calls,      \* calls of begin()/execute(), each made once by one request
  Keys,       \* idempotency keys
  Commands,   \* typed commands, identified with their checksums
  None        \* no row, no connection, no operation

Status == {"running", "succeeded", "failed"}

Record == [command : Commands, status : Status, by : Calls]

ASSUME NoneIsNotARecord == None \notin Record

NoRows == [k \in Keys |-> None]

(* What INSERT_SQL writes for an unused key.                               *)
RunningRecord(c, command) == [command |-> command, status |-> "running", by |-> c]

(* What RESTART_FAILED_SQL makes of a failed row: the row is claimed anew. *)
Restarted(row, c) == [row EXCEPT !.status = "running", !.by = c]

(* What SUCCEED_SQL and FAIL_SQL make of a running row.                    *)
Finished(row, status) == [row EXCEPT !.status = status]

(* Faulty variants of Classify: what has run is run again, what is running *)
(* is taken over.                                                          *)
ClassifyRerunning(row, command) ==
  IF row.command # command THEN "conflict"
  ELSE IF row.status = "running" THEN "in_progress" ELSE "restart"

ClassifyTakingOver(row, command) ==
  IF row.command # command THEN "conflict"
  ELSE IF row.status = "succeeded" THEN "replay" ELSE "restart"

(***************************************************************************)
(* classifyExisting: what begin() decides from the row it found.  The      *)
(* checksum is compared before the status.                                 *)
(***************************************************************************)
Classify(row, command) ==
  IF row.command # command THEN "conflict"
  ELSE CASE row.status = "succeeded" -> "replay"
         [] row.status = "running"   -> "in_progress"
         [] OTHER                    -> "restart"
===============================================================================
