-------------------------- MODULE IdempotentCommands --------------------------
(***************************************************************************)
(* What the schema-admin lane promises of a mutation command (the header   *)
(* of schema-operation-log.ts and of schema-ddl.ts): an idempotency key is *)
(* bound to the first command that succeeds under it; that command takes   *)
(* effect once and as a whole; every answer agrees with the binding.  An   *)
(* error or a lost answer settles nothing: the command may have taken      *)
(* effect, or still do so.                                                 *)
(***************************************************************************)
EXTENDS Naturals

CONSTANTS Calls, Keys, Commands, None, NumStatements, Requests

VARIABLES
  request,   \* what each call asks
  bound,     \* [Keys -> the command and the call the key is bound to, or None]
  applied,   \* the statements of the calls that took effect
  answer     \* what each call was told, "none" before

vars == <<request, bound, applied, answer>>

Init ==
  /\ request \in [Calls -> Requests]
  /\ bound = [k \in Keys |-> None]
  /\ applied = {}
  /\ answer = [c \in Calls |-> "none"]

(* The command of call c takes effect: together with the answer that says  *)
(* so, or before or after one the caller cannot rely on.                   *)
TakeEffect(c) ==
  LET k == request[c].key IN
  /\ ~request[c].dryRun
  /\ bound[k] = None
  /\ bound' = [bound EXCEPT ![k] = [command |-> request[c].command, by |-> c]]
  /\ applied' = applied \cup {<<c, n>> : n \in 1..NumStatements}
  /\ \/ answer[c] = "none" /\ answer' = [answer EXCEPT ![c] = "executed"]
     \/ answer[c] \in {"none", "error", "lost"} /\ UNCHANGED answer
  /\ UNCHANGED request

(* An answer that reports the binding of the key, or settles nothing.      *)
Answer(c, a) ==
  LET b == bound[request[c].key] IN
  /\ answer[c] = "none"
  /\ \/ a = "replayed" /\ b # None /\ b.command = request[c].command /\ b.by # c
     \/ a = "conflict" /\ b # None /\ b.command # request[c].command
     \/ a = "dryRun" /\ request[c].dryRun
     \/ a \in {"inProgress", "error"}
  /\ answer' = [answer EXCEPT ![c] = a]
  /\ UNCHANGED <<request, bound, applied>>

(* The server process dies with some calls unanswered.                     *)
LoseAnswers(lost) ==
  /\ \A c \in lost : answer[c] = "none"
  /\ answer' = [c \in Calls |-> IF c \in lost THEN "lost" ELSE answer[c]]
  /\ UNCHANGED <<request, bound, applied>>

Next ==
  \/ \E c \in Calls : TakeEffect(c)
  \/ \E c \in Calls, a \in {"replayed", "conflict", "dryRun", "inProgress", "error"} :
       Answer(c, a)
  \/ \E lost \in SUBSET Calls : LoseAnswers(lost)

Spec == Init /\ [][Next]_vars
===============================================================================
