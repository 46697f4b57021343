---------------------------- MODULE AtomicRequests ----------------------------
(***************************************************************************)
(* What the data lane promises of a request (docs/api-spec.md): it changes *)
(* nothing but a row its caller owns, at one moment and as a whole, and    *)
(* its answer agrees with that.  An error settles nothing: the change may  *)
(* have been made, or still be.  Registration inserts an account and its   *)
(* first session.                                                          *)
(***************************************************************************)
CONSTANTS Calls, Users, Ids, None, Requests

VARIABLES
  request,
  rows,     \* the durable rows
  applied,  \* the calls whose change has been made
  answer    \* what each call was told, "none" before

vars == <<request, rows, applied, answer>>

User(c) == request[c].user

(* The rows a call writes.                                                 *)
Targets(c) ==
  IF request[c].kind = "register" THEN {"users", "sessions"} \X {request[c].id}
  ELSE {"data"} \X {request[c].id}

(* Who may do what: new rows where there are none, changes to own rows.    *)
Allowed(c) ==
  \A key \in Targets(c) :
    \/ request[c].kind \in {"create", "register"} /\ rows[key] = None
    \/ request[c].kind \in {"update", "delete"} /\ rows[key] # None /\ rows[key].owner = User(c)

Written(c) ==
  IF request[c].kind = "delete" THEN None ELSE [owner |-> User(c), by |-> c]

(* The call makes its change: together with the answer that says so, or    *)
(* before or after one the caller cannot rely on.                          *)
TakeEffect(c) ==
  /\ c \notin applied
  /\ Allowed(c)
  /\ rows' = [key \in DOMAIN rows |-> IF key \in Targets(c) THEN Written(c) ELSE rows[key]]
  /\ applied' = applied \cup {c}
  /\ \/ answer[c] = "none" /\ answer' = [answer EXCEPT ![c] = "ok"]
     \/ answer[c] \in {"none", "error", "lost"} /\ UNCHANGED answer
  /\ UNCHANGED request

(* A read is answered with rows; a change finds nothing to change, or is   *)
(* refused, and then it was not made and never will be.                    *)
Answer(c, a) ==
  /\ answer[c] = "none"
  /\ \/ a = "ok" /\ request[c].kind \in {"get", "list"}
     \/ a \in {"notFound", "refused"} /\ c \notin applied
     \/ a = "error"
  /\ answer' = [answer EXCEPT ![c] = a]
  /\ UNCHANGED <<request, rows, applied>>

LoseAnswers(lost) ==
  /\ \A c \in lost : answer[c] = "none"
  /\ answer' = [c \in Calls |-> IF c \in lost THEN "lost" ELSE answer[c]]
  /\ UNCHANGED <<request, rows, applied>>

Next ==
  \/ \E c \in Calls : TakeEffect(c)
  \/ \E c \in Calls, a \in {"ok", "notFound", "refused", "error"} : Answer(c, a)
  \/ \E lost \in SUBSET Calls : LoseAnswers(lost)

Init ==
  /\ request \in [Calls -> Requests]
  /\ \E owners \in [Ids -> Users \cup {None}] :
       rows = [key \in {"data", "users", "sessions"} \X Ids |->
                 IF key[1] # "data" \/ owners[key[2]] = None THEN None
                 ELSE [owner |-> owners[key[2]], by |-> None]]
  /\ applied = {}
  /\ answer = [c \in Calls |-> "none"]

Spec == Init /\ [][Next]_vars
===============================================================================
