---------------------------- MODULE RuntimeRegistry ----------------------------
(***************************************************************************)
(* The process's table registry: the snapshot the data lane is served      *)
(* from, and the way it follows the durable exposure registry.  Every      *)
(* schema-admin command runs as a call: a preflight without a lock, the    *)
(* executor (here one step, as IdempotentCommands allows), and after every *)
(* non-dry-run success of expose or unexpose, replays included, a refresh  *)
(* (createRuntimeRegistryRefresher in main.ts): take a ticket, read the    *)
(* registry rows, verify table after table, and replace the snapshot if no *)
(* newer ticket was taken meanwhile.                                       *)
(***************************************************************************)
EXTENDS ManagedTables, Naturals, Sequences

CONSTANTS
  Calls,
  Requests,     \* the commands the calls may ask for
  MaxCrashes    \* bound on process deaths

ASSUME RequestsTyped == Requests \subseteq Request
ASSUME MaxCrashesIsNat == MaxCrashes \in Nat
ASSUME NoneIsNotATable == None \notin Tables

VARIABLES
  history,       \* the exposed sets of the registry, oldest first: a ghost
  request,
  phase,         \* where the call stands
  ticket,        \* its refresh ticket, 0 before
  rows,          \* the registry rows its refresh read
  readAt,        \* when it read them: a ghost, a position of history
  checking,      \* the table whose verification is under way, or None
  verified,      \* the tables verified so far, with the columns found
  latestTicket,
  served,        \* the snapshot: per table the columns it is served with, or None
  servedAt,      \* the position of history it was read at: a ghost
  up,            \* is the process listening
  done,          \* the commands on record: those that have taken effect
  crashes

refreshVars == <<ticket, rows, readAt, checking, verified>>
processVars == <<latestTicket, served, servedAt, up>>
durableVars == <<shape, forced, policies, exposed, history>>
vars == <<durableVars, request, phase, refreshVars, processVars, done, crashes>>

Phases == {"idle", "ready", "succeeded", "reading", "verifying", "ok", "failed", "lost"}

Snapshots == [Tables -> Shapes \cup {None}]

TypeOK ==
  /\ TablesTypeOK
  /\ history \in Seq(SUBSET Tables) /\ history # <<>>
  /\ request \in [Calls -> Requests]
  /\ phase \in [Calls -> Phases]
  /\ ticket \in [Calls -> Nat]
  /\ rows \in [Calls -> SUBSET Tables]
  /\ readAt \in [Calls -> Nat]
  /\ checking \in [Calls -> Tables \cup {None}]
  /\ verified \in [Calls -> Snapshots]
  /\ latestTicket \in Nat
  /\ served \in Snapshots
  /\ servedAt \in 1..Len(history)
  /\ up \in BOOLEAN
  /\ done \in SUBSET Requests
  /\ crashes \in 0..MaxCrashes

Nothing == [t \in Tables |-> None]

Served == {t \in Tables : served[t] # None}

(* The snapshot buildTableRegistry makes of the durable state, all at once. *)
Durable == [t \in Tables |-> IF t \in exposed THEN shape[t] ELSE None]

(* buildTableRegistry accepts a table: the runtime role has its grants, and *)
(* a policy applies to it.                                                 *)
Verifiable(t) == t \in exposed /\ forced[t] /\ policies[t] # {}

Init ==
  /\ TablesInit
  /\ history = <<exposed>>
  /\ request \in [Calls -> Requests]
  /\ phase = [c \in Calls |-> "idle"]
  /\ ticket = [c \in Calls |-> 0]
  /\ rows = [c \in Calls |-> {}]
  /\ readAt = [c \in Calls |-> 0]
  /\ checking = [c \in Calls |-> None]
  /\ verified = [c \in Calls |-> Nothing]
  /\ latestTicket = 0
  /\ served = Durable
  /\ servedAt = 1
  /\ up = TRUE
  /\ done = {}
  /\ crashes = 0

Goto(c, p) == phase' = [phase EXCEPT ![c] = p]

(* The key is on record, perhaps for another command.                      *)
Recorded(c) == \E r \in done : r.key = request[c].key

-------------------------------------------------------------------------------
(* The command.                                                            *)

(* A key on record skips the preflight; a new one passes it, or fails.     *)
PreflightPasses(c) ==
  /\ up
  /\ phase[c] = "idle"
  /\ Recorded(c) \/ Preflight(request[c], Served)
  /\ Goto(c, "ready")
  /\ UNCHANGED <<durableVars, request, refreshVars, processVars, done, crashes>>

PreflightFails(c) ==
  /\ up
  /\ phase[c] = "idle"
  /\ ~Recorded(c)
  /\ ~Preflight(request[c], Served)
  /\ Goto(c, "failed")
  /\ UNCHANGED <<durableVars, request, refreshVars, processVars, done, crashes>>

(* A success of expose or unexpose is followed by a refresh.               *)
Succeed(c) ==
  Goto(c, IF request[c].kind \in ExposureKinds THEN "succeeded" ELSE "ok")

(* The plan is committed together with the record of its command.          *)
Commit(c) ==
  /\ ~Recorded(c)
  /\ TakeEffect(request[c])
  /\ done' = done \cup {request[c]}
  /\ history' = IF request[c].kind \in ExposureKinds THEN Append(history, exposed') ELSE history

(* The plan takes effect now, and the caller hears of it, or does not.     *)
Execute(c) ==
  /\ phase[c] = "ready"
  /\ Commit(c)
  /\ Succeed(c) \/ Goto(c, "lost")
  /\ UNCHANGED <<request, refreshVars, processVars, crashes>>

(* Faulty variant of Replay: a replay is answered without a refresh.       *)
ReplayUnrefreshed(c) ==
  /\ phase[c] = "ready"
  /\ request[c] \in done
  /\ Goto(c, "ok")
  /\ UNCHANGED <<durableVars, request, refreshVars, processVars, done, crashes>>

(* The recorded success of the same command is replayed.                   *)
Replay(c) ==
  /\ phase[c] = "ready"
  /\ request[c] \in done
  /\ Succeed(c)
  /\ UNCHANGED <<durableVars, request, refreshVars, processVars, done, crashes>>

(* A guard refuses, the key is of another command, a statement fails, or   *)
(* the executor gives up; a COMMIT it gave up on may still arrive.         *)
ExecuteFails(c) ==
  /\ phase[c] = "ready"
  /\ Goto(c, "failed") \/ (~Recorded(c) /\ Goto(c, "lost"))
  /\ UNCHANGED <<durableVars, request, refreshVars, processVars, done, crashes>>

CommitArrives(c) ==
  /\ phase[c] = "lost"
  /\ Commit(c)
  /\ UNCHANGED <<request, phase, refreshVars, processVars, crashes>>

-------------------------------------------------------------------------------
(* The refresh.                                                            *)

(* const ticket = ++latestTicket, then the first query of the rebuild.     *)
StartRefresh(c) ==
  /\ phase[c] = "succeeded"
  /\ latestTicket' = latestTicket + 1
  /\ ticket' = [ticket EXCEPT ![c] = latestTicket + 1]
  /\ Goto(c, "reading")
  /\ UNCHANGED <<durableVars, request, rows, readAt, checking, verified, served, servedAt, up,
                 done, crashes>>

(* EXPOSED_SQL.                                                            *)
ReadRows(c) ==
  /\ phase[c] = "reading"
  /\ rows' = [rows EXCEPT ![c] = exposed]
  /\ readAt' = [readAt EXCEPT ![c] = Len(history)]
  /\ verified' = [verified EXCEPT ![c] = Nothing]
  /\ Goto(c, "verifying")
  /\ UNCHANGED <<durableVars, request, ticket, checking, processVars, done, crashes>>

(* verifyTable up to its policy query: the table is there and the runtime  *)
(* role may use it, as far as this was read.                               *)
CheckTable(c) ==
  /\ phase[c] = "verifying"
  /\ checking[c] = None
  /\ \E t \in rows[c] :
       /\ verified[c][t] = None
       /\ Verifiable(t)
       /\ checking' = [checking EXCEPT ![c] = t]
  /\ UNCHANGED <<durableVars, request, phase, ticket, rows, readAt, verified, processVars, done,
                 crashes>>

(* The column queries of verifyTable: no column is readable by now unless  *)
(* the grants are there.                                                   *)
ReadColumns(c) ==
  LET t == checking[c] IN
  /\ phase[c] = "verifying"
  /\ t # None
  /\ t \in exposed
  /\ Exists(t)
  /\ verified' = [verified EXCEPT ![c][t] = shape[t]]
  /\ checking' = [checking EXCEPT ![c] = None]
  /\ UNCHANGED <<durableVars, request, phase, ticket, rows, readAt, processVars, done, crashes>>

(* A query fails, or a table does not verify: the caller gets the error.   *)
RefreshFails(c) ==
  /\ phase[c] \in {"reading", "verifying"}
  /\ Goto(c, "failed")
  /\ checking' = [checking EXCEPT ![c] = None]
  /\ UNCHANGED <<durableVars, request, ticket, rows, readAt, verified, processVars, done, crashes>>

Rebuilt(c) ==
  /\ phase[c] = "verifying"
  /\ checking[c] = None
  /\ \A t \in rows[c] : verified[c][t] # None

(* Faulty variants of Install: the ticket is not compared; the snapshot    *)
(* loses the tables it does not serve.                                     *)
InstallAnyway(c) ==
  /\ Rebuilt(c)
  /\ served' = verified[c] /\ servedAt' = readAt[c]
  /\ Goto(c, "ok")
  /\ UNCHANGED <<durableVars, request, refreshVars, latestTicket, up, done, crashes>>

(* The rebuild is there: replace the snapshot, unless a newer refresh has  *)
(* started.  The caller gets its success either way.                       *)
Install(c) ==
  /\ Rebuilt(c)
  /\ IF ticket[c] = latestTicket
       THEN served' = verified[c] /\ servedAt' = readAt[c]
       ELSE UNCHANGED <<served, servedAt>>
  /\ Goto(c, "ok")
  /\ UNCHANGED <<durableVars, request, refreshVars, latestTicket, up, done, crashes>>

-------------------------------------------------------------------------------
(* The process.                                                            *)

Running(c) == phase[c] \notin {"idle", "ok", "failed", "lost"}

(* The process dies; a COMMIT a call had sent may still arrive.            *)
Crash ==
  /\ up
  /\ crashes < MaxCrashes
  /\ crashes' = crashes + 1
  /\ up' = FALSE
  /\ phase' = [c \in Calls |-> IF Running(c) THEN "lost" ELSE phase[c]]
  /\ ticket' = [c \in Calls |-> 0]
  /\ checking' = [c \in Calls |-> None]
  /\ latestTicket' = 0
  /\ UNCHANGED <<durableVars, request, rows, readAt, verified, served, servedAt, done>>

(* start(): read the registry, verify every table in it, listen.           *)
Start ==
  /\ ~up
  /\ \A t \in exposed : Verifiable(t)
  /\ up' = TRUE
  /\ served' = Durable
  /\ servedAt' = Len(history)
  /\ UNCHANGED <<durableVars, request, phase, refreshVars, latestTicket, done, crashes>>

CallStep(c) ==
  \/ PreflightPasses(c) \/ PreflightFails(c)
  \/ Execute(c) \/ Replay(c) \/ ExecuteFails(c) \/ CommitArrives(c)
  \/ StartRefresh(c) \/ ReadRows(c) \/ CheckTable(c) \/ ReadColumns(c)
  \/ RefreshFails(c) \/ Install(c)

Next == (\E c \in Calls : CallStep(c)) \/ Crash \/ Start

Spec == Init /\ [][Next]_vars

-------------------------------------------------------------------------------
(***************************************************************************)
(* Properties.                                                             *)
(***************************************************************************)

Refreshing(c) == phase[c] \in {"succeeded", "reading", "verifying"}

(* The newest refresh of this process, if there was one, succeeded.        *)
NewestSucceeded ==
  \/ latestTicket = 0
  \/ \E c \in Calls : ticket[c] = latestTicket /\ phase[c] = "ok"

(* Every command that took effect was acknowledged, at once or to a retry. *)
AllAcknowledged ==
  \A r \in done : \E c \in Calls : request[c] = r /\ phase[c] = "ok"

(* Once every command that took effect has been acknowledged, to its first *)
(* caller or to a retry with the same key, and the newest refresh has      *)
(* succeeded, the data lane serves the durable registry with the current   *)
(* columns (the promise of D-032 item 4: a failed refresh cannot strand    *)
(* the served snapshot).                                                   *)
QuietMeansCurrent ==
  up /\ AllAcknowledged /\ NewestSucceeded /\ (\A c \in Calls : ~Refreshing(c))
    => served = Durable

(* A table exposed without a break since the served snapshot was read has  *)
(* the columns it is served with: no structural mutation slips in.         *)
ServedColumnsHold ==
  up => \A t \in Served :
    (\A n \in servedAt..Len(history) : t \in history[n]) => served[t] = shape[t]

(* An exposed table exists and has its row security enabled and forced, in *)
(* whatever order commands preflight and commit.                           *)
RowSecurityHolds == \A t \in exposed : Exists(t) /\ forced[t]

(* The served snapshot follows the durable registry without going back and *)
(* without mixing states: each one served is a state the registry was in.  *)
View == INSTANCE MonotoneView WITH position <- servedAt, serving <- Served

FollowsRegistry == View!Spec

(* What D-034 says of policies: removing one from an exposed table changes *)
(* row visibility only, so the registry can always be built again.         *)
RegistryCanBeBuilt == \A t \in exposed : Verifiable(t)
===============================================================================
