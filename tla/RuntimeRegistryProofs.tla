------------------------- MODULE RuntimeRegistryProofs -------------------------
(***************************************************************************)
(* Proofs about RuntimeRegistry for any number of calls, tables, commands  *)
(* and process deaths: type correctness, row security of exposed tables,   *)
(* that the served snapshot is a monotone view of the durable registry     *)
(* (MonotoneView), that the columns it serves are those of the tables, and *)
(* that it is current once nothing is under way.                           *)
(***************************************************************************)
EXTENDS RuntimeRegistry, TLAPS

-------------------------------------------------------------------------------
(* The durable tables.                                                     *)

(* A plan keeps the types of the tables.                                   *)
LEMMA EffectType ==
  ASSUME TablesTypeOK, NEW r \in Request, TakeEffect(r)
  PROVE  TablesTypeOK'
<1>. DEFINE t == r.table
<1>0. t \in Tables /\ r.to \in Tables /\ r.shape \in Shapes /\ r.template \in Templates
  BY DEF Request
<1>1. ASSUME Expose(t) \/ Unexpose(t) PROVE TablesTypeOK'
  BY <1>0, <1>1 DEF Expose, Unexpose, TablesTypeOK
<1>2. ASSUME Alter(t, r.shape) PROVE TablesTypeOK'
  BY <1>0, <1>2 DEF Alter, TablesTypeOK
<1>3. ASSUME Rename(t, r.to) PROVE TablesTypeOK'
  BY <1>0, <1>3 DEF Rename, TablesTypeOK
<1>4. ASSUME Drop(t) \/ Create(t, r.shape) PROVE TablesTypeOK'
  BY <1>0, <1>4 DEF Drop, Create, Recreate, TablesTypeOK
<1>5. ASSUME EnableRls(t) \/ DisableRls(t) PROVE TablesTypeOK'
  BY <1>0, <1>5 DEF EnableRls, DisableRls, SetForced, TablesTypeOK
<1>6. ASSUME AddPolicy(t, r.template) \/ RemovePolicy(t, r.template) PROVE TablesTypeOK'
  BY <1>0, <1>6 DEF AddPolicy, RemovePolicy, SetPolicies, TablesTypeOK
<1>. QED BY <1>1, <1>2, <1>3, <1>4, <1>5, <1>6 DEF TakeEffect

(* Only exposing and its reverse change what is exposed.                   *)
LEMMA EffectExposes ==
  ASSUME NEW r \in Request, TakeEffect(r), r.kind \notin ExposureKinds
  PROVE  exposed' = exposed
BY DEF TakeEffect, ExposureKinds, Alter, Rename, Drop, Create, Recreate, EnableRls, DisableRls,
       SetForced, AddPolicy, RemovePolicy, SetPolicies

(* A table whose row security is forced exists: CREATE, DROP and RENAME    *)
(* reset it where no table is left.                                        *)
ForcedExist == \A t \in Tables : forced[t] => Exists(t)

(* What RowSecurityHolds needs to be inductive.                            *)
SecureTables == ForcedExist /\ RowSecurityHolds

(* No plan that takes effect leaves an exposed table without its row       *)
(* security, thanks to the guards evaluated under the lock.                *)
LEMMA EffectKeepsSecurity ==
  ASSUME TablesTypeOK, SecureTables, NEW r \in Request, TakeEffect(r)
  PROVE  SecureTables'
<1>. DEFINE t == r.table
<1>0. t \in Tables /\ r.to \in Tables /\ r.shape # None /\ exposed \in SUBSET Tables
  BY NoneIsNotAShape DEF Request, TablesTypeOK
<1>. USE DEF SecureTables, RowSecurityHolds, ForcedExist, Exists, AssertNotExposed
<1>1. ASSUME Expose(t) \/ Unexpose(t) PROVE SecureTables'
  BY <1>0, <1>1 DEF Expose, Unexpose
<1>2. ASSUME Alter(t, r.shape) PROVE SecureTables'
  <2>1. \A u \in Tables : shape'[u] = IF u = t THEN r.shape ELSE shape[u]
    BY <1>0, <1>2 DEF Alter, TablesTypeOK
  <2>. QED BY <1>0, <1>2, <2>1 DEF Alter
<1>3. ASSUME Rename(t, r.to) PROVE SecureTables'
  <2>1. shape[r.to] = None /\ shape[t] # None /\ t \notin exposed /\ exposed' = exposed
    BY <1>3 DEF Rename
  <2>2. \A u \in Tables \ {t, r.to} : shape'[u] = shape[u] /\ forced'[u] = forced[u]
    BY <1>0, <1>3 DEF Rename, TablesTypeOK
  <2>3. shape'[r.to] = shape[t] /\ forced'[t] = FALSE
    BY <1>0, <1>3, <2>1 DEF Rename, TablesTypeOK
  <2>. QED BY <1>0, <2>1, <2>2, <2>3
<1>4. ASSUME Drop(t) \/ Create(t, r.shape) PROVE SecureTables'
  <2>1. t \notin exposed /\ exposed' = exposed
    BY <1>0, <1>4 DEF Drop, Create, Recreate
  <2>2. \A u \in Tables \ {t} : shape'[u] = shape[u] /\ forced'[u] = forced[u]
    BY <1>0, <1>4 DEF Drop, Create, Recreate, TablesTypeOK
  <2>3. forced'[t] = FALSE
    BY <1>0, <1>4 DEF Drop, Create, Recreate, TablesTypeOK
  <2>. QED BY <1>0, <2>1, <2>2, <2>3
<1>5. ASSUME NEW value \in BOOLEAN, SetForced(t, value), t \in exposed => value
      PROVE SecureTables'
  <2>1. shape' = shape /\ exposed' = exposed /\ shape[t] # None
    BY <1>5 DEF SetForced
  <2>2. \A u \in Tables : forced'[u] = IF u = t THEN value ELSE forced[u]
    BY <1>0, <1>5 DEF SetForced, TablesTypeOK
  <2>. QED BY <1>0, <1>5, <2>1, <2>2
<1>6. ASSUME EnableRls(t) \/ DisableRls(t) PROVE SecureTables'
  BY <1>5, <1>6 DEF EnableRls, DisableRls
<1>7. ASSUME AddPolicy(t, r.template) \/ RemovePolicy(t, r.template) PROVE SecureTables'
  BY <1>7 DEF AddPolicy, RemovePolicy, SetPolicies
<1>. QED BY <1>1, <1>2, <1>3, <1>4, <1>6, <1>7 DEF TakeEffect

-------------------------------------------------------------------------------
(* Type correctness and the history.                                       *)

LEMMA RequestType ==
  ASSUME TypeOK, NEW c \in Calls
  PROVE  request[c] \in Request
BY RequestsTyped DEF TypeOK

(* The history ends with what is exposed, and holds what is served.        *)
HistoryInv ==
  /\ exposed = history[Len(history)]
  /\ Served = history[servedAt]

(* A step that only appends to the history, if anything.                   *)
HistoryStep ==
  history' = history \/ \E s \in SUBSET Tables : history' = Append(history, s)

LEMMA HistoryType ==
  ASSUME TypeOK
  PROVE  /\ history \in Seq(SUBSET Tables) /\ Len(history) \in Nat \ {0}
         /\ exposed \in SUBSET Tables
BY DEF TypeOK, TablesTypeOK

(* Appending to the history leaves what it already held.                   *)
LEMMA HistoryGrows ==
  ASSUME TypeOK, HistoryStep
  PROVE  /\ history' \in Seq(SUBSET Tables)
         /\ history' # <<>>
         /\ Len(history') \in Nat
         /\ Len(history') >= Len(history)
         /\ \A n \in 1..Len(history) : history'[n] = history[n]
<1>1. history \in Seq(SUBSET Tables) /\ history # <<>>
  BY DEF TypeOK
<1>. QED BY <1>1 DEF HistoryStep

(* A plan that commits is of a table that keeps its type, and the history  *)
(* follows what is exposed.                                                *)
LEMMA CommitHistory ==
  ASSUME TypeOK, exposed = history[Len(history)], NEW c \in Calls, Commit(c)
  PROVE  TablesTypeOK' /\ HistoryStep /\ exposed' = history'[Len(history')]
<1>1. request[c] \in Request /\ TakeEffect(request[c]) /\ TablesTypeOK
  BY RequestType DEF TypeOK, Commit
<1>2. TablesTypeOK' /\ exposed' \in SUBSET Tables
  BY <1>1, EffectType DEF TablesTypeOK
<1>3. CASE request[c].kind \in ExposureKinds
  <2>1. history' = Append(history, exposed')
    BY <1>3 DEF Commit
  <2>. QED BY <1>2, <2>1, HistoryType DEF HistoryStep
<1>4. CASE request[c].kind \notin ExposureKinds
  <2>1. history' = history /\ exposed' = exposed
    BY <1>1, <1>4, EffectExposes DEF Commit
  <2>. QED BY <1>2, <2>1 DEF HistoryStep
<1>. QED BY <1>3, <1>4

LEMMA CommitType ==
  ASSUME TypeOK, HistoryInv, NEW c \in Calls, Commit(c), phase' \in [Calls -> Phases],
         UNCHANGED <<request, refreshVars, processVars, crashes>>
  PROVE  TypeOK'
<1>1. TablesTypeOK' /\ HistoryStep
  BY CommitHistory DEF HistoryInv
<1>2. history' \in Seq(SUBSET Tables) /\ history' # <<>> /\ servedAt' \in 1..Len(history')
  BY <1>1, HistoryGrows, HistoryType DEF TypeOK, processVars
<1>3. done' \in SUBSET Requests
  BY DEF TypeOK, Commit
<1>. QED BY <1>1, <1>2, <1>3 DEF TypeOK, refreshVars, processVars

-------------------------------------------------------------------------------
(* The inductive invariant.                                                *)

(* Tickets are handed out once, and the newest is the largest.             *)
TicketInv ==
  \A c \in Calls :
    /\ ticket[c] <= latestTicket
    /\ phase[c] \in {"reading", "verifying"} => ticket[c] > 0
    /\ \A d \in Calls : c # d /\ ticket[c] = ticket[d] => ticket[c] = 0

(* A rebuild verifies the rows of one state of the registry, which is not  *)
(* older than the one served if the rebuild may still be installed.        *)
RebuildInv ==
  \A c \in Calls :
    /\ phase[c] = "verifying" =>
         /\ readAt[c] \in 1..Len(history)
         /\ rows[c] = history[readAt[c]]
         /\ \A t \in Tables : verified[c][t] # None => t \in rows[c]
         /\ checking[c] \in rows[c] \cup {None}
         /\ ticket[c] = latestTicket => servedAt <= readAt[c]
    /\ phase[c] # "verifying" => checking[c] = None

(* No call of a dead process runs.                                         *)
DownInv == ~up => \A c \in Calls : ~Running(c)

IInv == TypeOK /\ SecureTables /\ TicketInv /\ RebuildInv /\ DownInv /\ HistoryInv

(* A table without a break in its exposure since position n.               *)
Unbroken(t, n) == \A i \in n..Len(history) : t \in history[i]

(* The columns a rebuild or the snapshot holds of such a table are its.    *)
ColumnsInv ==
  /\ \A c \in Calls : phase[c] = "verifying" =>
       \A t \in Tables :
         verified[c][t] # None /\ Unbroken(t, readAt[c]) => verified[c][t] = shape[t]
  /\ \A t \in Served : Unbroken(t, servedAt) => served[t] = shape[t]

(* Position p of the history is the effect of the command r: every         *)
(* refresh as new as that of one of its calls has read p or newer, and so  *)
(* has the snapshot, once such a call was acknowledged by a process gone   *)
(* by now.                                                                 *)
EffectOf(r, p) ==
  /\ r.kind \in ExposureKinds
  /\ \A c \in Calls : request[c] = r =>
       /\ \A d \in Calls :
            0 < ticket[c] /\ ticket[c] <= ticket[d] /\ phase[d] \in {"verifying", "ok"}
              => p <= readAt[d]
       /\ up /\ phase[c] = "ok" /\ ticket[c] = 0 => p <= servedAt

(* A call that has come to its refresh has its command on record.          *)
OnRecord(c) ==
  /\ phase[c] \in {"succeeded", "reading", "verifying", "ok"} => request[c] \in done
  /\ 0 < ticket[c] => /\ phase[c] \in {"reading", "verifying", "ok", "failed"}
                      /\ request[c] \in done

FreshInv ==
  /\ \A p \in 2..Len(history) : \E r \in done : EffectOf(r, p)
  /\ \A c \in Calls : OnRecord(c)
  /\ \A c \in Calls :
       0 < ticket[c] /\ ticket[c] = latestTicket /\ phase[c] = "ok" => servedAt = readAt[c]
  /\ ~up => \A c \in Calls : ticket[c] = 0

(* The initial states satisfy it.                                          *)
LEMMA InitInv == Init => IInv
<1>. SUFFICES ASSUME Init PROVE IInv
  OBVIOUS
<1>1. TablesTypeOK /\ exposed \in SUBSET Tables
  BY DEF Init, TablesInit, TablesTypeOK
<1>2. Len(history) = 1 /\ history[1] = exposed /\ history \in Seq(SUBSET Tables)
  BY <1>1 DEF Init
<1>3. TypeOK
  BY <1>1, <1>2, MaxCrashesIsNat
  DEF Init, TablesTypeOK, TypeOK, Phases, Snapshots, Nothing, Durable
<1>4. SecureTables
  BY <1>1 DEF Init, TablesInit, SecureTables, ForcedExist, RowSecurityHolds
<1>5. HistoryInv
  BY <1>1, <1>2, <1>4
  DEF Init, HistoryInv, Served, Durable, SecureTables, RowSecurityHolds, Exists
<1>6. TicketInv /\ RebuildInv /\ DownInv
  BY DEF Init, TicketInv, RebuildInv, DownInv
<1>. QED BY <1>3, <1>4, <1>5, <1>6 DEF IInv

(* A command takes effect: the history grows, nothing of the refreshes or  *)
(* of the snapshot changes.                                                *)
LEMMA CommitInv ==
  ASSUME IInv, NEW c \in Calls, Commit(c), phase' \in [Calls -> Phases],
         \A d \in Calls : phase'[d] = "verifying" <=> phase[d] = "verifying",
         \A d \in Calls : phase'[d] = "reading" => phase[d] = "reading",
         ~up => phase' = phase,
         UNCHANGED <<request, refreshVars, processVars, crashes>>
  PROVE  IInv'
<1>1. TypeOK'
  BY CommitType DEF IInv
<1>2. HistoryStep /\ TablesTypeOK /\ exposed' = history'[Len(history')]
  BY CommitHistory DEF IInv, HistoryInv, TypeOK
<1>3. SecureTables'
  BY <1>2, RequestType, EffectKeepsSecurity DEF IInv, Commit
<1>4. /\ Len(history') \in Nat /\ Len(history') >= Len(history)
      /\ \A n \in 1..Len(history) : history'[n] = history[n]
  BY <1>2, HistoryGrows DEF IInv
<1>5. TicketInv'
  BY DEF IInv, TicketInv, refreshVars, processVars
<1>6. RebuildInv'
  BY <1>4, HistoryType DEF IInv, RebuildInv, refreshVars, processVars
<1>7. DownInv'
  BY DEF IInv, DownInv, Running, processVars
<1>8. HistoryInv'
  BY <1>2, <1>4 DEF IInv, TypeOK, HistoryInv, Served, processVars
<1>. QED BY <1>1, <1>3, <1>5, <1>6, <1>7, <1>8 DEF IInv

(* Steps that only move a call from one phase to another.                  *)
LEMMA PhaseInv ==
  ASSUME IInv, NEW c \in Calls, NEW p \in Phases \ {"reading", "verifying"},
         Goto(c, p), checking' = [checking EXCEPT ![c] = None], up,
         UNCHANGED <<durableVars, request, ticket, rows, readAt, verified, processVars, done,
                     crashes>>
  PROVE  IInv'
<1>1. TypeOK'
  BY DEF IInv, TypeOK, TablesTypeOK, Goto, durableVars, processVars
<1>2. SecureTables'
  BY DEF IInv, SecureTables, ForcedExist, RowSecurityHolds, Exists, durableVars
<1>3. TicketInv' /\ RebuildInv' /\ DownInv'
  BY DEF IInv, TypeOK, TicketInv, RebuildInv, DownInv, Goto, durableVars, processVars
<1>4. HistoryInv'
  BY DEF IInv, HistoryInv, Served, durableVars, processVars
<1>. QED BY <1>1, <1>2, <1>3, <1>4 DEF IInv

(* A running call, and one that is still idle but answered, means a live   *)
(* process.                                                                *)
LEMMA RunningUp == ASSUME IInv, NEW c \in Calls, Running(c) PROVE up
BY DEF IInv, DownInv

(* Every step keeps the invariant.                                         *)
LEMMA StepInv == IInv /\ [Next]_vars => IInv'
<1>. SUFFICES ASSUME IInv, [Next]_vars PROVE IInv'
  OBVIOUS
<1>1. ASSUME NEW c \in Calls, Execute(c) PROVE IInv'
  <2>1. up /\ phase[c] = "ready"
    BY <1>1, RunningUp DEF Execute, Running
  <2>2. \E p \in {"succeeded", "ok", "lost"} : phase' = [phase EXCEPT ![c] = p]
    BY <1>1 DEF Execute, Succeed, Goto
  <2>. QED BY <1>1, <2>1, <2>2, CommitInv DEF Execute, IInv, TypeOK, Phases
<1>2. ASSUME NEW c \in Calls, CommitArrives(c) PROVE IInv'
  BY <1>2, CommitInv DEF CommitArrives, IInv, TypeOK
<1>3. ASSUME NEW c \in Calls,
             \/ PreflightPasses(c) \/ PreflightFails(c) \/ Replay(c) \/ ExecuteFails(c)
      PROVE IInv'
  <2>1. up /\ phase[c] \in {"idle", "ready"}
    BY <1>3, RunningUp
    DEF PreflightPasses, PreflightFails, Replay, ExecuteFails, Running
  <2>2. checking' = [checking EXCEPT ![c] = None]
    BY <1>3, <2>1
    DEF PreflightPasses, PreflightFails, Replay, ExecuteFails, IInv, TypeOK, RebuildInv,
        refreshVars
  <2>3. \E p \in {"ready", "succeeded", "ok", "failed", "lost"} : Goto(c, p)
    BY <1>3 DEF PreflightPasses, PreflightFails, Replay, ExecuteFails, Succeed
  <2>. QED BY <1>3, <2>1, <2>2, <2>3, PhaseInv
         DEF PreflightPasses, PreflightFails, Replay, ExecuteFails, Phases, refreshVars
<1>4. ASSUME NEW c \in Calls, StartRefresh(c) PROVE IInv'
  <2>1. up
    BY <1>4, RunningUp DEF StartRefresh, Running
  <2>2. TypeOK'
    BY <1>4 DEF IInv, StartRefresh, Goto, TypeOK, TablesTypeOK, durableVars, Phases
  <2>3. SecureTables' /\ HistoryInv'
    BY <1>4 DEF IInv, StartRefresh, SecureTables, ForcedExist, RowSecurityHolds,
                Exists, HistoryInv, Served, durableVars
  <2>4. TicketInv'
    BY <1>4 DEF IInv, StartRefresh, Goto, TypeOK, TicketInv
  <2>5. RebuildInv' /\ DownInv'
    BY <1>4, <2>1
    DEF IInv, StartRefresh, Goto, TypeOK, TicketInv, RebuildInv, DownInv, durableVars
  <2>. QED BY <2>2, <2>3, <2>4, <2>5 DEF IInv
<1>5. ASSUME NEW c \in Calls, ReadRows(c) PROVE IInv'
  <2>1. up
    BY <1>5, RunningUp DEF ReadRows, Running
  <2>2. exposed \in SUBSET Tables /\ Len(history) \in Nat \ {0}
    BY HistoryType DEF IInv, TypeOK
  <2>3. Nothing \in Snapshots /\ \A t \in Tables : Nothing[t] = None
    BY DEF Nothing, Snapshots
  <2>4. TypeOK'
    BY <1>5, <2>2, <2>3
    DEF IInv, ReadRows, Goto, TypeOK, TablesTypeOK, durableVars, processVars, Phases
  <2>5. SecureTables' /\ HistoryInv'
    BY <1>5 DEF IInv, ReadRows, SecureTables, ForcedExist, RowSecurityHolds,
                Exists, HistoryInv, Served, durableVars, processVars
  <2>6. TicketInv' /\ DownInv'
    BY <1>5, <2>1 DEF IInv, ReadRows, Goto, TypeOK, TicketInv, DownInv, processVars
  <2>7. RebuildInv'
    BY <1>5, <2>2, <2>3
    DEF IInv, ReadRows, Goto, TypeOK, RebuildInv, HistoryInv, durableVars, processVars
  <2>. QED BY <2>4, <2>5, <2>6, <2>7 DEF IInv
<1>6. ASSUME NEW c \in Calls, CheckTable(c) PROVE IInv'
  <2>1. TypeOK'
    BY <1>6 DEF IInv, CheckTable, TypeOK, TablesTypeOK, durableVars, processVars
  <2>2. SecureTables' /\ HistoryInv' /\ TicketInv' /\ DownInv'
    BY <1>6 DEF IInv, CheckTable, SecureTables, ForcedExist, RowSecurityHolds,
                Exists, HistoryInv, Served, TicketInv, DownInv, Running, durableVars, processVars
  <2>3. RebuildInv'
    BY <1>6 DEF IInv, CheckTable, TypeOK, RebuildInv, durableVars, processVars
  <2>. QED BY <2>1, <2>2, <2>3 DEF IInv
<1>7. ASSUME NEW c \in Calls, ReadColumns(c) PROVE IInv'
  <2>1. TypeOK'
    BY <1>7
    DEF IInv, ReadColumns, TypeOK, TablesTypeOK, durableVars, processVars, Snapshots
  <2>2. SecureTables' /\ HistoryInv' /\ TicketInv' /\ DownInv'
    BY <1>7 DEF IInv, ReadColumns, SecureTables, ForcedExist, RowSecurityHolds,
                Exists, HistoryInv, Served, TicketInv, DownInv, Running, durableVars, processVars
  <2>3. RebuildInv'
    BY <1>7
    DEF IInv, ReadColumns, TypeOK, Snapshots, RebuildInv, durableVars, processVars
  <2>. QED BY <2>1, <2>2, <2>3 DEF IInv
<1>8. ASSUME NEW c \in Calls, RefreshFails(c) PROVE IInv'
  <2>1. up
    BY <1>8, RunningUp DEF RefreshFails, Running
  <2>. QED BY <1>8, <2>1, PhaseInv DEF RefreshFails, Phases
<1>9. ASSUME NEW c \in Calls, Install(c) PROVE IInv'
  <2>1. up /\ phase[c] = "verifying" /\ checking[c] = None
    BY <1>9, RunningUp DEF Install, Rebuilt, Running
  <2>2. checking' = [checking EXCEPT ![c] = None]
    BY <1>9, <2>1 DEF IInv, TypeOK, Install, refreshVars
  <2>3. CASE ticket[c] # latestTicket
    BY <1>9, <2>1, <2>2, <2>3, PhaseInv DEF Install, Phases, refreshVars, processVars
  <2>4. CASE ticket[c] = latestTicket
    <3>1. /\ readAt[c] \in 1..Len(history) /\ rows[c] = history[readAt[c]]
          /\ \A t \in Tables : verified[c][t] # None <=> t \in rows[c]
      BY <1>9, <2>1 DEF IInv, TypeOK, RebuildInv, Install, Rebuilt
    <3>2. TypeOK'
      BY <1>9, <2>4, <3>1
      DEF IInv, Install, Goto, TypeOK, TablesTypeOK, durableVars, refreshVars, Phases
    <3>3. SecureTables'
      BY <1>9 DEF IInv, Install, SecureTables, ForcedExist, RowSecurityHolds, Exists,
                  durableVars
    <3>4. HistoryInv'
      BY <1>9, <2>4, <3>1 DEF IInv, TypeOK, Install, HistoryInv, Served, durableVars
    <3>5. TicketInv' /\ DownInv'
      BY <1>9, <2>1 DEF IInv, Install, Goto, TypeOK, TicketInv, DownInv, refreshVars
    <3>6. \A d \in Calls : phase[d] = "verifying" /\ ticket[d] = latestTicket => d = c
      BY <2>1, <2>4 DEF IInv, TypeOK, TicketInv
    <3>7. RebuildInv'
      BY <1>9, <2>1, <2>4, <3>6
      DEF IInv, Install, Goto, TypeOK, RebuildInv, durableVars, refreshVars
    <3>. QED BY <3>2, <3>3, <3>4, <3>5, <3>7 DEF IInv
  <2>. QED BY <2>3, <2>4
<1>10. CASE Crash
  <2>0. crashes' \in 0..MaxCrashes
    BY <1>10, MaxCrashesIsNat DEF IInv, Crash, TypeOK
  <2>1. TypeOK'
    <3>1. phase' \in [Calls -> Phases]
      BY <1>10 DEF IInv, Crash, TypeOK, Phases
    <3>2. ticket' \in [Calls -> Nat] /\ checking' \in [Calls -> Tables \cup {None}]
      BY <1>10 DEF Crash
    <3>. QED BY <1>10, <2>0, <3>1, <3>2 DEF IInv, Crash, TypeOK, TablesTypeOK, durableVars
  <2>2. SecureTables' /\ HistoryInv'
    BY <1>10 DEF IInv, Crash, SecureTables, ForcedExist, RowSecurityHolds, Exists,
                 HistoryInv, Served, durableVars
  <2>3. \A c \in Calls : phase'[c] \in {"idle", "ok", "failed", "lost"}
    BY <1>10 DEF Crash, Running
  <2>4. TicketInv' /\ RebuildInv' /\ DownInv'
    BY <1>10, <2>3 DEF Crash, TicketInv, RebuildInv, DownInv, Running
  <2>. QED BY <2>1, <2>2, <2>4 DEF IInv
<1>11. CASE Start
  <2>1. exposed \in SUBSET Tables /\ Len(history) \in Nat \ {0}
    BY HistoryType DEF IInv, TypeOK
  <2>2. TypeOK'
    BY <1>11, <2>1
    DEF IInv, Start, TypeOK, TablesTypeOK, durableVars, refreshVars, Durable, Snapshots
  <2>3. SecureTables' /\ TicketInv'
    BY <1>11 DEF IInv, Start, SecureTables, ForcedExist, RowSecurityHolds, Exists,
                 TicketInv, durableVars, refreshVars
  <2>4. HistoryInv'
    BY <1>11, <2>1
    DEF IInv, SecureTables, RowSecurityHolds, Exists, Start, HistoryInv, Served, Durable, durableVars
  <2>5. \A c \in Calls : phase[c] # "verifying"
    BY <1>11 DEF IInv, DownInv, Start, Running
  <2>6. RebuildInv' /\ DownInv'
    BY <1>11, <2>5 DEF IInv, Start, RebuildInv, DownInv, refreshVars
  <2>. QED BY <2>2, <2>3, <2>4, <2>6 DEF IInv
<1>12. CASE UNCHANGED vars
  <2>1. TypeOK' /\ SecureTables' /\ HistoryInv'
    BY <1>12 DEF vars, durableVars, refreshVars, processVars, IInv, TypeOK, TablesTypeOK,
       SecureTables, ForcedExist, RowSecurityHolds, Exists, HistoryInv, Served
  <2>2. TicketInv' /\ RebuildInv' /\ DownInv'
    BY <1>12 DEF vars, durableVars, refreshVars, processVars, IInv, TicketInv, RebuildInv,
       DownInv, Running
  <2>. QED BY <2>1, <2>2 DEF IInv
<1>. QED
  BY <1>1, <1>2, <1>3, <1>4, <1>5, <1>6, <1>7, <1>8, <1>9, <1>10, <1>11, <1>12
  DEF Next, CallStep

LEMMA RegistryInv == Spec => []IInv
BY InitInv, StepInv, PTL DEF Spec

-------------------------------------------------------------------------------
(* The columns of what is served and rebuilt: ColumnsInv.                  *)

LEMMA RegistryTypes ==
  ASSUME IInv
  PROVE  /\ Len(history) \in Nat \ {0} /\ servedAt \in 1..Len(history)
         /\ \A c \in Calls : phase[c] = "verifying" => readAt[c] \in 1..Len(history)
BY HistoryType DEF IInv, TypeOK, RebuildInv

(* A plan changes the columns of no table that is exposed.                 *)
LEMMA CommitColumns ==
  ASSUME IInv, NEW c \in Calls, Commit(c), NEW t \in Tables, NEW n \in 1..Len(history),
         Unbroken(t, n)'
  PROVE  Unbroken(t, n) /\ shape'[t] = shape[t]
<1>. DEFINE r == request[c]
<1>1. HistoryStep /\ TakeEffect(r) /\ r \in Request
  BY CommitHistory, RequestType DEF IInv, HistoryInv, Commit
<1>2. /\ Len(history) \in Nat /\ Len(history') \in Nat /\ Len(history') >= Len(history)
      /\ \A i \in 1..Len(history) : history'[i] = history[i]
  BY <1>1, HistoryGrows, HistoryType DEF IInv
<1>3. \A i \in n..Len(history) : i \in n..Len(history') /\ i \in 1..Len(history)
  BY <1>2
<1>4. Unbroken(t, n)
  BY <1>2, <1>3 DEF Unbroken
<1>5. t \in exposed /\ shape[t] # None
  BY <1>2, <1>4 DEF Unbroken, IInv, HistoryInv, SecureTables, RowSecurityHolds, Exists
<1>6. ASSUME Alter(r.table, r.shape) PROVE shape'[t] = shape[t]
  BY <1>5, <1>6 DEF IInv, TypeOK, TablesTypeOK, Alter, AssertNotExposed
<1>7. ASSUME Rename(r.table, r.to) PROVE shape'[t] = shape[t]
  BY <1>5, <1>7 DEF IInv, TypeOK, TablesTypeOK, Rename, AssertNotExposed, Exists
<1>8. ASSUME Drop(r.table) \/ Create(r.table, r.shape) PROVE shape'[t] = shape[t]
  BY <1>5, <1>8
  DEF IInv, TypeOK, TablesTypeOK, Drop, Create, Recreate, AssertNotExposed, Exists
<1>9. shape'[t] = shape[t]
  BY <1>1, <1>6, <1>7, <1>8
  DEF TakeEffect, Expose, Unexpose, EnableRls, DisableRls, SetForced, AddPolicy, RemovePolicy,
      SetPolicies
<1>. QED BY <1>4, <1>9

LEMMA CommitKeepsColumns ==
  ASSUME IInv, ColumnsInv, NEW k \in Calls, Commit(k),
         \A d \in Calls : phase'[d] = "verifying" <=> phase[d] = "verifying",
         UNCHANGED <<refreshVars, processVars>>
  PROVE  ColumnsInv'
<1>1. ASSUME NEW c \in Calls, phase'[c] = "verifying", NEW t \in Tables,
             verified'[c][t] # None, Unbroken(t, readAt[c])'
      PROVE  verified'[c][t] = shape'[t]
  <2>1. phase[c] = "verifying" /\ readAt[c] \in 1..Len(history) /\ readAt' = readAt
        /\ verified' = verified
    BY <1>1, RegistryTypes DEF refreshVars
  <2>2. PICK n \in 1..Len(history) : n = readAt[c]
    BY <2>1
  <2>3. Unbroken(t, n)'
    BY <1>1, <2>1, <2>2 DEF Unbroken
  <2>4. Unbroken(t, n) /\ shape'[t] = shape[t]
    BY <2>3, CommitColumns
  <2> QED BY <1>1, <2>1, <2>2, <2>4 DEF ColumnsInv
<1>2. ASSUME NEW t \in Served', Unbroken(t, servedAt)' PROVE served'[t] = shape'[t]
  <2>1. servedAt \in 1..Len(history) /\ servedAt' = servedAt /\ served' = served /\ t \in Tables
    BY RegistryTypes DEF processVars, Served
  <2>2. PICK n \in 1..Len(history) : n = servedAt
    BY <2>1
  <2>3. Unbroken(t, n)'
    BY <1>2, <2>1, <2>2 DEF Unbroken
  <2>4. Unbroken(t, n) /\ shape'[t] = shape[t]
    BY <2>1, <2>3, CommitColumns
  <2> QED BY <1>2, <2>1, <2>2, <2>4 DEF ColumnsInv, Served
<1> QED BY <1>1, <1>2 DEF ColumnsInv

(* A step that neither changes a table nor what is verified or served.     *)
LEMMA OthersKeepColumns ==
  ASSUME ColumnsInv,
         \A d \in Calls : phase'[d] = "verifying" => phase[d] = "verifying",
         UNCHANGED <<shape, history, readAt, verified, served, servedAt>>
  PROVE  ColumnsInv'
BY DEF ColumnsInv, Unbroken, Served

LEMMA ReadRowsKeepsColumns ==
  ASSUME IInv, ColumnsInv, NEW c \in Calls, ReadRows(c)
  PROVE  ColumnsInv'
<1>1. /\ UNCHANGED <<shape, history, served, servedAt>>
      /\ \A d \in Calls \ {c} : phase'[d] = phase[d] /\ readAt'[d] = readAt[d]
                                /\ verified'[d] = verified[d]
      /\ \A t \in Tables : verified'[c][t] = None
  BY DEF ReadRows, Goto, IInv, TypeOK, durableVars, processVars, Nothing
<1> QED BY <1>1 DEF ColumnsInv, Unbroken, Served

LEMMA ReadColumnsKeepsColumns ==
  ASSUME IInv, ColumnsInv, NEW c \in Calls, ReadColumns(c)
  PROVE  ColumnsInv'
<1>1. /\ UNCHANGED <<shape, history, served, servedAt, readAt, phase>>
      /\ \A d \in Calls \ {c} : verified'[d] = verified[d]
      /\ \A t \in Tables : verified'[c][t] = IF t = checking[c] THEN shape[t] ELSE verified[c][t]
  BY DEF ReadColumns, IInv, TypeOK, durableVars, processVars, Snapshots
<1> QED BY <1>1 DEF ColumnsInv, Unbroken, Served

LEMMA InstallKeepsColumns ==
  ASSUME IInv, ColumnsInv, NEW c \in Calls, Install(c)
  PROVE  ColumnsInv'
<1>1. /\ UNCHANGED <<shape, history, readAt, verified>> /\ phase[c] = "verifying"
      /\ \A d \in Calls : phase'[d] = "verifying" => phase[d] = "verifying"
  BY DEF Install, Rebuilt, Goto, IInv, TypeOK, durableVars, refreshVars
<1>2. CASE ticket[c] # latestTicket
  BY <1>1, <1>2, OthersKeepColumns DEF Install
<1>3. CASE ticket[c] = latestTicket
  <2>1. served' = verified[c] /\ servedAt' = readAt[c]
    BY <1>3 DEF Install
  <2> QED BY <1>1, <2>1 DEF ColumnsInv, Unbroken, Served
<1> QED BY <1>2, <1>3

LEMMA StartKeepsColumns ==
  ASSUME IInv, ColumnsInv, Start
  PROVE  ColumnsInv'
<1>1. UNCHANGED <<shape, history, readAt, verified, phase>> /\ served' = Durable
  BY DEF Start, durableVars, refreshVars
<1>2. \A t \in Tables : Durable[t] # None => Durable[t] = shape[t]
  BY DEF Durable
<1> QED BY <1>1, <1>2 DEF ColumnsInv, Unbroken, Served

LEMMA ColumnsHold == Spec => []ColumnsInv
<1>1. Init => ColumnsInv
  BY DEF Init, ColumnsInv, Served, Durable
<1>2. IInv /\ ColumnsInv /\ [Next]_vars => ColumnsInv'
  <2>. SUFFICES ASSUME IInv, ColumnsInv, [Next]_vars PROVE ColumnsInv'
    OBVIOUS
  <2>1. ASSUME NEW c \in Calls, Execute(c) \/ CommitArrives(c) PROVE ColumnsInv'
    <3>1. \A d \in Calls : phase'[d] = "verifying" <=> phase[d] = "verifying"
      BY <2>1 DEF Execute, CommitArrives, Succeed, Goto, IInv, TypeOK
    <3>. QED BY <2>1, <3>1, CommitKeepsColumns DEF Execute, CommitArrives
  <2>2. ASSUME NEW c \in Calls,
               \/ PreflightPasses(c) \/ PreflightFails(c) \/ Replay(c) \/ ExecuteFails(c)
               \/ StartRefresh(c) \/ CheckTable(c) \/ RefreshFails(c)
        PROVE ColumnsInv'
    <3>1. \A d \in Calls : phase'[d] = "verifying" => phase[d] = "verifying"
      BY <2>2
      DEF PreflightPasses, PreflightFails, Replay, ExecuteFails, StartRefresh, CheckTable,
          RefreshFails, Succeed, Goto, IInv, TypeOK
    <3>. QED
      BY <2>2, <3>1, OthersKeepColumns
      DEF PreflightPasses, PreflightFails, Replay, ExecuteFails, StartRefresh, CheckTable,
          RefreshFails, durableVars, refreshVars, processVars
  <2>3. ASSUME Crash PROVE ColumnsInv'
    BY <2>3, OthersKeepColumns DEF Crash, Running, IInv, TypeOK, durableVars
  <2>4. CASE UNCHANGED vars
    BY <2>4, OthersKeepColumns DEF vars, durableVars, refreshVars, processVars
  <2>. QED
    BY <2>1, <2>2, <2>3, <2>4, ReadRowsKeepsColumns, ReadColumnsKeepsColumns,
       InstallKeepsColumns, StartKeepsColumns DEF Next, CallStep
<1>. QED BY <1>1, <1>2, RegistryInv, PTL DEF Spec

-------------------------------------------------------------------------------
(* The refreshes after an effect: FreshInv.                                *)

(* A command takes effect: what the older effects had is untouched, and no *)
(* refresh has followed the new one.                                       *)
LEMMA CommitKeepsFresh ==
  ASSUME IInv, FreshInv, NEW c \in Calls, Commit(c),
         NEW p \in {"lost", "ok", "succeeded"}, Goto(c, p),
         p = "ok" => request[c].kind \notin ExposureKinds,
         UNCHANGED <<request, refreshVars, processVars>>
  PROVE  FreshInv'
<1> DEFINE n == Len(history)
<1>1. request[c] \notin done /\ done' = done \cup {request[c]}
  BY DEF Commit, Recorded
<1>2. n \in Nat
  BY HistoryType DEF IInv
<1>0. HistoryStep
  BY CommitHistory DEF IInv, HistoryInv
<1>3. /\ phase'[c] = p /\ \A d \in Calls \ {c} : phase'[d] = phase[d]
      /\ UNCHANGED <<request, ticket, readAt, latestTicket, servedAt, up>>
  BY DEF Goto, IInv, TypeOK, refreshVars, processVars
<1>4. \A d \in Calls : request[d] = request[c] =>
        ticket[d] = 0 /\ phase[d] \notin {"succeeded", "reading", "verifying", "ok"}
  BY <1>1 DEF FreshInv, OnRecord, IInv, TypeOK
<1>5. ASSUME NEW r \in done, NEW i \in Nat, EffectOf(r, i) PROVE EffectOf(r, i)'
  <2>1. \A d \in Calls : 0 < ticket[d] /\ phase'[d] \in {"verifying", "ok"} => phase'[d] = phase[d]
    BY <1>3, <1>4 DEF IInv, TypeOK
  <2>2. \A d \in Calls : request[d] = r => phase'[d] = phase[d]
    BY <1>1, <1>3
  <2>3. \A d \in Calls : ticket[d] \in Nat
    BY DEF IInv, TypeOK
  <2>4. ASSUME NEW d \in Calls, request'[d] = r, NEW e \in Calls,
               0 < ticket'[d], ticket'[d] <= ticket'[e], phase'[e] \in {"verifying", "ok"}
        PROVE  i <= readAt'[e]
    <3>1. 0 < ticket[e] /\ phase[e] = phase'[e]
      BY <1>3, <2>1, <2>3, <2>4
    <3> QED BY <1>3, <1>5, <2>4, <3>1 DEF EffectOf
  <2>5. ASSUME NEW d \in Calls, request'[d] = r, up', phase'[d] = "ok", ticket'[d] = 0
        PROVE  i <= servedAt'
    BY <1>3, <1>5, <2>2, <2>5 DEF EffectOf
  <2> QED BY <1>5, <2>4, <2>5 DEF EffectOf
<1>6. \A i \in 2..Len(history') : \E r \in done' : EffectOf(r, i)'
  <2>1. CASE history' = history
    <3>1. ASSUME NEW i \in 2..n PROVE \E r \in done' : EffectOf(r, i)'
      <4>1. PICK r \in done : EffectOf(r, i)
        BY DEF FreshInv
      <4>2. i \in Nat
        BY <1>2
      <4> QED BY <1>1, <1>5, <4>1, <4>2
    <3> QED BY <2>1, <3>1
  <2>2. CASE history' # history
    <3>1. request[c].kind \in ExposureKinds
      BY <2>2 DEF Commit
    <3>2. p \in {"lost", "succeeded"}
      BY <3>1
    <3>3. ASSUME NEW r, r = request[c], NEW i PROVE EffectOf(r, i)'
      <4>1. \A d \in Calls : request'[d] = r => ticket'[d] = 0 /\ phase'[d] # "ok"
        BY <1>3, <1>4, <3>2, <3>3
      <4> QED BY <3>1, <3>3, <4>1 DEF EffectOf
    <3>4. PICK r \in done' : r = request[c]
      BY <1>1
    <3> QED BY <3>3, <3>4
  <2> QED BY <2>1, <2>2
<1>7. \A d \in Calls : OnRecord(d)'
  BY <1>1, <1>3, <1>4 DEF FreshInv, OnRecord
<1>8. \A d \in Calls :
        0 < ticket'[d] /\ ticket'[d] = latestTicket' /\ phase'[d] = "ok" => servedAt' = readAt'[d]
  BY <1>3, <1>4 DEF FreshInv
<1>9. ~up' => \A d \in Calls : ticket'[d] = 0
  BY <1>3 DEF FreshInv
<1> QED BY <1>6, <1>7, <1>8, <1>9 DEF FreshInv

(* The history stays and every effect keeps its refreshes.                 *)
LEMMA NoCommitKeepsFresh ==
  ASSUME IInv, FreshInv, UNCHANGED <<history, request, done>>,
         ASSUME NEW i \in 2..Len(history), NEW r \in done, EffectOf(r, i) PROVE EffectOf(r, i)',
         \A d \in Calls : OnRecord(d)',
         \A d \in Calls :
           0 < ticket'[d] /\ ticket'[d] = latestTicket' /\ phase'[d] = "ok"
             => servedAt' = readAt'[d],
         ~up' => \A d \in Calls : ticket'[d] = 0
  PROVE  FreshInv'
BY DEF FreshInv

(* A call moves between phases outside the refresh.                        *)
LEMMA PhaseKeepsFresh ==
  ASSUME IInv, FreshInv, NEW c \in Calls,
         NEW p \in {"ready", "succeeded", "ok", "failed", "lost"}, Goto(c, p),
         p = "succeeded" => request[c] \in done,
         p = "ok" => request[c] \in done /\ request[c].kind \notin ExposureKinds,
         p = "failed" \/ ticket[c] = 0,
         UNCHANGED <<history, request, ticket, readAt, processVars, done>>
  PROVE  FreshInv'
<1>1. /\ phase'[c] = p /\ \A d \in Calls \ {c} : phase'[d] = phase[d]
      /\ UNCHANGED <<request, ticket, readAt, latestTicket, servedAt, up>>
      /\ \A d \in Calls : ticket[d] \in Nat
  BY DEF Goto, IInv, TypeOK, processVars
<1>2. ASSUME NEW i \in 2..Len(history), NEW r \in done, EffectOf(r, i) PROVE EffectOf(r, i)'
  <2>1. ASSUME NEW d \in Calls, request[d] = r, NEW e \in Calls,
               0 < ticket[d], ticket[d] <= ticket[e], phase'[e] \in {"verifying", "ok"}
        PROVE  i <= readAt[e]
    <3>1. phase[e] \in {"verifying", "ok"}
      BY <1>1, <2>1
    <3> QED BY <1>2, <2>1, <3>1 DEF EffectOf
  <2>2. ASSUME NEW d \in Calls, request[d] = r, up, phase'[d] = "ok", ticket[d] = 0
        PROVE  i <= servedAt
    <3>1. request[d].kind \in ExposureKinds
      BY <1>2, <2>2 DEF EffectOf
    <3>2. phase[d] = "ok"
      BY <1>1, <2>2, <3>1
    <3> QED BY <1>2, <2>2, <3>2 DEF EffectOf
  <2> QED BY <1>1, <1>2, <2>1, <2>2 DEF EffectOf
<1>3. \A d \in Calls : OnRecord(d)'
  BY <1>1 DEF FreshInv, OnRecord
<1>4. \A d \in Calls :
        0 < ticket'[d] /\ ticket'[d] = latestTicket' /\ phase'[d] = "ok" => servedAt' = readAt'[d]
  BY <1>1 DEF FreshInv
<1>5. ~up' => \A d \in Calls : ticket'[d] = 0
  BY <1>1 DEF FreshInv
<1> QED BY <1>2, <1>3, <1>4, <1>5, NoCommitKeepsFresh

(* A new ticket is the largest, and its refresh has read nothing yet.      *)
LEMMA StartRefreshKeepsFresh ==
  ASSUME IInv, FreshInv, NEW c \in Calls, StartRefresh(c)
  PROVE  FreshInv'
<1> DEFINE n == latestTicket
<1>1. /\ phase[c] = "succeeded" /\ phase'[c] = "reading" /\ ticket'[c] = n + 1
      /\ \A d \in Calls \ {c} : phase'[d] = phase[d] /\ ticket'[d] = ticket[d]
      /\ latestTicket' = n + 1
      /\ UNCHANGED <<history, request, readAt, servedAt, up, done>>
  BY DEF StartRefresh, Goto, IInv, TypeOK, durableVars
<1>2. n \in Nat /\ \A d \in Calls : ticket[d] \in Nat /\ ticket[d] <= n
  BY DEF IInv, TypeOK, TicketInv
<1>3. ASSUME NEW i \in 2..Len(history), NEW r \in done, EffectOf(r, i) PROVE EffectOf(r, i)'
  <2>1. ASSUME NEW d \in Calls, request[d] = r, NEW e \in Calls,
               0 < ticket'[d], ticket'[d] <= ticket'[e], phase'[e] \in {"verifying", "ok"}
        PROVE  i <= readAt[e]
    <3>1. e # c
      BY <1>1, <2>1
    <3>2. d # c
      BY <1>1, <1>2, <2>1, <3>1
    <3> QED BY <1>1, <1>3, <2>1, <3>1, <3>2 DEF EffectOf
  <2>2. ASSUME NEW d \in Calls, request[d] = r, up, phase'[d] = "ok", ticket'[d] = 0
        PROVE  i <= servedAt
    <3>1. d # c
      BY <1>1, <2>2
    <3> QED BY <1>1, <1>3, <2>2, <3>1 DEF EffectOf
  <2> QED BY <1>1, <1>3, <2>1, <2>2 DEF EffectOf
<1>4. \A d \in Calls : OnRecord(d)'
  BY <1>1 DEF FreshInv, OnRecord
<1>5. \A d \in Calls :
        0 < ticket'[d] /\ ticket'[d] = latestTicket' /\ phase'[d] = "ok" => servedAt' = readAt'[d]
  BY <1>1, <1>2
<1>6. up
  BY <1>1, RunningUp DEF Running
<1>7. up'
  BY <1>1, <1>6
<1> QED BY <1>1, <1>3, <1>4, <1>5, <1>7, NoCommitKeepsFresh

(* A refresh reads every effect so far.                                    *)
LEMMA ReadRowsKeepsFresh ==
  ASSUME IInv, FreshInv, NEW c \in Calls, ReadRows(c)
  PROVE  FreshInv'
<1>1. /\ phase[c] = "reading" /\ phase'[c] = "verifying" /\ readAt'[c] = Len(history)
      /\ \A d \in Calls \ {c} : phase'[d] = phase[d] /\ readAt'[d] = readAt[d]
      /\ UNCHANGED <<history, request, ticket, latestTicket, servedAt, up, done>>
  BY DEF ReadRows, Goto, IInv, TypeOK, durableVars, processVars
<1>2. ASSUME NEW i \in 2..Len(history), NEW r \in done, EffectOf(r, i) PROVE EffectOf(r, i)'
  <2>1. i <= Len(history)
    BY HistoryType DEF IInv, TypeOK
  <2>2. ASSUME NEW d \in Calls, request[d] = r, NEW e \in Calls,
               0 < ticket[d], ticket[d] <= ticket[e], phase'[e] \in {"verifying", "ok"}
        PROVE  i <= readAt'[e]
    BY <1>1, <1>2, <2>1, <2>2 DEF EffectOf
  <2>3. ASSUME NEW d \in Calls, request[d] = r, up, phase'[d] = "ok", ticket[d] = 0
        PROVE  i <= servedAt
    BY <1>1, <1>2, <2>3 DEF EffectOf
  <2> QED BY <1>1, <1>2, <2>2, <2>3 DEF EffectOf
<1>3. \A d \in Calls : OnRecord(d)'
  BY <1>1 DEF FreshInv, OnRecord
<1>4. \A d \in Calls :
        0 < ticket'[d] /\ ticket'[d] = latestTicket' /\ phase'[d] = "ok" => servedAt' = readAt'[d]
  BY <1>1 DEF FreshInv
<1>5. ~up' => \A d \in Calls : ticket'[d] = 0
  BY <1>1 DEF FreshInv
<1> QED BY <1>1, <1>2, <1>3, <1>4, <1>5, NoCommitKeepsFresh

(* What is installed was read since; what is not leaves the newer.         *)
LEMMA InstallKeepsFresh ==
  ASSUME IInv, FreshInv, NEW c \in Calls, Install(c)
  PROVE  FreshInv'
<1>1. /\ phase[c] = "verifying" /\ phase'[c] = "ok" /\ 0 < ticket[c]
      /\ \A d \in Calls \ {c} : phase'[d] = phase[d]
      /\ UNCHANGED <<history, request, ticket, readAt, latestTicket, up, done>>
  BY DEF Install, Rebuilt, Goto, IInv, TypeOK, TicketInv, durableVars, refreshVars
<1>2. /\ servedAt \in Nat /\ servedAt' \in Nat /\ servedAt <= servedAt'
      /\ ticket[c] = latestTicket => servedAt' = readAt[c]
      /\ ticket[c] # latestTicket => servedAt' = servedAt
  BY <1>1 DEF Install, Rebuilt, IInv, TypeOK, RebuildInv
<1>3. ASSUME NEW i \in 2..Len(history), NEW r \in done, EffectOf(r, i) PROVE EffectOf(r, i)'
  <2>1. ASSUME NEW d \in Calls, request[d] = r, NEW e \in Calls,
               0 < ticket[d], ticket[d] <= ticket[e], phase'[e] \in {"verifying", "ok"}
        PROVE  i <= readAt[e]
    BY <1>1, <1>3, <2>1 DEF EffectOf
  <2>2. ASSUME NEW d \in Calls, request[d] = r, up, phase'[d] = "ok", ticket[d] = 0
        PROVE  i <= servedAt'
    <3>1. d # c
      BY <1>1, <2>2
    <3>2. i <= servedAt /\ i \in Nat
      BY <1>1, <1>3, <2>2, <3>1, HistoryType DEF EffectOf, IInv, TypeOK
    <3> QED BY <1>2, <3>2
  <2> QED BY <1>1, <1>3, <2>1, <2>2 DEF EffectOf
<1>4. \A d \in Calls : OnRecord(d)'
  BY <1>1 DEF FreshInv, OnRecord
<1>5. ASSUME NEW d \in Calls, 0 < ticket'[d], ticket'[d] = latestTicket', phase'[d] = "ok"
      PROVE  servedAt' = readAt'[d]
  <2>1. CASE d = c
    BY <1>1, <1>2, <1>5, <2>1
  <2>2. CASE d # c
    <3>1. ticket[c] # latestTicket
      BY <1>1, <1>5, <2>2 DEF IInv, TicketInv, TypeOK
    <3> QED BY <1>1, <1>2, <1>5, <2>2, <3>1 DEF FreshInv
  <2> QED BY <2>1, <2>2
<1>6. ~up' => \A d \in Calls : ticket'[d] = 0
  BY <1>1 DEF FreshInv
<1> QED BY <1>1, <1>3, <1>4, <1>5, <1>6, NoCommitKeepsFresh

(* No refresh outlives its process.                                        *)
LEMMA CrashKeepsFresh ==
  ASSUME IInv, FreshInv, Crash
  PROVE  FreshInv'
<1>1. /\ \A d \in Calls : ticket'[d] = 0 /\ (phase'[d] \in {"succeeded", "reading",
             "verifying", "ok"} => phase[d] = "ok")
      /\ up' = FALSE /\ UNCHANGED <<history, request, done>>
  BY DEF Crash, Running, IInv, TypeOK, durableVars
<1>2. ASSUME NEW i \in 2..Len(history), NEW r \in done, EffectOf(r, i) PROVE EffectOf(r, i)'
  BY <1>1, <1>2 DEF EffectOf
<1>3. \A d \in Calls : OnRecord(d)'
  BY <1>1 DEF FreshInv, OnRecord
<1>4. \A d \in Calls : ~(0 < ticket'[d])
  BY <1>1
<1> QED BY <1>1, <1>2, <1>3, <1>4, NoCommitKeepsFresh

(* A process starts from every effect so far.                              *)
LEMMA StartKeepsFresh ==
  ASSUME IInv, FreshInv, Start
  PROVE  FreshInv'
<1>1. /\ servedAt' = Len(history)
      /\ UNCHANGED <<history, request, done, phase, ticket, readAt, latestTicket>>
  BY DEF Start, durableVars, refreshVars
<1>2. Len(history) \in Nat
  BY HistoryType DEF IInv, TypeOK
<1>3. ASSUME NEW i \in 2..Len(history), NEW r \in done, EffectOf(r, i) PROVE EffectOf(r, i)'
  <2>1. i <= Len(history)
    BY <1>2
  <2> QED BY <1>1, <1>3, <2>1 DEF EffectOf
<1>4. ~up /\ up'
  BY DEF Start
<1>5. \A d \in Calls : ticket'[d] = 0
  BY <1>1, <1>4 DEF FreshInv
<1>6. \A d \in Calls : OnRecord(d)'
  BY <1>1 DEF FreshInv, OnRecord
<1>7. \A d \in Calls : ~(0 < ticket'[d])
  BY <1>5
<1> QED BY <1>1, <1>3, <1>4, <1>5, <1>6, <1>7, NoCommitKeepsFresh

LEMMA EffectsAreFollowed == Spec => []FreshInv
<1>1. Init => FreshInv
  <2>. SUFFICES ASSUME Init PROVE FreshInv
    OBVIOUS
  <2>1. Len(history) = 1
    BY DEF Init
  <2>2. 2..Len(history) = {}
    BY <2>1
  <2>. QED BY <2>2 DEF Init, FreshInv, OnRecord
<1>2. IInv /\ FreshInv /\ [Next]_vars => FreshInv'
  <2>. SUFFICES ASSUME IInv, FreshInv, [Next]_vars PROVE FreshInv'
    OBVIOUS
  <2>1. ASSUME NEW c \in Calls, Execute(c) PROVE FreshInv'
    <3>1. \E p \in {"lost", "ok", "succeeded"} :
            Goto(c, p) /\ (p = "ok" => request[c].kind \notin ExposureKinds)
      BY <2>1 DEF Execute, Succeed
    <3>. QED BY <2>1, <3>1, CommitKeepsFresh DEF Execute
  <2>2. ASSUME NEW c \in Calls, CommitArrives(c) PROVE FreshInv'
    <3>1. Goto(c, "lost")
      BY <2>2 DEF CommitArrives, Goto, IInv, TypeOK
    <3>. QED BY <2>2, <3>1, CommitKeepsFresh DEF CommitArrives
  <2>3. ASSUME NEW c \in Calls, Replay(c) PROVE FreshInv'
    <3>0. phase[c] = "ready" /\ ticket[c] \in Nat
      BY <2>3 DEF Replay, IInv, TypeOK
    <3>1. /\ \E p \in {"ok", "succeeded"} :
               Goto(c, p) /\ (p = "ok" => request[c].kind \notin ExposureKinds)
          /\ request[c] \in done
          /\ UNCHANGED <<history, request, ticket, readAt, processVars, done>>
      BY <2>3 DEF Replay, Succeed, durableVars, refreshVars
    <3>2. ticket[c] = 0
      BY <3>0 DEF FreshInv, OnRecord
    <3>. QED BY <3>1, <3>2, PhaseKeepsFresh
  <2>4. ASSUME NEW c \in Calls,
               PreflightPasses(c) \/ PreflightFails(c) \/ ExecuteFails(c) \/ RefreshFails(c)
        PROVE FreshInv'
    <3>1. UNCHANGED <<history, request, ticket, readAt, processVars, done>>
      BY <2>4 DEF PreflightPasses, PreflightFails, ExecuteFails, RefreshFails, durableVars,
                  refreshVars
    <3>0. ticket[c] \in Nat
      BY DEF IInv, TypeOK
    <3>2. phase[c] \in {"idle", "ready"} => ticket[c] = 0
      BY <3>0 DEF FreshInv, OnRecord
    <3>3. \E p \in {"ready", "failed", "lost"} : Goto(c, p) /\ (p = "failed" \/ ticket[c] = 0)
      BY <2>4, <3>2 DEF PreflightPasses, PreflightFails, ExecuteFails, RefreshFails
    <3>. QED BY <3>1, <3>3, PhaseKeepsFresh
  <2>5. CASE UNCHANGED <<history, request, phase, ticket, readAt, processVars, done>>
    BY <2>5 DEF FreshInv, OnRecord, EffectOf, processVars
  <2>6. ASSUME NEW c \in Calls, CheckTable(c) \/ ReadColumns(c) PROVE FreshInv'
    BY <2>5, <2>6 DEF CheckTable, ReadColumns, durableVars
  <2>7. CASE UNCHANGED vars
    BY <2>5, <2>7 DEF vars, durableVars, refreshVars
  <2>. QED
    BY <2>1, <2>2, <2>3, <2>4, <2>6, <2>7, StartRefreshKeepsFresh, ReadRowsKeepsFresh,
       InstallKeepsFresh, CrashKeepsFresh, StartKeepsFresh DEF Next, CallStep
<1>. QED BY <1>1, <1>2, RegistryInv, PTL DEF Spec

-------------------------------------------------------------------------------
(* The results.                                                            *)

(* Every variable of the registry, its refreshes and the managed tables    *)
(* keeps its type.                                                         *)
THEOREM RegistryTypeCorrect == Spec => []TypeOK
<1>1. IInv => TypeOK
  BY DEF IInv
<1>. QED BY <1>1, RegistryInv, PTL

(* In whatever order commands preflight and commit, an exposed table       *)
(* exists and has its row security enabled and forced.                     *)
THEOREM ExposedTablesAreSecure == Spec => []RowSecurityHolds
<1>1. IInv => RowSecurityHolds
  BY DEF IInv, SecureTables
<1>. QED BY <1>1, RegistryInv, PTL

(* The served snapshot is a monotone view of the durable registry: always  *)
(* one whole state it was in, and never an older one than before, however  *)
(* many refreshes overlap.                                                 *)
THEOREM SnapshotFollowsRegistry == Spec => FollowsRegistry
<1>1. Init => View!Init
  <2>. SUFFICES ASSUME Init PROVE View!Init
    OBVIOUS
  <2>1. exposed \in SUBSET Tables /\ history = <<exposed>>
    BY DEF Init, TablesInit, TablesTypeOK
  <2>2. servedAt = 1 /\ Served = history[servedAt]
    BY InitInv DEF Init, IInv, HistoryInv
  <2>. QED BY <2>1, <2>2 DEF View!Init
<1>2. IInv /\ IInv' /\ [Next]_vars => [View!Next]_View!vars
  <2>. SUFFICES ASSUME IInv, IInv', [Next]_vars PROVE [View!Next]_View!vars
    OBVIOUS
  <2>1. ASSUME NEW c \in Calls, Execute(c) \/ CommitArrives(c)
        PROVE  View!Record \/ UNCHANGED View!vars
    <3>2. HistoryStep
      BY <2>1, CommitHistory DEF Execute, CommitArrives, IInv, HistoryInv
    <3>3. UNCHANGED <<servedAt, Served>>
      BY <2>1 DEF Execute, CommitArrives, processVars, Served
    <3>. QED BY <3>2, <3>3 DEF HistoryStep, View!Record, View!vars
  <2>2. ASSUME NEW c \in Calls, Install(c), ticket[c] = latestTicket PROVE View!Advance
    <3>1. servedAt' = readAt[c] /\ readAt[c] \in servedAt..Len(history)
      BY <2>2 DEF IInv, TypeOK, RebuildInv, Install, Rebuilt
    <3>. QED BY <2>2, <3>1 DEF IInv, HistoryInv, Install, durableVars, View!Advance
  <2>3. CASE Start
    <3>1. servedAt' \in servedAt..Len(history)
      BY <2>3 DEF IInv, TypeOK, Start
    <3>. QED BY <2>3, <3>1 DEF IInv, HistoryInv, Start, durableVars, View!Advance, View!Next
  <2>4. CASE UNCHANGED <<history, served, servedAt>>
    BY <2>4 DEF View!vars, Served
  <2>. QED
    BY <2>1, <2>2, <2>3, <2>4
    DEF Next, CallStep, PreflightPasses, PreflightFails, Replay, ExecuteFails, StartRefresh,
        ReadRows, CheckTable, ReadColumns, RefreshFails, Install, Crash, vars, durableVars,
        processVars, View!Next
<1>. QED BY <1>1, <1>2, RegistryInv, PTL DEF Spec, FollowsRegistry, View!Spec

(* A table exposed without a break since the served snapshot was read has  *)
(* the columns it is served with, whatever is altered, dropped and created *)
(* meanwhile.                                                              *)
THEOREM ServedColumnsAreCurrent == Spec => []ServedColumnsHold
<1>1. ColumnsInv => ServedColumnsHold
  BY DEF ColumnsInv, ServedColumnsHold, Unbroken
<1>. QED BY <1>1, ColumnsHold, PTL

(* Once every command that took effect has been acknowledged and the       *)
(* newest refresh of the process has succeeded, the snapshot served is the *)
(* durable registry (D-032 item 4), whatever was lost, retried or crashed. *)
THEOREM QuietSnapshotIsDurable == Spec => []QuietMeansCurrent
<1>1. IInv /\ ColumnsInv /\ FreshInv => QuietMeansCurrent
  <2>. SUFFICES ASSUME IInv, ColumnsInv, FreshInv, up, AllAcknowledged, NewestSucceeded
                PROVE served = Durable
    BY DEF QuietMeansCurrent
  <2>. DEFINE n == Len(history)
  <2>1. n \in Nat \ {0} /\ servedAt \in 1..n
    BY RegistryTypes
  <2>2. n >= 2 => n <= servedAt
    <3>. SUFFICES ASSUME n >= 2 PROVE n <= servedAt
      OBVIOUS
    <3>1. n \in 2..n
      BY <2>1
    <3>2. PICK r \in done : EffectOf(r, n)
      BY <3>1 DEF FreshInv
    <3>3. PICK c \in Calls : request[c] = r /\ phase[c] = "ok"
      BY DEF AllAcknowledged
    <3>4. ticket[c] \in Nat /\ latestTicket \in Nat /\ ticket[c] <= latestTicket
      BY DEF IInv, TypeOK, TicketInv
    <3>5. CASE ticket[c] = 0
      BY <3>2, <3>3, <3>5 DEF EffectOf
    <3>6. CASE 0 < ticket[c]
      <4>1. PICK d \in Calls : ticket[d] = latestTicket /\ phase[d] = "ok"
        BY <3>4, <3>6 DEF NewestSucceeded
      <4>2. n <= readAt[d]
        BY <3>2, <3>3, <3>4, <3>6, <4>1 DEF EffectOf
      <4>3. servedAt = readAt[d]
        BY <3>4, <3>6, <4>1 DEF FreshInv
      <4>. QED BY <4>2, <4>3
    <3>. QED BY <3>4, <3>5, <3>6
  <2>3. servedAt = n
    BY <2>1, <2>2
  <2>4. Served = exposed /\ exposed \in SUBSET Tables
    BY <2>3, HistoryType DEF IInv, TypeOK, HistoryInv
  <2>5. \A t \in exposed : served[t] = shape[t]
    <3>. SUFFICES ASSUME NEW t \in exposed PROVE served[t] = shape[t]
      OBVIOUS
    <3>1. Unbroken(t, servedAt)
      BY <2>1, <2>3 DEF Unbroken, IInv, HistoryInv
    <3>. QED BY <2>4, <3>1 DEF ColumnsInv
  <2>6. \A t \in Tables : served[t] = Durable[t]
    BY <2>4, <2>5 DEF Durable, Served
  <2>7. served \in [Tables -> Shapes \cup {None}]
    BY DEF IInv, TypeOK, Snapshots
  <2>. QED BY <2>6, <2>7 DEF Durable
<1>. QED BY <1>1, RegistryInv, ColumnsHold, EffectsAreFollowed, PTL
===============================================================================
