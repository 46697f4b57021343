------------------------ MODULE DataTransactionsProofs ------------------------
(***************************************************************************)
(* Theorems about DataTransactions, for every number of calls, users, rows,*)
(* connections and crashes: a pooled connection is clean, a row is written *)
(* in its writer's name, a caller is shown rows of its own only, and the   *)
(* data lane implements AtomicRequests, from which follows that a row is   *)
(* changed for its owner only and that answers stay true.                  *)
(*                                                                         *)
(* The argument: a connection is held by one call at a time, which finds   *)
(* it clean; from then on its identity is the call's or none, and the only *)
(* query still running on it is the one the call gave up on.  It is        *)
(* pooled again only right after a COMMIT or ROLLBACK that was answered.   *)
(***************************************************************************)
EXTENDS DataTransactions, TLAPS

Clean(x) ==
  txState[x] = "none" /\ identity[x] = None /\ txRows[x] = NoWrites /\ inflight[x] = None

(* Who holds which connection.                                             *)
ConnInv ==
  /\ \A c \in Calls : Running(c) <=> conn[c] # None
  /\ \A c \in Calls : conn[c] # None => pool[conn[c]] = "held"
  /\ \A c, d \in Calls : conn[c] # None /\ conn[c] = conn[d] => c = d
  /\ \A x \in Conns : pool[x] = "held" => \E c \in Calls : conn[c] = x

(* What call c relies on, of its connection x, when it stands at a point.  *)
Ready(x, c, point) ==
  /\ point = "begin" => Clean(x)
  /\ point = "identity" => inflight[x] = None
  /\ point \in {"block", "commit"} => inflight[x] = None /\ identity[x] = User(c)
  /\ point = "rollback" /\ inflight[x] # None =>
       /\ inflight[x].call = c
       /\ inflight[x].op = "STATEMENT" => identity[x] = User(c)

ReadyInv == \A c \in Calls : conn[c] # None => Ready(conn[c], c, pc[c])

Inv ==
  TypeOK /\ ConnInv /\ PooledIsClean /\ ReadyInv /\ RunsAsItself /\ SeesOwnRows

(* The database part of the type invariant, and the rest.                  *)
DatabaseType ==
  /\ txState \in [Conns -> {"none", "open", "aborted"}]
  /\ identity \in [Conns -> Users \cup {None}]
  /\ txRows \in [Conns -> [RowKeys -> Row \cup {None, Unwritten}]]
  /\ rows \in [RowKeys -> Row \cup {None}]
  /\ applied \in SUBSET Calls

ControlType ==
  /\ request \in [Calls -> Requests]
  /\ pc \in [Calls -> Points]
  /\ conn \in [Calls -> Conns \cup {None}]
  /\ step \in [Calls -> {1, 2}]
  /\ seen \in [Calls -> SUBSET (RowKeys \X (Users \cup {None}))]
  /\ reply \in [Calls -> {"none", "ok", "notFound", "refused", "error", "lost"}]
  /\ pool \in [Conns -> {"free", "idle", "held", "closing"}]
  /\ inflight \in [Conns -> [op : Ops, call : Calls] \cup {None}]
  /\ crashes \in 0..MaxCrashes

DatabaseInv == DatabaseType /\ RunsAsItself

LEMMA TypeParts == TypeOK <=> DatabaseType /\ ControlType
BY DEF TypeOK, DatabaseType, ControlType

LEMMA UserType ==
  ASSUME ControlType, NEW c \in Calls
  PROVE  User(c) \in Users \cup {None} /\ Kind(c) \in Kinds /\ Target(c) \in RowKeys
BY RequestsTyped DEF ControlType, User, Kind, Target, RowKeys

LEMMA UserKept ==
  ASSUME request' = request
  PROVE  \A c : User(c)' = User(c)
BY DEF User

(* A session does something; the other sessions are as they were.          *)
Frame(x) ==
  \A y \in Conns \ {x} :
    txState'[y] = txState[y] /\ identity'[y] = identity[y] /\ txRows'[y] = txRows[y]

Ended(x) ==
  txState'[x] = "none" /\ identity'[x] = None /\ txRows'[x] = NoWrites

-------------------------------------------------------------------------------
(* The database operations.                                                *)

LEMMA EndTxSafe ==
  ASSUME DatabaseInv, request' = request, NEW x \in Conns,
         RollbackTx(x) \/ \E c \in Calls : CommitTx(x, c)
  PROVE  DatabaseInv' /\ Frame(x) /\ Ended(x)
<1> USE DEF DatabaseInv, DatabaseType
<1>1. /\ Frame(x) /\ Ended(x)
      /\ txState' \in [Conns -> {"none", "open", "aborted"}]
      /\ identity' \in [Conns -> Users \cup {None}]
  BY DEF RollbackTx, CommitTx, EndTx, Frame, Ended
<1>2. txRows' = [txRows EXCEPT ![x] = NoWrites]
  BY DEF RollbackTx, CommitTx, EndTx
<1>3. txRows' \in [Conns -> [RowKeys -> Row \cup {None, Unwritten}]]
  BY <1>2 DEF NoWrites
<1>4. \/ rows' = rows /\ applied' = applied
      \/ /\ rows' = [key \in RowKeys |-> Visible(x, key)]
         /\ applied' \in SUBSET Calls
  BY DEF RollbackTx, CommitTx, durableVars
<1>5. rows' \in [RowKeys -> Row \cup {None}] /\ applied' \in SUBSET Calls
  BY <1>4 DEF Visible
<1>6. \A key \in RowKeys : rows'[key] = rows[key] \/ rows'[key] = txRows[x][key]
  BY <1>4 DEF Visible
<1>7. \A key \in RowKeys, y \in Conns :
        txRows'[y][key] = txRows[y][key] \/ txRows'[y][key] = Unwritten
  BY <1>2 DEF NoWrites
<1>8. RunsAsItself'
  <2>1. Authentic(Unwritten)' /\ \A value : Authentic(value)' <=> Authentic(value)
    BY NoRowIsNone, UserKept DEF Authentic
  <2>2. \A key \in RowKeys : Authentic(rows[key]) /\ \A y \in Conns : Authentic(txRows[y][key])
    BY DEF RunsAsItself
  <2>3. \A key \in RowKeys : Authentic(rows[key])'
    BY <1>6, <2>1, <2>2
  <2>4. \A key \in RowKeys, y \in Conns : Authentic(txRows[y][key])'
    BY <1>7, <2>1, <2>2
  <2> QED BY <2>3, <2>4 DEF RunsAsItself
<1> QED BY <1>1, <1>3, <1>5, <1>8

LEMMA SmallSafe ==
  ASSUME DatabaseInv, ControlType, request' = request, NEW x \in Conns, NEW c \in Calls,
         BeginTx(x) \/ AbortTx(x) \/ IdentifyTx(x, c)
  PROVE  DatabaseInv' /\ Frame(x) /\ identity'[x] \in {identity[x], User(c)}
<1>1. txRows' = txRows /\ rows' = rows /\ applied' = applied
  BY DEF BeginTx, AbortTx, IdentifyTx, durableVars
<1>2. DatabaseType' /\ Frame(x) /\ identity'[x] \in {identity[x], User(c)}
  BY <1>1, UserType DEF DatabaseInv, DatabaseType, BeginTx, AbortTx, IdentifyTx, Frame
<1>3. RunsAsItself'
  BY <1>1, UserKept DEF DatabaseInv, RunsAsItself, Authentic
<1> QED BY <1>2, <1>3 DEF DatabaseInv

(* A statement runs as the user it was made for.                           *)
LEMMA StatementSafe ==
  ASSUME DatabaseInv, ControlType, request' = request, NEW x \in Conns, NEW c \in Calls,
         identity[x] = User(c), StatementTx(x, c)
  PROVE  DatabaseInv' /\ Frame(x) /\ identity' = identity
<1> DEFINE row == [owner |-> identity[x], by |-> c]
<1> USE DEF DatabaseInv, DatabaseType
<1>1. /\ txState' = txState /\ identity' = identity /\ rows' = rows /\ applied' = applied
      /\ \/ txRows' = txRows
         \/ \E value \in {None, row} : txRows' = [txRows EXCEPT ![x][Target(c)] = value]
  BY DEF StatementTx, Write, durableVars
<1>2. row \in Row /\ Target(c) \in RowKeys
  BY UserType DEF Row
<1>3. CASE txRows' = txRows
  <2>1. RunsAsItself'
    BY <1>1, <1>3, UserKept DEF RunsAsItself, Authentic
  <2> QED BY <1>1, <1>3, <2>1 DEF Frame
<1>4. ASSUME NEW value \in {None, row}, txRows' = [txRows EXCEPT ![x][Target(c)] = value]
      PROVE  DatabaseInv' /\ Frame(x)
  <2>1. txRows' \in [Conns -> [RowKeys -> Row \cup {None, Unwritten}]] /\ Frame(x)
    BY <1>1, <1>2, <1>4 DEF Frame
  <2>2. \A key \in RowKeys, y \in Conns : txRows'[y][key] \in {txRows[y][key], value}
    BY <1>2, <1>4
  <2>3. Authentic(value)'
    BY <1>4, NoRowIsNone, UserKept DEF Authentic
  <2>4. RunsAsItself'
    BY <1>1, <2>2, <2>3, UserKept DEF RunsAsItself, Authentic
  <2> QED BY <1>1, <2>1, <2>4
<1> QED BY <1>1, <1>3, <1>4

LEMMA UnchangedSafe ==
  ASSUME DatabaseInv, request' = request, UNCHANGED dbVars
  PROVE  DatabaseInv'
<1>1. txState' = txState /\ identity' = identity /\ txRows' = txRows
      /\ rows' = rows /\ applied' = applied
  BY DEF dbVars, sessionVars, durableVars
<1> QED BY <1>1, UserKept DEF DatabaseInv, DatabaseType, RunsAsItself, Authentic

LEMMA RefuseSafe ==
  ASSUME DatabaseInv, ControlType, request' = request, NEW x \in Conns, NEW c \in Calls,
         NEW query \in [op : Ops, call : Calls], Refuse(x, query)
  PROVE  DatabaseInv' /\ Frame(x)
BY EndTxSafe, SmallSafe DEF Refuse

LEMMA ServeSafe ==
  ASSUME DatabaseInv, ControlType, request' = request, NEW x \in Conns,
         NEW query \in [op : Ops, call : Calls], Serve(x, query),
         query.op = "STATEMENT" => identity[x] = User(query.call)
  PROVE  DatabaseInv' /\ Frame(x)
BY EndTxSafe, SmallSafe, StatementSafe DEF Serve

-------------------------------------------------------------------------------
(* A step of call c on its connection x leaves what the other calls rely   *)
(* on alone.                                                               *)
LEMMA OthersReady ==
  ASSUME Inv, NEW c \in Calls, NEW x \in Conns, conn[c] = x, Frame(x), request' = request,
         \A y \in Conns \ {x} : inflight'[y] = inflight[y],
         NEW d \in Calls \ {c}, conn'[d] = conn[d], pc'[d] = pc[d], conn[d] # None
  PROVE  conn'[d] \in Conns \ {x} /\ Ready(conn[d], d, pc[d])'
<1>1. conn[d] \in Conns \ {x} /\ Ready(conn[d], d, pc[d])
  BY NoneIsNothing DEF Inv, TypeOK, ConnInv, ReadyInv
<1> QED BY <1>1, UserKept DEF Frame, Ready, Clean

(* Call c goes on to another point on the same connection.                 *)
LEMMA GoesOn ==
  ASSUME Inv, NEW c \in Calls, NEW x \in Conns, conn[c] = x, Frame(x), request' = request,
         \A y \in Conns \ {x} : inflight'[y] = inflight[y],
         NEW point \in {"begin", "identity", "block", "commit", "rollback"},
         pc' = [pc EXCEPT ![c] = point], conn' = conn, pool' = pool,
         Ready(x, c, point)'
  PROVE  ConnInv' /\ PooledIsClean' /\ ReadyInv'
<1>1. pc'[c] = point /\ \A d \in Calls \ {c} : pc'[d] = pc[d]
  BY DEF Inv, TypeOK
<1>2. x # None /\ pool[x] = "held"
  BY NoneIsNothing DEF Inv, ConnInv
<1>3. ConnInv'
  BY <1>1, <1>2 DEF Inv, ConnInv, Running
<1>4. PooledIsClean'
  <2>1. ASSUME NEW y \in Conns, pool'[y] \in {"free", "idle"}
        PROVE  y # x
    BY <1>2, <2>1
  <2> QED BY <2>1 DEF Inv, PooledIsClean, Frame
<1>5. ReadyInv'
  BY <1>1, OthersReady DEF ReadyInv
<1> QED BY <1>3, <1>4, <1>5

(* Call c ends, and gives its connection back clean or destroys it.        *)
LEMMA Ends ==
  ASSUME Inv, NEW c \in Calls, NEW x \in Conns, conn[c] = x, Frame(x), request' = request,
         \A y \in Conns \ {x} : inflight'[y] = inflight[y],
         NEW answer \in {"ok", "notFound", "refused", "error", "lost", "none"},
         NEW state \in {"idle", "closing"}, EndWith(c, answer, state),
         state = "idle" => Clean(x)'
  PROVE  /\ ConnInv' /\ PooledIsClean' /\ ReadyInv' /\ SeesOwnRows'
         /\ pc' \in [Calls -> Points] /\ conn' \in [Calls -> Conns \cup {None}]
         /\ step' = step /\ reply' \in [Calls -> {"none", "ok", "notFound", "refused", "error", "lost"}]
         /\ seen' \in [Calls -> SUBSET (RowKeys \X (Users \cup {None}))]
         /\ pool' \in [Conns -> {"free", "idle", "held", "closing"}]
<1> USE DEF EndWith, Goto
<1>1. /\ pc' = [pc EXCEPT ![c] = "done"] /\ conn' = [conn EXCEPT ![c] = None]
      /\ seen' = [seen EXCEPT ![c] = {}] /\ reply' = [reply EXCEPT ![c] = answer]
      /\ pool' = [pool EXCEPT ![x] = state] /\ step' = step
  OBVIOUS
<1>2. /\ pc' \in [Calls -> Points] /\ conn' \in [Calls -> Conns \cup {None}]
      /\ reply' \in [Calls -> {"none", "ok", "notFound", "refused", "error", "lost"}]
      /\ seen' \in [Calls -> SUBSET (RowKeys \X (Users \cup {None}))]
      /\ pool' \in [Conns -> {"free", "idle", "held", "closing"}]
  BY <1>1 DEF Inv, TypeOK, Points
<1>3. x # None /\ pool[x] = "held" /\ \A d \in Calls \ {c} : conn[d] # x
  BY NoneIsNothing DEF Inv, ConnInv
<1>4. /\ pc'[c] = "done" /\ conn'[c] = None /\ pool'[x] = state
      /\ \A d \in Calls \ {c} : pc'[d] = pc[d] /\ conn'[d] = conn[d]
      /\ \A y \in Conns \ {x} : pool'[y] = pool[y]
  BY <1>1 DEF Inv, TypeOK
<1>5. ConnInv'
  BY <1>3, <1>4, NoneIsNothing DEF Inv, TypeOK, ConnInv, Running
<1>6. PooledIsClean'
  BY <1>4 DEF Inv, PooledIsClean, Frame, Clean
<1>7. ReadyInv'
  BY <1>4, OthersReady DEF ReadyInv
<1>8. SeesOwnRows'
  <2>1. \A d \in Calls : seen'[d] \in {{}, seen[d]}
    BY <1>1 DEF Inv, TypeOK
  <2> QED BY <2>1, UserKept DEF Inv, SeesOwnRows
<1> QED BY <1>1, <1>2, <1>5, <1>6, <1>7, <1>8

-------------------------------------------------------------------------------
(* The steps.                                                              *)

LEMMA Parts ==
  ASSUME Inv
  PROVE  DatabaseInv /\ ControlType
BY TypeParts DEF Inv, DatabaseInv

LEMMA Assemble ==
  ASSUME DatabaseInv', ControlType', ConnInv', PooledIsClean', ReadyInv', SeesOwnRows'
  PROVE  Inv'
BY TypeParts DEF Inv, DatabaseInv, TypeOK, DatabaseType, ControlType

LEMMA HeldConn ==
  ASSUME Inv, NEW c \in Calls, Running(c) \/ conn[c] # None
  PROVE  conn[c] \in Conns /\ pool[conn[c]] = "held" /\ Ready(conn[c], c, pc[c]) /\ Running(c)
BY DEF Inv, ConnInv, ReadyInv, TypeOK

LEMMA SeenKept ==
  ASSUME Inv, request' = request, seen' = seen
  PROVE  SeesOwnRows'
BY UserKept DEF Inv, SeesOwnRows

LEMMA ConnectStep ==
  ASSUME Inv, NEW c \in Calls, Connect(c)
  PROVE  Inv'
<1>1. PICK x \in Conns :
        /\ pool[x] \in {"idle", "free"} /\ pool' = [pool EXCEPT ![x] = "held"]
        /\ conn' = [conn EXCEPT ![c] = x]
  BY DEF Connect
<1>2. pc[c] = "idle" /\ pc' = [pc EXCEPT ![c] = "begin"] /\ request' = request
      /\ inflight' = inflight /\ UNCHANGED <<step, seen, reply, dbVars, crashes>>
  BY DEF Connect, Goto
<1>3. DatabaseInv' /\ SeesOwnRows'
  BY <1>2, Parts, UnchangedSafe, SeenKept
<1>4. ControlType'
  BY <1>1, <1>2, Parts DEF ControlType, Points
<1>5. /\ txState' = txState /\ identity' = identity /\ txRows' = txRows
  BY <1>2 DEF dbVars, sessionVars
<1>6. /\ conn[c] = None /\ x # None /\ \A d \in Calls : conn[d] # x
      /\ conn'[c] = x /\ pc'[c] = "begin" /\ pool'[x] = "held"
      /\ \A d \in Calls \ {c} : conn'[d] = conn[d] /\ pc'[d] = pc[d]
      /\ \A y \in Conns \ {x} : pool'[y] = pool[y]
  BY <1>1, <1>2, NoneIsNothing DEF Inv, TypeOK, ConnInv, Running
<1>7. ConnInv'
  <2> USE <1>6, NoneIsNothing DEF Inv, TypeOK, ConnInv
  <2>1. \A d \in Calls : Running(d)' <=> conn'[d] # None
    BY DEF Running
  <2>2. \A d \in Calls : conn'[d] # None => pool'[conn'[d]] = "held"
    OBVIOUS
  <2>3. \A d, e \in Calls : conn'[d] # None /\ conn'[d] = conn'[e] => d = e
    OBVIOUS
  <2>4. ASSUME NEW y \in Conns, pool'[y] = "held"
        PROVE  \E d \in Calls : conn'[d] = y
    <3>1. CASE y = x
      BY <3>1
    <3>2. CASE y # x
      <4>1. PICK d \in Calls : conn[d] = y
        BY <2>4, <3>2
      <4>2. d # c
        BY <4>1
      <4> QED BY <4>1, <4>2
    <3> QED BY <3>1, <3>2
  <2> QED BY <2>1, <2>2, <2>3, <2>4
<1>8. PooledIsClean'
  BY <1>2, <1>5, <1>6 DEF Inv, PooledIsClean
<1>9. Clean(x)
  BY <1>1 DEF Inv, PooledIsClean, Clean
<1>10. ReadyInv'
  <2>1. Ready(x, c, "begin")'
    BY <1>2, <1>5, <1>9 DEF Ready, Clean
  <2>2. ASSUME NEW d \in Calls \ {c}, conn[d] # None
        PROVE  Ready(conn[d], d, pc[d])'
    BY <1>2, <1>5, <1>6, <2>2, UserKept DEF Inv, ReadyInv, Ready, Clean
  <2> QED BY <1>6, <2>1, <2>2 DEF ReadyInv
<1> QED BY <1>3, <1>4, <1>7, <1>8, <1>10, Assemble

LEMMA ConnectFailsStep ==
  ASSUME Inv, NEW c \in Calls, ConnectFails(c)
  PROVE  Inv'
<1>1. pc[c] = "idle" /\ pc' = [pc EXCEPT ![c] = "done"] /\ reply' = [reply EXCEPT ![c] = "error"]
      /\ UNCHANGED <<request, conn, step, seen, pool, inflight, dbVars, crashes>>
  BY DEF ConnectFails, Goto
<1>2. DatabaseInv' /\ SeesOwnRows'
  BY <1>1, Parts, UnchangedSafe, SeenKept
<1>3. ControlType'
  BY <1>1, Parts DEF ControlType, Points
<1>4. /\ txState' = txState /\ identity' = identity /\ txRows' = txRows
  BY <1>1 DEF dbVars, sessionVars
<1>5. conn[c] = None /\ pc'[c] = "done" /\ \A d \in Calls \ {c} : pc'[d] = pc[d]
  BY <1>1 DEF Inv, TypeOK, ConnInv, Running
<1>6. ConnInv'
  BY <1>1, <1>5 DEF Inv, ConnInv, Running
<1>7. PooledIsClean'
  BY <1>1, <1>4 DEF Inv, PooledIsClean
<1>8. ReadyInv'
  BY <1>1, <1>4, <1>5, UserKept DEF Inv, ReadyInv, Ready, Clean
<1> QED BY <1>2, <1>3, <1>6, <1>7, <1>8, Assemble

(* The queries that a call awaits and that succeed.                        *)
LEMMA QueryStep ==
  ASSUME Inv, NEW c \in Calls, Begin(c) \/ Identify(c) \/ RunStatement(c)
  PROVE  Inv'
<1>0. pc[c] \in {"begin", "identity", "block"}
  BY DEF Begin, Identify, RunStatement, Awaits
<1>2. PICK x \in Conns : x = conn[c] /\ Ready(x, c, pc[c])
  BY <1>0, HeldConn DEF Running
<1>1. /\ inflight[x] = None /\ conn'[c] = x
      /\ UNCHANGED <<request, conn, reply, pool, inflight, crashes>>
  BY <1>2 DEF Begin, Identify, RunStatement, Awaits
<1>3. CASE Begin(c)
  <2>0. PICK point \in {"block", "identity"} :
          point = IF User(c) = None THEN "block" ELSE "identity"
    OBVIOUS
  <2>1. BeginTx(x) /\ pc[c] = "begin" /\ UNCHANGED <<step, seen>>
        /\ pc' = [pc EXCEPT ![c] = point]
    BY <1>2, <1>3, <2>0 DEF Begin, Awaits, Goto
  <2>2. DatabaseInv' /\ Frame(x)
    BY <1>1, <1>2, <2>1, Parts, SmallSafe
  <2>3. identity[x] = None /\ identity' = identity
    BY <1>2, <2>1 DEF Ready, Clean, BeginTx
  <2>4. Ready(x, c, point)'
    BY <1>1, <2>0, <2>3, UserKept DEF Ready
  <2>5. ConnInv' /\ PooledIsClean' /\ ReadyInv'
    BY <1>1, <1>2, <2>1, <2>2, <2>4, GoesOn
  <2>6. ControlType' /\ SeesOwnRows'
    BY <1>1, <2>1, Parts, SeenKept DEF ControlType, Points
  <2> QED BY <2>2, <2>5, <2>6, Assemble
<1>4. CASE Identify(c)
  <2>1. IdentifyTx(x, c) /\ UNCHANGED <<step, seen>> /\ pc' = [pc EXCEPT ![c] = "block"]
    BY <1>2, <1>4 DEF Identify, Goto
  <2>2. DatabaseInv' /\ Frame(x)
    BY <1>1, <1>2, <2>1, Parts, SmallSafe
  <2>3. identity'[x] = User(c)
    BY <1>2, <2>1 DEF IdentifyTx, Inv, TypeOK
  <2>4. Ready(x, c, "block")'
    BY <1>1, <2>3, UserKept DEF Ready
  <2>5. ConnInv' /\ PooledIsClean' /\ ReadyInv'
    BY <1>1, <1>2, <2>1, <2>2, <2>4, GoesOn
  <2>6. ControlType' /\ SeesOwnRows'
    BY <1>1, <2>1, Parts, SeenKept DEF ControlType, Points
  <2> QED BY <2>2, <2>5, <2>6, Assemble
<1>5. CASE RunStatement(c)
  <2>1. /\ StatementTx(x, c) /\ pc[c] = "block"
        /\ seen' = [seen EXCEPT ![c] = Result(x, c)]
        /\ \E point \in {"block", "commit"} : pc' = [pc EXCEPT ![c] = point]
        /\ step' = step \/ step' = [step EXCEPT ![c] = 2]
    <3>1. /\ StatementTx(x, c) /\ pc[c] = "block"
          /\ seen' = [seen EXCEPT ![c] = Result(x, c)]
          /\ \/ pc' = pc /\ step' = [step EXCEPT ![c] = 2]
             \/ pc' = [pc EXCEPT ![c] = "commit"] /\ step' = step
      BY <1>2, <1>5 DEF RunStatement, Awaits, Goto
    <3>2. pc' = pc => pc' = [pc EXCEPT ![c] = "block"]
      BY <3>1 DEF Inv, TypeOK
    <3> QED BY <3>1, <3>2
  <2>2. identity[x] = User(c)
    BY <1>1, <1>2, <2>1 DEF Ready
  <2>3. DatabaseInv' /\ Frame(x) /\ identity' = identity
    BY <1>1, <1>2, <2>1, <2>2, Parts, StatementSafe
  <2>4. PICK point \in {"block", "commit"} : pc' = [pc EXCEPT ![c] = point]
    BY <2>1
  <2>5. Ready(x, c, point)'
    BY <1>1, <2>2, <2>3, UserKept DEF Ready
  <2>6. ConnInv' /\ PooledIsClean' /\ ReadyInv'
    BY <1>1, <1>2, <2>3, <2>4, <2>5, GoesOn
  <2>7. Result(x, c) \in SUBSET (RowKeys \X {User(c)})
    BY <2>2, Parts, UserType DEF Result, Mine, RowKeys
  <2>8. ControlType'
    <3>1. User(c) \in Users \cup {None}
      BY Parts, UserType
    <3>2. seen' \in [Calls -> SUBSET (RowKeys \X (Users \cup {None}))]
      BY <2>1, <2>7, <3>1, Parts DEF ControlType
    <3> QED BY <1>1, <2>1, <2>4, <3>2, Parts DEF ControlType, Points
  <2>9. SeesOwnRows'
    <3>1. seen'[c] = Result(x, c) /\ \A d \in Calls \ {c} : seen'[d] = seen[d]
      BY <2>1 DEF Inv, TypeOK
    <3> QED BY <1>1, <2>7, <3>1, UserKept DEF Inv, SeesOwnRows
  <2> QED BY <2>3, <2>6, <2>8, <2>9, Assemble
<1> QED BY <1>3, <1>4, <1>5

(* The queries that end a call: an answered COMMIT or ROLLBACK.            *)
LEMMA EndStep ==
  ASSUME Inv, NEW c \in Calls, Commit(c) \/ Rollback(c)
  PROVE  Inv'
<1>0. pc[c] \in {"commit", "rollback"}
  BY DEF Commit, Rollback, Awaits
<1>3. PICK x \in Conns : x = conn[c]
  BY <1>0, HeldConn DEF Running
<1>1. /\ inflight[x] = None
      /\ RollbackTx(x) \/ CommitTx(x, c)
      /\ UNCHANGED <<request, inflight, crashes>>
  BY <1>3 DEF Commit, Rollback, Awaits
<1>2. PICK answer \in {"ok", "notFound", "refused", "error", "lost", "none"} :
        EndWith(c, answer, "idle")
  BY DEF Commit, Rollback, Inv, TypeOK
<1>4. DatabaseInv' /\ Frame(x) /\ Ended(x)
  BY <1>1, <1>3, Parts, EndTxSafe
<1>5. Clean(x)'
  BY <1>1, <1>4 DEF Clean, Ended
<1>6. /\ ConnInv' /\ PooledIsClean' /\ ReadyInv' /\ SeesOwnRows'
      /\ pc' \in [Calls -> Points] /\ conn' \in [Calls -> Conns \cup {None}]
      /\ step' = step /\ reply' \in [Calls -> {"none", "ok", "notFound", "refused", "error", "lost"}]
      /\ seen' \in [Calls -> SUBSET (RowKeys \X (Users \cup {None}))]
      /\ pool' \in [Conns -> {"free", "idle", "held", "closing"}]
  BY <1>1, <1>2, <1>3, <1>4, <1>5, Ends
<1>7. ControlType'
  BY <1>1, <1>6, Parts DEF ControlType
<1> QED BY <1>4, <1>6, <1>7, Assemble

(* The failures of a query a call awaits.                                  *)
LEMMA FailureStep ==
  ASSUME Inv, NEW c \in Calls, QueryRefused(c) \/ QueryTimesOut(c)
  PROVE  Inv'
<1>1. pc[c] \in {"begin", "identity", "block", "commit"}
  BY DEF QueryRefused, QueryTimesOut, InTry
<1>2. PICK x \in Conns : x = conn[c] /\ Ready(x, c, pc[c])
  BY <1>1, HeldConn DEF Running
<1>3. inflight[x] = None
  BY <1>1, <1>2 DEF Ready, Clean
<1>4. QueryOf(c) \in [op : Ops, call : Calls] /\ QueryOf(c).call = c
      /\ (QueryOf(c).op = "STATEMENT" => identity[x] = User(c))
  BY <1>1, <1>2 DEF QueryOf, OpAt, Ops, Ready
<1>5. PICK answer \in {"error", "refused"} :
        /\ pc' = [pc EXCEPT ![c] = "rollback"] /\ reply' = [reply EXCEPT ![c] = answer]
        /\ UNCHANGED <<request, conn, step, seen, pool, crashes>>
  BY DEF QueryRefused, QueryTimesOut, AfterFailure, Goto
<1>6. /\ DatabaseInv' /\ Frame(x) /\ Ready(x, c, "rollback")'
      /\ inflight' \in [Conns -> [op : Ops, call : Calls] \cup {None}]
      /\ \A y \in Conns \ {x} : inflight'[y] = inflight[y]
  <2>1. CASE QueryRefused(c)
    <3>1. Refuse(x, QueryOf(c)) /\ inflight' = inflight
      BY <1>2, <2>1 DEF QueryRefused
    <3>2. DatabaseInv' /\ Frame(x)
      BY <1>4, <1>5, <3>1, Parts, RefuseSafe
    <3> QED BY <1>3, <3>1, <3>2, Parts DEF Ready, ControlType
  <2>2. CASE QueryTimesOut(c)
    <3>1. inflight' = [inflight EXCEPT ![x] = QueryOf(c)] /\ UNCHANGED dbVars
      BY <1>2, <1>3, <2>2 DEF QueryTimesOut
    <3>2. DatabaseInv' /\ Frame(x) /\ identity' = identity
      BY <1>5, <3>1, Parts, UnchangedSafe DEF Frame, dbVars, sessionVars
    <3>3. inflight'[x] = QueryOf(c) /\ \A y \in Conns \ {x} : inflight'[y] = inflight[y]
      BY <3>1 DEF Inv, TypeOK
    <3>4. inflight' \in [Conns -> [op : Ops, call : Calls] \cup {None}]
      BY <1>4, <3>1, Parts DEF ControlType
    <3>5. Ready(x, c, "rollback")'
      <4>1. User(c)' = User(c)
        BY <1>5, UserKept
      <4> QED BY <1>4, <3>2, <3>3, <4>1 DEF Ready
    <3> QED BY <3>2, <3>3, <3>4, <3>5
  <2> QED BY <2>1, <2>2
<1>7. ConnInv' /\ PooledIsClean' /\ ReadyInv'
  BY <1>2, <1>5, <1>6, GoesOn
<1>8. ControlType' /\ SeesOwnRows'
  BY <1>5, <1>6, Parts, SeenKept DEF ControlType, Points
<1> QED BY <1>6, <1>7, <1>8, Assemble

(* The connection is destroyed under the call.                             *)
LEMMA BreakStep ==
  ASSUME Inv, NEW c \in Calls, RollbackFails(c) \/ Disconnect(c)
  PROVE  Inv'
<1>1. Running(c)
  BY HeldConn DEF RollbackFails, Disconnect, Running
<1>2. PICK x \in Conns : x = conn[c] /\ Ready(x, c, pc[c])
  BY <1>1, HeldConn
<1>3. EndWith(c, "error", "closing") /\ UNCHANGED <<request, dbVars, crashes>>
  BY DEF RollbackFails, Disconnect
<1>4. /\ inflight' \in [Conns -> [op : Ops, call : Calls] \cup {None}]
      /\ \A y \in Conns \ {x} : inflight'[y] = inflight[y]
  <2>1. \/ inflight' = inflight
        \/ pc[c] = "commit" /\ inflight' = [inflight EXCEPT ![x] = QueryOf(c)]
    BY <1>2 DEF RollbackFails, Disconnect
  <2>2. pc[c] = "commit" => QueryOf(c) \in [op : Ops, call : Calls]
    BY DEF QueryOf, OpAt, Ops
  <2> QED BY <2>1, <2>2, Parts DEF ControlType
<1>5. DatabaseInv' /\ Frame(x)
  BY <1>3, Parts, UnchangedSafe DEF Frame, dbVars, sessionVars
<1>6. /\ ConnInv' /\ PooledIsClean' /\ ReadyInv' /\ SeesOwnRows'
      /\ pc' \in [Calls -> Points] /\ conn' \in [Calls -> Conns \cup {None}]
      /\ step' = step /\ reply' \in [Calls -> {"none", "ok", "notFound", "refused", "error", "lost"}]
      /\ seen' \in [Calls -> SUBSET (RowKeys \X (Users \cup {None}))]
      /\ pool' \in [Conns -> {"free", "idle", "held", "closing"}]
  BY <1>2, <1>3, <1>4, <1>5, Ends
<1>7. ControlType'
  BY <1>3, <1>4, <1>6, Parts DEF ControlType
<1> QED BY <1>5, <1>6, <1>7, Assemble

LEMMA CallsStep ==
  ASSUME Inv, NEW c \in Calls,
         Connect(c) \/ ConnectFails(c) \/ CallStep(c) \/ Disconnect(c)
  PROVE  Inv'
BY ConnectStep, ConnectFailsStep, QueryStep, EndStep, FailureStep, BreakStep DEF CallStep

(* The server answers nobody: the call that gave up on the query stands    *)
(* before its ROLLBACK.                                                    *)
LEMMA FinishStep ==
  ASSUME Inv, NEW x \in Conns, FinishAbandoned(x)
  PROVE  Inv'
<1>1. /\ inflight[x] # None /\ pool[x] # "closing"
      /\ Serve(x, inflight[x]) \/ Refuse(x, inflight[x])
      /\ inflight' = [inflight EXCEPT ![x] = None]
      /\ UNCHANGED <<request, pc, conn, step, seen, reply, pool, crashes>>
  BY DEF FinishAbandoned, callVars
<1>2. inflight[x] \in [op : Ops, call : Calls] /\ pool[x] = "held"
  BY <1>1 DEF Inv, TypeOK, PooledIsClean
<1>3. PICK c \in Calls : conn[c] = x
  BY <1>2 DEF Inv, ConnInv
<1>4. Ready(x, c, pc[c]) /\ pc[c] \in {"begin", "identity", "block", "commit", "rollback"}
  BY <1>3, HeldConn, NoneIsNothing DEF Running, Inv, TypeOK, Points
<1>5. pc[c] = "rollback" /\ (inflight[x].op = "STATEMENT" => identity[x] = User(inflight[x].call))
  BY <1>1, <1>4 DEF Ready, Clean
<1>6. DatabaseInv' /\ Frame(x)
  BY <1>1, <1>2, <1>5, Parts, ServeSafe, RefuseSafe
<1>7. /\ inflight' \in [Conns -> [op : Ops, call : Calls] \cup {None}]
      /\ inflight'[x] = None /\ \A y \in Conns \ {x} : inflight'[y] = inflight[y]
  BY <1>1 DEF Inv, TypeOK
<1>8. pc' = [pc EXCEPT ![c] = "rollback"] /\ Ready(x, c, "rollback")'
  BY <1>1, <1>5, <1>7 DEF Ready, Inv, TypeOK
<1>9. ConnInv' /\ PooledIsClean' /\ ReadyInv'
  BY <1>1, <1>3, <1>6, <1>7, <1>8, GoesOn
<1>10. ControlType' /\ SeesOwnRows'
  BY <1>1, <1>7, Parts, SeenKept DEF ControlType
<1> QED BY <1>6, <1>9, <1>10, Assemble

(* A connection nobody holds is closed, or its session is cleaned up.      *)
LEMMA CloseStep ==
  ASSUME Inv, NEW x \in Conns, EvictIdle(x) \/ SessionEnds(x)
  PROVE  Inv'
<1>1. /\ pool[x] \in {"idle", "closing"}
      /\ UNCHANGED <<request, pc, conn, step, seen, reply, crashes>>
  BY DEF EvictIdle, SessionEnds, callVars
<1>2. \A c \in Calls : conn[c] # None => conn[c] \in Conns \ {x}
  BY <1>1 DEF Inv, TypeOK, ConnInv
<1>3. PICK state \in {"closing", "free"} :
        /\ pool' = [pool EXCEPT ![x] = state]
        /\ DatabaseInv' /\ Frame(x)
        /\ inflight' = inflight \/ inflight' = [inflight EXCEPT ![x] = None]
        /\ state = "free" => Ended(x) /\ inflight'[x] = None
  <2>1. CASE EvictIdle(x)
    BY <2>1, Parts, UnchangedSafe DEF EvictIdle, Frame, dbVars, sessionVars
  <2>2. CASE SessionEnds(x)
    <3>1. /\ pool' = [pool EXCEPT ![x] = "free"] /\ inflight' = [inflight EXCEPT ![x] = None]
          /\ \/ RollbackTx(x)
             \/ inflight[x] # None /\ CommitTx(x, inflight[x].call)
      BY <2>2 DEF SessionEnds
    <3>2. RollbackTx(x) \/ \E c \in Calls : CommitTx(x, c)
      BY <3>1 DEF Inv, TypeOK
    <3>3. DatabaseInv' /\ Frame(x) /\ Ended(x)
      BY <1>1, <3>2, Parts, EndTxSafe
    <3> QED BY <3>1, <3>3 DEF Inv, TypeOK
  <2> QED BY <2>1, <2>2
<1>4. /\ inflight' \in [Conns -> [op : Ops, call : Calls] \cup {None}]
      /\ \A y \in Conns \ {x} : inflight'[y] = inflight[y]
      /\ pool'[x] = state /\ \A y \in Conns \ {x} : pool'[y] = pool[y]
  BY <1>3 DEF Inv, TypeOK
<1>5. ControlType' /\ SeesOwnRows'
  BY <1>1, <1>3, <1>4, Parts, SeenKept DEF ControlType
<1>6. ConnInv'
  BY <1>1, <1>2, <1>4 DEF Inv, ConnInv, Running
<1>7. PooledIsClean'
  BY <1>3, <1>4 DEF Inv, PooledIsClean, Frame, Ended
<1>8. ReadyInv'
  <2>1. ASSUME NEW c \in Calls, conn[c] # None
        PROVE  Ready(conn[c], c, pc[c])'
    BY <1>1, <1>2, <1>3, <1>4, <2>1, UserKept DEF Inv, ReadyInv, Ready, Clean, Frame
  <2> QED BY <1>1, <2>1 DEF ReadyInv
<1> QED BY <1>3, <1>5, <1>6, <1>7, <1>8, Assemble

LEMMA CrashStep ==
  ASSUME Inv, Crash
  PROVE  Inv'
<1> USE DEF Crash
<1>1. /\ \A c \in Calls : conn'[c] = None /\ pc'[c] = IF Running(c) THEN "done" ELSE pc[c]
      /\ \A x \in Conns : pool'[x] = IF pool[x] = "free" THEN "free" ELSE "closing"
      /\ UNCHANGED <<request, step, seen, dbVars>>
  OBVIOUS
<1>2. ASSUME NEW x \in Conns
      PROVE  /\ inflight'[x] \in [op : Ops, call : Calls] \cup {None}
             /\ pool[x] = "free" => inflight'[x] = inflight[x]
  <2>1. CASE \E c \in Calls : conn[c] = x /\ pc[c] = "commit" /\ inflight[x] = None
    <3> DEFINE c == CHOOSE c \in Calls : conn[c] = x
    <3>1. PICK d \in Calls : conn[d] = x /\ pc[d] = "commit"
      BY <2>1
    <3>2. c \in Calls /\ conn[c] = x
      BY <3>1
    <3>3. c = d
      BY <3>1, <3>2, NoneIsNothing DEF Inv, ConnInv
    <3>4. QueryOf(c) \in [op : Ops, call : Calls]
      BY <3>1, <3>3 DEF QueryOf, OpAt, Ops
    <3>5. inflight'[x] = QueryOf(c)
      BY <2>1
    <3>6. pool[x] = "held"
      BY <3>1, NoneIsNothing DEF Inv, ConnInv
    <3> QED BY <3>4, <3>5, <3>6
  <2>2. CASE ~ \E c \in Calls : conn[c] = x /\ pc[c] = "commit" /\ inflight[x] = None
    BY <2>2 DEF Inv, TypeOK
  <2> QED BY <2>1, <2>2
<1>3. DatabaseInv' /\ SeesOwnRows'
  BY <1>1, Parts, UnchangedSafe, SeenKept
<1>4. inflight' \in [Conns -> [op : Ops, call : Calls] \cup {None}]
  BY <1>2
<1>5. crashes' \in 0..MaxCrashes
  BY MaxCrashesIsNat DEF Inv, TypeOK
<1>6. ControlType'
  BY <1>1, <1>4, <1>5, Parts DEF ControlType, Points
<1>7. ConnInv' /\ ReadyInv'
  BY <1>1 DEF ConnInv, ReadyInv, Running
<1>8. PooledIsClean'
  BY <1>1, <1>2 DEF Inv, PooledIsClean, dbVars, sessionVars
<1> QED BY <1>3, <1>6, <1>7, <1>8, Assemble

-------------------------------------------------------------------------------
(* The invariant holds of every behaviour.                                 *)

LEMMA InvInit ==
  ASSUME Init
  PROVE  Inv
<1> USE DEF Init
<1>1. PICK owners \in [Ids -> Users \cup {None}] :
        rows = [key \in RowKeys |->
                  IF key[1] # "data" \/ owners[key[2]] = None THEN None
                  ELSE [owner |-> owners[key[2]], by |-> None]]
  OBVIOUS
<1>2. ASSUME NEW key \in RowKeys
      PROVE  rows[key] = None \/ (rows[key] \in Row /\ rows[key].by = None)
  <2>1. CASE key[1] # "data" \/ owners[key[2]] = None
    BY <1>1, <2>1
  <2>2. CASE key[1] = "data" /\ owners[key[2]] # None
    <3>1. owners[key[2]] \in Users \cup {None}
      BY DEF RowKeys
    <3>2. rows[key] = [owner |-> owners[key[2]], by |-> None]
      BY <1>1, <2>2
    <3> QED BY <3>1, <3>2 DEF Row
  <2> QED BY <2>1, <2>2
<1>3. rows \in [RowKeys -> Row \cup {None}]
  BY <1>1, <1>2
<1>4. TypeOK
  BY <1>3, MaxCrashesIsNat DEF TypeOK, NoWrites, Points
<1>5. ConnInv /\ PooledIsClean /\ ReadyInv /\ SeesOwnRows
  BY DEF ConnInv, PooledIsClean, ReadyInv, SeesOwnRows, Running
<1>6. RunsAsItself
  BY <1>2, NoRowIsNone DEF RunsAsItself, Authentic, NoWrites
<1> QED BY <1>4, <1>5, <1>6 DEF Inv

LEMMA InvStep ==
  ASSUME Inv, [Next]_vars
  PROVE  Inv'
<1>1. CASE UNCHANGED vars
  BY <1>1 DEF vars, callVars, dbVars, sessionVars, durableVars, Inv, TypeOK, ConnInv, Running,
              PooledIsClean, ReadyInv, Ready, Clean, RunsAsItself, Authentic, SeesOwnRows, User
<1> QED BY <1>1, CallsStep, FinishStep, CloseStep, CrashStep DEF Next, ServerStep

LEMMA Invariance == Spec => []Inv
<1>1. Init => Inv
  BY InvInit
<1>2. Inv /\ [Next]_vars => Inv'
  BY InvStep
<1> QED BY <1>1, <1>2, PTL DEF Spec

(* Every variable of the data lane keeps its type.                         *)
THEOREM DataLaneTypeCorrect == Spec => []TypeOK
<1>1. Inv => TypeOK
  BY DEF Inv
<1> QED BY <1>1, Invariance, PTL

(* A connection that goes back to the pool carries no transaction, no      *)
(* identity and no running query of its last borrower (withTransaction).   *)
THEOREM PooledConnectionsAreClean == Spec => []PooledIsClean
<1>1. Inv => PooledIsClean
  BY DEF Inv
<1> QED BY <1>1, Invariance, PTL

(* Every row is written in the name of the user whose request wrote it.    *)
THEOREM WritesAreInOwnName == Spec => []RunsAsItself
<1>1. Inv => RunsAsItself
  BY DEF Inv
<1> QED BY <1>1, Invariance, PTL

(* A caller is shown only rows of its own.                                 *)
THEOREM ReadsAreOwnRows == Spec => []SeesOwnRows
<1>1. Inv => SeesOwnRows
  BY DEF Inv
<1> QED BY <1>1, Invariance, PTL

-------------------------------------------------------------------------------
(***************************************************************************)
(* The data lane implements AtomicRequests.  The invariant behind it: what *)
(* a session has written of a request is what the request may write, on    *)
(* rows that no other session has written since, so that a COMMIT makes    *)
(* the change whole and as the request was allowed to; and a COMMIT that   *)
(* nobody waits for any more belongs to a call whose answer leaves open    *)
(* whether its change was made.                                            *)
(***************************************************************************)

(* The rows a call writes, what it writes, and over which rows it may.     *)
Targets(c) ==
  IF Kind(c) = "register" THEN {"users", "sessions"} \X {request[c].id}
  ELSE {"data"} \X {request[c].id}

Written(c) ==
  IF Kind(c) = "delete" THEN None ELSE [owner |-> User(c), by |-> c]

Permits(c, row) ==
  \/ Kind(c) \in {"create", "register"} /\ row = None
  \/ Kind(c) \in {"update", "delete"} /\ row # None /\ row.owner = User(c)

Blank(x) == \A key \in RowKeys : txRows[x][key] = Unwritten

(* What session x has written is part of the change of call c.             *)
Own(x, c) ==
  \A key \in RowKeys : txRows[x][key] # Unwritten =>
    key \in Targets(c) /\ txRows[x][key] = Written(c) /\ Permits(c, rows[key])

(* Session x has written the change of call c, or there is none to make.   *)
Whole(x, c) ==
  /\ Own(x, c)
  /\ Blank(x) \/ \A key \in Targets(c) : txRows[x][key] # Unwritten

(* A call that found nothing to change, or does not want to.               *)
ChangesNothing(c) ==
  Kind(c) \in {"get", "list"} \/ (Kind(c) \in {"update", "delete"} /\ seen[c] = {})

(* What call c, at a point of withTransaction, has done in its session x.  *)
Footing(x, c, point) ==
  /\ point \in {"identity", "block", "commit"} => txState[x] = "open"
  /\ point \in {"begin", "identity"} => Blank(x)
  /\ point = "block" /\ step[c] = 1 => Blank(x)
  /\ point = "block" /\ step[c] = 2 =>
       /\ Kind(c) = "register" /\ Own(x, c)
       /\ txRows[x][<<"users", request[c].id>>] # Unwritten
       /\ txRows[x][<<"sessions", request[c].id>>] = Unwritten
  /\ point = "commit" => Whole(x, c) /\ (Blank(x) <=> ChangesNothing(c))

Early == {"idle", "begin", "identity"}

CallOK(c) ==
  /\ pc[c] \in Early => step[c] = 1
  /\ pc[c] \in Early \cup {"block", "commit"} => c \notin applied
  /\ Running(c) => Footing(conn[c], c, pc[c])
  /\ pc[c] = "rollback" => reply[c] \in {"error", "refused"}
  /\ pc[c] = "rollback" /\ reply[c] = "refused" => c \notin applied /\ inflight[conn[c]] = None

(* A call whose COMMIT nobody waits for any more has no answer yet, or one *)
(* that settles nothing.                                                   *)
Unsettled(x, c) ==
  \/ pc[c] = "rollback" /\ conn[c] = x /\ reply[c] = "error"
  \/ pc[c] = "done" /\ reply[c] \in {"error", "lost"}

Pending(x, c) ==
  /\ txState[x] = "open" /\ Whole(x, c) /\ Unsettled(x, c)
  /\ Blank(x) \/ c \notin applied

ConnOK(x) ==
  inflight[x] # None /\ inflight[x].op = "COMMIT" => Pending(x, inflight[x].call)

(* A row that one session has written waits for it in all the others.      *)
RowLocks ==
  \A x, y \in Conns : x # y =>
    \A key \in RowKeys : txRows[x][key] = Unwritten \/ txRows[y][key] = Unwritten

PromiseInv ==
  /\ RowLocks
  /\ \A x \in Conns : ConnOK(x)
  /\ \A c \in Calls : CallOK(c)

-------------------------------------------------------------------------------
(* What the session operations do to the rows a session has written.       *)

LEMMA ChangeType ==
  ASSUME ControlType, NEW c \in Calls
  PROVE  /\ Targets(c) \in SUBSET RowKeys /\ Targets(c) # {} /\ Target(c) \in Targets(c)
         /\ Written(c) # Unwritten
<1>1. request[c].id \in Ids /\ User(c) \in Users \cup {None}
  BY UserType, RequestsTyped DEF ControlType
<1>2. [owner |-> User(c), by |-> c] \in Row
  BY <1>1 DEF Row
<1>3. Written(c) # Unwritten
  BY <1>2, NoRowIsNone DEF Written
<1>4. Targets(c) \in SUBSET RowKeys /\ Target(c) \in Targets(c)
  BY <1>1 DEF Targets, Target, RowKeys, Kind
<1> QED BY <1>3, <1>4

LEMMA BlankIsNoWrites ==
  ASSUME DatabaseType, NEW x \in Conns
  PROVE  Blank(x) <=> txRows[x] = NoWrites
<1>1. txRows[x] \in [RowKeys -> Row \cup {None, Unwritten}]
  BY DEF DatabaseType
<1>2. Blank(x) => txRows[x] = NoWrites
  BY <1>1 DEF Blank, NoWrites
<1> QED BY <1>2 DEF Blank, NoWrites

(* A session takes a row only when no other has it.                        *)
NewLocks(x) ==
  \A key \in RowKeys : txRows'[x][key] # Unwritten =>
    txRows[x][key] # Unwritten \/ \A y \in Conns \ {x} : txRows[y][key] = Unwritten

LEMMA StatementLocks ==
  ASSUME DatabaseType, ControlType, NEW x \in Conns, NEW c \in Calls, StatementTx(x, c)
  PROVE  Frame(x) /\ NewLocks(x) /\ UNCHANGED durableVars /\ txState' = txState
<1>1. /\ txState' = txState /\ identity' = identity /\ UNCHANGED durableVars
      /\ \/ txRows' = txRows
         \/ \E row : Write(x, Target(c), row)
  BY DEF StatementTx
<1>2. CASE txRows' = txRows
  BY <1>1, <1>2 DEF Frame, NewLocks
<1>3. ASSUME NEW row, Write(x, Target(c), row)
      PROVE  Frame(x) /\ NewLocks(x)
  <2>1. PICK target \in RowKeys : target = Target(c)
    BY UserType
  <2>2. /\ \A y \in Conns \ {x} : txRows[y][target] = Unwritten
        /\ txRows' = [txRows EXCEPT ![x][target] = row]
    BY <1>3, <2>1 DEF Write
  <2>3. /\ \A y \in Conns \ {x} : txRows'[y] = txRows[y]
        /\ \A key \in RowKeys \ {target} : txRows'[x][key] = txRows[x][key]
    BY <2>2 DEF DatabaseType
  <2> QED BY <1>1, <2>2, <2>3 DEF Frame, NewLocks
<1> QED BY <1>1, <1>2, <1>3

LEMMA OtherOpsLock ==
  ASSUME DatabaseType, NEW x \in Conns,
         \/ BeginTx(x) \/ AbortTx(x) \/ RollbackTx(x) \/ UNCHANGED dbVars
         \/ \E c \in Calls : IdentifyTx(x, c) \/ CommitTx(x, c)
  PROVE  Frame(x) /\ NewLocks(x)
<1>1. CASE RollbackTx(x) \/ \E c \in Calls : CommitTx(x, c)
  <2>1. /\ txState' = [txState EXCEPT ![x] = "none"]
        /\ identity' = [identity EXCEPT ![x] = None]
        /\ txRows' = [txRows EXCEPT ![x] = NoWrites]
    BY <1>1 DEF RollbackTx, CommitTx, EndTx
  <2>2. txRows'[x] = NoWrites
    BY <2>1 DEF DatabaseType
  <2>3. NewLocks(x)
    BY <2>2 DEF NewLocks, NoWrites
  <2> QED BY <2>1, <2>3 DEF Frame, DatabaseType
<1>2. CASE ~(RollbackTx(x) \/ \E c \in Calls : CommitTx(x, c))
  BY <1>2 DEF BeginTx, AbortTx, IdentifyTx, dbVars, sessionVars, Frame, NewLocks, DatabaseType
<1> QED BY <1>1, <1>2

LEMMA QueriesLock ==
  ASSUME DatabaseType, ControlType, NEW x \in Conns, NEW query \in [op : Ops, call : Calls],
         Serve(x, query) \/ Refuse(x, query)
  PROVE  Frame(x) /\ NewLocks(x)
<1>1. PICK c \in Calls : c = query.call
  OBVIOUS
<1>2. CASE StatementTx(x, c)
  BY <1>2, StatementLocks
<1>3. CASE ~StatementTx(x, c)
  <2>1. \/ BeginTx(x) \/ AbortTx(x) \/ RollbackTx(x)
        \/ IdentifyTx(x, c) \/ CommitTx(x, c)
    BY <1>1, <1>3 DEF Serve, Refuse
  <2> QED BY <2>1, OtherOpsLock
<1> QED BY <1>2, <1>3

LEMMA LocksKept ==
  ASSUME RowLocks, NEW x \in Conns, Frame(x), NewLocks(x)
  PROVE  RowLocks'
<1> SUFFICES ASSUME NEW y \in Conns, NEW z \in Conns, y # z, NEW key \in RowKeys
             PROVE  txRows'[y][key] = Unwritten \/ txRows'[z][key] = Unwritten
  BY DEF RowLocks
<1>1. CASE y = x
  BY <1>1 DEF RowLocks, Frame, NewLocks
<1>2. CASE z = x
  BY <1>2 DEF RowLocks, Frame, NewLocks
<1>3. CASE y # x /\ z # x
  BY <1>3 DEF RowLocks, Frame
<1> QED BY <1>1, <1>2, <1>3

-------------------------------------------------------------------------------
(* The commit of a whole change, and what it means for the other sessions. *)

LEMMA CommitOfChange ==
  ASSUME DatabaseType, ControlType, NEW x \in Conns, NEW c \in Calls, CommitTx(x, c),
         txState[x] = "open", Whole(x, c)
  PROVE  \/ Blank(x) /\ rows' = rows /\ applied' = applied
         \/ /\ ~Blank(x) /\ applied' = applied \cup {c}
            /\ \A key \in Targets(c) : txRows[x][key] = Written(c) /\ Permits(c, rows[key])
            /\ rows' = [key \in RowKeys |-> IF key \in Targets(c) THEN Written(c) ELSE rows[key]]
<1>1. /\ rows' = [key \in RowKeys |-> Visible(x, key)]
      /\ applied' = IF txRows[x] = NoWrites THEN applied ELSE applied \cup {c}
  BY DEF CommitTx
<1>2. CASE Blank(x)
  <2>1. \A key \in RowKeys : Visible(x, key) = rows[key]
    BY <1>2 DEF Blank, Visible
  <2>2. rows' = rows
    BY <1>1, <2>1 DEF DatabaseType
  <2> QED BY <1>1, <1>2, <2>2, BlankIsNoWrites
<1>3. CASE ~Blank(x)
  <2>1. \A key \in Targets(c) : txRows[x][key] = Written(c) /\ Permits(c, rows[key])
    BY <1>3, ChangeType DEF Whole, Own
  <2>2. \A key \in RowKeys : Visible(x, key) = IF key \in Targets(c) THEN Written(c) ELSE rows[key]
    BY <2>1, ChangeType DEF Visible, Whole, Own
  <2>3. rows' = [key \in RowKeys |-> IF key \in Targets(c) THEN Written(c) ELSE rows[key]]
    BY <1>1, <2>2
  <2> QED BY <1>1, <1>3, <2>1, <2>3, BlankIsNoWrites
<1> QED BY <1>2, <1>3

(* A step of session x: only rows that x has written change, and only a    *)
(* change that no other session holds takes effect.                        *)
Durably(x, c) ==
  /\ \A y \in Conns \ {x} : \A key \in RowKeys :
       txRows[y][key] # Unwritten => rows'[key] = rows[key]
  /\ applied' \in {applied, applied \cup {c}}
  /\ applied' # applied => \A y \in Conns \ {x} : Whole(y, c) => Blank(y)

LEMMA CommitDurably ==
  ASSUME DatabaseType, ControlType, RowLocks, NEW x \in Conns, NEW c \in Calls, CommitTx(x, c),
         txState[x] = "open", Whole(x, c)
  PROVE  Durably(x, c)
<1>1. CASE rows' = rows /\ applied' = applied
  BY <1>1 DEF Durably
<1>2. CASE /\ applied' = applied \cup {c}
           /\ \A key \in Targets(c) : txRows[x][key] = Written(c)
           /\ rows' = [key \in RowKeys |-> IF key \in Targets(c) THEN Written(c) ELSE rows[key]]
  <2>1. \A y \in Conns \ {x} : \A key \in Targets(c) : txRows[y][key] = Unwritten
    BY <1>2, ChangeType DEF RowLocks
  <2>2. \A y \in Conns \ {x} : \A key \in RowKeys :
          txRows[y][key] # Unwritten => rows'[key] = rows[key]
    BY <1>2, <2>1
  <2>3. \A y \in Conns \ {x} : Whole(y, c) => Blank(y)
    BY <2>1, ChangeType DEF Whole
  <2> QED BY <1>2, <2>2, <2>3 DEF Durably
<1> QED BY <1>1, <1>2, CommitOfChange

(* What session y holds is the same after a step that leaves it alone.     *)
LEMMA SessionKept ==
  ASSUME NEW y \in Conns, txState'[y] = txState[y], txRows'[y] = txRows[y], request' = request,
         \A key \in RowKeys : txRows[y][key] # Unwritten => rows'[key] = rows[key]
  PROVE  /\ Blank(y)' <=> Blank(y)
         /\ \A d \in Calls : Whole(y, d) => Whole(y, d)'
         /\ \A d \in Calls : \A point :
              step'[d] = step[d] /\ seen'[d] = seen[d] /\ Footing(y, d, point)
                => Footing(y, d, point)'
<1>1. Blank(y)' <=> Blank(y)
  BY DEF Blank
<1>2. \A d \in Calls : Own(y, d) => Own(y, d)'
  BY DEF Own, Targets, Written, Permits, Kind, User
<1>3. \A d \in Calls : Whole(y, d) => Whole(y, d)'
  BY <1>1, <1>2 DEF Whole, Targets, Kind
<1>4. ASSUME NEW d \in Calls, NEW point, step'[d] = step[d], seen'[d] = seen[d],
             Footing(y, d, point)
      PROVE  Footing(y, d, point)'
  <2>1. (Kind(d)' = Kind(d)) /\ (ChangesNothing(d)' <=> ChangesNothing(d))
    BY <1>4 DEF ChangesNothing, Kind
  <2> QED BY <1>1, <1>2, <1>3, <1>4, <2>1 DEF Footing, Kind
<1> QED BY <1>1, <1>3, <1>4

(* A step in session x, of the calls in moved, is not felt elsewhere.      *)
LEMMA Elsewhere ==
  ASSUME Inv, PromiseInv, NEW x, Frame(x), request' = request,
         \A y \in Conns \ {x} : inflight'[y] = inflight[y],
         NEW moved \in SUBSET Calls,
         \A c \in moved : pc[c] # "done" /\ (pc[c] = "rollback" => conn[c] = x),
         \A d \in Calls \ moved : /\ pc'[d] = pc[d] /\ conn'[d] = conn[d] /\ step'[d] = step[d]
                                  /\ seen'[d] = seen[d] /\ reply'[d] = reply[d],
         \/ rows' = rows /\ applied' = applied
         \/ \E c \in Calls : Durably(x, c) /\ (c \in moved \/ Unsettled(x, c))
  PROVE  /\ \A y \in Conns \ {x} : ConnOK(y)'
         /\ \A d \in Calls \ moved : (Running(d) => conn[d] # x) => CallOK(d)'
<1>1. \A y \in Conns \ {x} : \A key \in RowKeys :
        txRows[y][key] # Unwritten => rows'[key] = rows[key]
  BY DEF Durably
<1>2. \A d \in applied' \ applied : /\ d \in moved \/ Unsettled(x, d)
                                    /\ \A y \in Conns \ {x} : Whole(y, d) => Blank(y)
  BY DEF Durably
<1>3. ASSUME NEW y \in Conns \ {x}, inflight'[y] # None, inflight'[y].op = "COMMIT"
      PROVE  Pending(y, inflight[y].call)'
  <2>1. /\ txState'[y] = txState[y] /\ txRows'[y] = txRows[y] /\ inflight'[y] = inflight[y]
        /\ ConnOK(y)
    BY DEF Frame, PromiseInv
  <2>2. PICK e \in Calls : e = inflight[y].call
    BY <1>3, <2>1 DEF Inv, TypeOK
  <2>3. Pending(y, e)
    BY <1>3, <2>1, <2>2 DEF ConnOK
  <2>4. e \notin moved
    BY <2>3 DEF Pending, Unsettled
  <2>5. Unsettled(y, e)'
    BY <2>3, <2>4 DEF Pending, Unsettled
  <2>6. Whole(y, e)' /\ (Blank(y)' <=> Blank(y))
    BY <1>1, <2>1, <2>3, SessionKept DEF Pending
  <2>7. e \in applied' => e \in applied \/ Blank(y)
    BY <1>2, <2>3 DEF Pending
  <2>8. txState'[y] = "open" /\ (Blank(y)' \/ e \notin applied')
    BY <2>1, <2>3, <2>6, <2>7 DEF Pending
  <2>9. Pending(y, e)'
    BY <2>5, <2>6, <2>8 DEF Pending
  <2> QED BY <2>1, <2>2, <2>9
<1>4. ASSUME NEW d \in Calls \ moved, Running(d) => conn[d] # x
      PROVE  CallOK(d)'
  <2>1. /\ pc'[d] = pc[d] /\ conn'[d] = conn[d] /\ step'[d] = step[d]
        /\ seen'[d] = seen[d] /\ reply'[d] = reply[d] /\ CallOK(d)
    BY DEF PromiseInv
  <2>2. ASSUME Running(d)
        PROVE  /\ Footing(conn[d], d, pc[d])'
               /\ inflight'[conn'[d]] = inflight[conn[d]]
    <3>1. PICK y \in Conns \ {x} : y = conn[d]
      BY <1>4, <2>2, HeldConn
    <3>2. PICK point : point = pc[d]
      OBVIOUS
    <3>3. Footing(y, d, point)
      BY <2>1, <2>2, <3>1, <3>2 DEF CallOK
    <3>4. Footing(y, d, point)'
      BY <1>1, <2>1, <3>3, SessionKept DEF Frame
    <3> QED BY <2>1, <3>1, <3>2, <3>4
  <2>3. d \in applied' => d \in applied \/ pc[d] = "done" \/ (pc[d] = "rollback" /\ reply[d] = "error")
    BY <1>2 DEF Unsettled
  <2>4. pc[d] \in Early \cup {"block", "commit"} => d \notin applied'
    BY <2>1, <2>3 DEF CallOK, Early
  <2>5. pc[d] = "rollback" /\ reply[d] = "refused" => d \notin applied'
    BY <2>1, <2>3 DEF CallOK
  <2>6. pc[d] = "rollback" => Running(d)
    BY DEF Running
  <2> QED BY <2>1, <2>2, <2>4, <2>5, <2>6 DEF CallOK, Running, Early
<1> QED BY <1>3, <1>4 DEF ConnOK

LEMMA Together ==
  ASSUME RowLocks', NEW x, \A y \in Conns \ {x} : ConnOK(y)', x \in Conns => ConnOK(x)',
         NEW moved \in SUBSET Calls, \A d \in Calls \ moved : CallOK(d)',
         \A c \in moved : CallOK(c)'
  PROVE  PromiseInv'
BY DEF PromiseInv

-------------------------------------------------------------------------------
(* The steps of a call that holds a connection.                            *)

LEMMA AtPoint ==
  ASSUME Inv, PromiseInv, NEW c \in Calls, Running(c)
  PROVE  /\ conn[c] \in Conns /\ Ready(conn[c], c, pc[c]) /\ Footing(conn[c], c, pc[c])
         /\ InTry(c) => inflight[conn[c]] = None /\ c \notin applied
         /\ \A d \in Calls \ {c} : Running(d) => conn[d] # conn[c]
         /\ DatabaseType /\ ControlType
<1>1. conn[c] \in Conns /\ Ready(conn[c], c, pc[c])
  BY HeldConn
<1>2. CallOK(c) /\ DatabaseType /\ ControlType
  BY Parts DEF PromiseInv, DatabaseInv
<1>3. InTry(c) => inflight[conn[c]] = None
  BY <1>1 DEF Ready, Clean, InTry
<1>4. InTry(c) => c \notin applied
  BY <1>2 DEF CallOK, InTry, Early
<1>5. \A d \in Calls \ {c} : Running(d) => conn[d] # conn[c]
  BY NoneIsNothing, HeldConn DEF Inv, ConnInv
<1> QED BY <1>1, <1>2, <1>3, <1>4, <1>5 DEF CallOK

(* Call c takes a step that nobody but it notices.                         *)
LEMMA Alone ==
  ASSUME Inv, PromiseInv, NEW c \in Calls, Running(c), NEW x \in Conns, x = conn[c],
         Frame(x), NewLocks(x), request' = request,
         \A y \in Conns \ {x} : inflight'[y] = inflight[y],
         \A d \in Calls \ {c} : /\ pc'[d] = pc[d] /\ conn'[d] = conn[d] /\ step'[d] = step[d]
                                /\ seen'[d] = seen[d] /\ reply'[d] = reply[d],
         \/ rows' = rows /\ applied' = applied
         \/ Durably(x, c),
         ConnOK(x)', CallOK(c)'
  PROVE  PromiseInv'
<1>1. /\ {c} \in SUBSET Calls
      /\ \A e \in {c} : pc[e] # "done" /\ (pc[e] = "rollback" => conn[e] = x)
  BY DEF Running
<1>2. \/ rows' = rows /\ applied' = applied
      \/ \E e \in Calls : Durably(x, e) /\ (e \in {c} \/ Unsettled(x, e))
  OBVIOUS
<1>3. /\ \A y \in Conns \ {x} : ConnOK(y)'
      /\ \A d \in Calls \ {c} : (Running(d) => conn[d] # x) => CallOK(d)'
  BY <1>1, <1>2, Elsewhere
<1>4. \A d \in Calls \ {c} : CallOK(d)'
  BY <1>3, AtPoint
<1>5. RowLocks'
  BY LocksKept DEF PromiseInv
<1> QED BY <1>3, <1>4, <1>5 DEF PromiseInv

LEMMA BeginKeeps ==
  ASSUME Inv, PromiseInv, NEW c \in Calls, Begin(c) \/ Identify(c)
  PROVE  PromiseInv'
<1>1. pc[c] \in {"begin", "identity"} /\ Running(c) /\ InTry(c)
  BY DEF Begin, Identify, Awaits, Running, InTry
<1>2. PICK x \in Conns : x = conn[c]
  BY <1>1, AtPoint
<1>3. /\ Footing(x, c, pc[c]) /\ inflight[x] = None /\ c \notin applied
      /\ DatabaseType /\ ControlType /\ CallOK(c)
  BY <1>1, <1>2, AtPoint DEF PromiseInv
<1>4. PICK point \in {"identity", "block"} : pc' = [pc EXCEPT ![c] = point]
  BY DEF Begin, Identify, Goto
<1>5. /\ BeginTx(x) \/ IdentifyTx(x, c)
      /\ UNCHANGED <<request, conn, step, seen, reply, pool, inflight>>
  BY <1>2 DEF Begin, Identify
<1>6. /\ Frame(x) /\ NewLocks(x) /\ UNCHANGED durableVars /\ txRows' = txRows
  BY <1>3, <1>5, OtherOpsLock DEF BeginTx, IdentifyTx
<1>7. /\ pc'[c] = point /\ \A d \in Calls \ {c} : pc'[d] = pc[d]
  BY <1>3, <1>4 DEF ControlType
<1>8. ConnOK(x)'
  BY <1>3, <1>5 DEF ConnOK
<1>9. txState'[x] = "open"
  BY <1>3, <1>5 DEF BeginTx, IdentifyTx, DatabaseType
<1>10. Blank(x) /\ Blank(x)' /\ step[c] = 1
  BY <1>1, <1>3, <1>6 DEF Footing, Blank, CallOK, Early
<1>11. Footing(x, c, point)'
  BY <1>5, <1>9, <1>10 DEF Footing
<1>12. CallOK(c)'
  BY <1>2, <1>3, <1>5, <1>6, <1>7, <1>10, <1>11 DEF CallOK, Running, durableVars
<1> QED BY <1>1, <1>2, <1>5, <1>6, <1>7, <1>8, <1>12, Alone DEF durableVars

(* A statement changes nothing, or writes the row of its call over one that*)
(* the call may change.                                                    *)
LEMMA StatementWrites ==
  ASSUME DatabaseType, ControlType, NEW x \in Conns, NEW c \in Calls, StatementTx(x, c),
         identity[x] = User(c), txRows[x][Target(c)] = Unwritten
  PROVE  \/ /\ txRows' = txRows
            /\ Kind(c) \in {"list", "get"} \/ (Kind(c) \in {"update", "delete"} /\ Result(x, c) = {})
         \/ /\ txRows' = [txRows EXCEPT ![x][Target(c)] = Written(c)]
            /\ Permits(c, rows[Target(c)])
            /\ \/ Kind(c) \in {"create", "register"}
               \/ Kind(c) \in {"update", "delete"} /\ Result(x, c) # {}
<1>1. PICK target \in RowKeys : target = Target(c)
  BY UserType
<1>2. Kind(c) \in Kinds /\ Visible(x, target) = rows[target]
  BY <1>1, UserType DEF Visible
<1>3. CASE Kind(c) \in {"create", "register"} /\ Visible(x, Target(c)) = None
           /\ Write(x, Target(c), [owner |-> identity[x], by |-> c])
  BY <1>1, <1>2, <1>3 DEF Permits, Write, Written
<1>4. CASE /\ Kind(c) \in {"update", "delete"} /\ Result(x, c) # {}
           /\ Write(x, Target(c), IF Kind(c) = "delete" THEN None
                                  ELSE [owner |-> identity[x], by |-> c])
  <2>1. PICK f \in Mine(x) : f[1] = Target(c)
    BY <1>4 DEF Result
  <2>2. Visible(x, target) # None /\ Visible(x, target).owner = identity[x]
    BY <1>1, <2>1 DEF Mine
  <2> QED BY <1>1, <1>2, <1>4, <2>2 DEF Permits, Write, Written
<1>5. CASE (Kind(c) \in {"list", "get"} \/ Result(x, c) = {}) /\ txRows' = txRows
  <2>1. Kind(c) \in {"create", "register"} => Result(x, c) # {}
    BY DEF Result
  <2> QED BY <1>2, <1>5, <2>1 DEF Kinds
<1> QED BY <1>3, <1>4, <1>5 DEF StatementTx

LEMMA RunStatementKeeps ==
  ASSUME Inv, PromiseInv, NEW c \in Calls, RunStatement(c)
  PROVE  PromiseInv'
<1>1. pc[c] = "block" /\ Running(c) /\ InTry(c)
  BY DEF RunStatement, Awaits, Running, InTry
<1>2. PICK x \in Conns : x = conn[c]
  BY <1>1, AtPoint
<1>3. /\ Footing(x, c, "block") /\ inflight[x] = None /\ c \notin applied
      /\ DatabaseType /\ ControlType /\ identity[x] = User(c)
  BY <1>1, <1>2, AtPoint DEF Ready
<1>4. /\ StatementTx(x, c) /\ UNCHANGED <<request, conn, reply, pool, inflight>>
      /\ seen' = [seen EXCEPT ![c] = Result(x, c)]
      /\ IF Kind(c) = "register" /\ step[c] = 1
           THEN step' = [step EXCEPT ![c] = 2] /\ pc' = pc
           ELSE step' = step /\ pc' = [pc EXCEPT ![c] = "commit"]
  BY <1>2 DEF RunStatement, Goto
<1>5. Frame(x) /\ NewLocks(x) /\ UNCHANGED durableVars /\ txState' = txState
  BY <1>3, <1>4, StatementLocks
<1>6. /\ \A d \in Calls \ {c} : pc'[d] = pc[d] /\ step'[d] = step[d] /\ seen'[d] = seen[d]
      /\ seen'[c] = Result(x, c)
  BY <1>3, <1>4 DEF ControlType
<1>7. ConnOK(x)'
  BY <1>3, <1>4 DEF ConnOK
<1>8. PICK target \in RowKeys : target = Target(c) /\ target \in Targets(c)
  BY <1>3, UserType, ChangeType
<1>9. /\ step[c] \in {1, 2} /\ Own(x, c) /\ txRows[x][target] = Unwritten
      /\ txState[x] = "open" /\ (step[c] = 2 => Kind(c) = "register")
  BY <1>3, <1>8 DEF Footing, ControlType, Blank, Own, Target
<1>10. \/ /\ txRows' = txRows
          /\ Kind(c) \in {"list", "get"} \/ (Kind(c) \in {"update", "delete"} /\ Result(x, c) = {})
       \/ /\ txRows' = [txRows EXCEPT ![x][target] = Written(c)]
          /\ Permits(c, rows[target])
          /\ \/ Kind(c) \in {"create", "register"}
             \/ Kind(c) \in {"update", "delete"} /\ Result(x, c) # {}
  BY <1>3, <1>4, <1>8, <1>9, StatementWrites
<1>11. PICK point \in {"block", "commit"} :
         /\ pc'[c] = point
         /\ point = "block" <=> Kind(c) = "register" /\ step[c] = 1
  BY <1>1, <1>3, <1>4 DEF ControlType
<1>12. Footing(x, c, point)'
  <2>1. /\ txRows'[x][target] \in {Unwritten, Written(c)}
        /\ \A key \in RowKeys \ {target} : txRows'[x][key] = txRows[x][key]
        /\ txRows' = [txRows EXCEPT ![x][target] = Written(c)] => txRows'[x][target] = Written(c)
    BY <1>3, <1>9, <1>10 DEF DatabaseType
  <2>2. \A key \in RowKeys : txRows'[x][key] # Unwritten =>
          key \in Targets(c) /\ txRows'[x][key] = Written(c) /\ Permits(c, rows[key])
    BY <1>8, <1>9, <1>10, <2>1 DEF Own
  <2>3. Own(x, c)'
    BY <1>4, <1>5, <2>2 DEF Own, Targets, Written, Permits, Kind, User, durableVars
  <2>4. Written(c) # Unwritten
    BY <1>3, ChangeType
  <2>5. CASE Kind(c) = "register" /\ step[c] = 1
    <3>1. target = <<"users", request[c].id>> /\ Blank(x)
      BY <1>3, <1>8, <2>5 DEF Target, Footing
    <3>2. <<"sessions", request[c].id>> \in RowKeys \ {target}
      BY <1>3, <3>1, RequestsTyped DEF ControlType, RowKeys
    <3>3. txRows'[x][target] # Unwritten /\ txRows'[x][<<"sessions", request[c].id>>] = Unwritten
      BY <1>10, <2>1, <2>4, <2>5, <3>1, <3>2 DEF Blank
    <3>4. point = "block" /\ step'[c] = 2
      BY <1>3, <1>4, <1>11, <2>5 DEF ControlType
    <3> QED BY <1>4, <1>5, <1>9, <2>3, <2>5, <3>1, <3>3, <3>4 DEF Footing, Kind
  <2>6. CASE ~(Kind(c) = "register" /\ step[c] = 1)
    <3>1. point = "commit"
      BY <1>11, <2>6
    <3>2. \A key \in Targets(c) \ {target} : txRows[x][key] # Unwritten
      BY <1>3, <1>8, <1>9, <2>6 DEF Targets, Target, Footing
    <3>3. CASE txRows' = txRows
      <4>1. Kind(c) \in {"list", "get"} \/ (Kind(c) \in {"update", "delete"} /\ Result(x, c) = {})
        BY <1>9, <1>10, <2>1, <2>4, <3>3
      <4>2. Blank(x)'
        BY <1>3, <1>9, <3>3, <4>1 DEF Footing, Blank
      <4>3. ChangesNothing(c)'
        BY <1>4, <1>6, <4>1 DEF ChangesNothing, Kind
      <4>4. Whole(x, c)'
        BY <2>3, <4>2 DEF Whole
      <4> QED BY <1>5, <1>9, <3>1, <4>2, <4>3, <4>4 DEF Footing
    <3>4. CASE txRows'[x][target] # Unwritten /\ ~ (Kind(c) \in {"get", "list"})
               /\ (Kind(c) \in {"update", "delete"} => Result(x, c) # {})
      <4>1. \A key \in Targets(c) : txRows'[x][key] # Unwritten
        BY <1>3, <2>1, <3>2, <3>4, ChangeType
      <4>2. ~Blank(x)' /\ ~ChangesNothing(c)'
        BY <1>4, <1>6, <3>4 DEF Blank, ChangesNothing, Kind
      <4>3. Whole(x, c)'
        BY <1>4, <2>3, <4>1 DEF Whole, Targets, Kind
      <4> QED BY <1>5, <1>9, <3>1, <4>2, <4>3 DEF Footing
    <3> QED BY <1>10, <2>1, <2>4, <3>3, <3>4
  <2> QED BY <2>5, <2>6
<1>13. CallOK(c)'
  <2>1. conn'[c] = x
    BY <1>2, <1>4
  <2> QED BY <1>3, <1>5, <1>11, <1>12, <2>1 DEF CallOK, Early, durableVars
<1> QED BY <1>1, <1>2, <1>4, <1>5, <1>6, <1>7, <1>13, Alone DEF durableVars

(* The call is over, and nobody can be misled about what it did.           *)
LEMMA EndKeeps ==
  ASSUME Inv, PromiseInv, NEW c \in Calls, Commit(c) \/ Rollback(c)
  PROVE  PromiseInv'
<1>1. pc[c] \in {"commit", "rollback"} /\ Running(c)
  BY DEF Commit, Rollback, Awaits, Running
<1>2. PICK x \in Conns : x = conn[c]
  BY <1>1, AtPoint
<1>3. /\ Footing(x, c, pc[c]) /\ inflight[x] = None /\ DatabaseType /\ ControlType
  BY <1>1, <1>2, AtPoint DEF Commit, Rollback, Awaits
<1>4. /\ RollbackTx(x) \/ (pc[c] = "commit" /\ CommitTx(x, c))
      /\ UNCHANGED <<request, inflight, step>>
      /\ pc' = [pc EXCEPT ![c] = "done"] /\ conn' = [conn EXCEPT ![c] = None]
      /\ seen' = [seen EXCEPT ![c] = {}]
      /\ \E answer : reply' = [reply EXCEPT ![c] = answer]
  BY <1>2 DEF Commit, Rollback, Awaits, EndWith, Goto
<1>5. /\ pc'[c] = "done"
      /\ \A d \in Calls \ {c} : /\ pc'[d] = pc[d] /\ conn'[d] = conn[d] /\ step'[d] = step[d]
                                /\ seen'[d] = seen[d] /\ reply'[d] = reply[d]
  BY <1>3, <1>4 DEF ControlType
<1>6. Frame(x) /\ NewLocks(x)
  BY <1>3, <1>4, OtherOpsLock
<1>7. ConnOK(x)' /\ CallOK(c)'
  BY <1>3, <1>4, <1>5 DEF ConnOK, CallOK, Running, Early
<1>8. \/ rows' = rows /\ applied' = applied
      \/ Durably(x, c)
  <2>1. CASE RollbackTx(x)
    BY <2>1 DEF RollbackTx, durableVars
  <2>2. CASE pc[c] = "commit" /\ CommitTx(x, c)
    <3>1. txState[x] = "open" /\ Whole(x, c)
      BY <1>3, <2>2 DEF Footing
    <3> QED BY <1>3, <2>2, <3>1, CommitDurably DEF PromiseInv
  <2> QED BY <1>4, <2>1, <2>2
<1> QED BY <1>1, <1>2, <1>4, <1>5, <1>6, <1>7, <1>8, Alone

LEMMA FailureKeeps ==
  ASSUME Inv, PromiseInv, NEW c \in Calls, QueryRefused(c) \/ QueryTimesOut(c)
  PROVE  PromiseInv'
<1>1. Running(c) /\ InTry(c)
  BY DEF QueryRefused, QueryTimesOut, InTry, Running
<1>2. PICK x \in Conns : x = conn[c]
  BY <1>1, AtPoint
<1>3. /\ Footing(x, c, pc[c]) /\ inflight[x] = None /\ c \notin applied
      /\ DatabaseType /\ ControlType
  BY <1>1, <1>2, AtPoint
<1>4. /\ pc' = [pc EXCEPT ![c] = "rollback"]
      /\ UNCHANGED <<request, conn, step, seen, pool>>
      /\ \/ reply' = [reply EXCEPT ![c] = "error"]
         \/ reply' = [reply EXCEPT ![c] = "refused"] /\ QueryRefused(c)
  BY DEF QueryRefused, QueryTimesOut, AfterFailure, Goto
<1>5. /\ pc'[c] = "rollback"
      /\ \A d \in Calls \ {c} : pc'[d] = pc[d] /\ reply'[d] = reply[d]
      /\ reply'[c] \in {"error", "refused"}
      /\ reply'[c] = "refused" => QueryRefused(c)
  BY <1>3, <1>4 DEF ControlType
<1>6. CASE QueryRefused(c)
  <2>1. Refuse(x, QueryOf(c)) /\ inflight' = inflight
    BY <1>2, <1>6 DEF QueryRefused
  <2>2. RollbackTx(x) \/ AbortTx(x)
    BY <2>1 DEF Refuse
  <2>3. Frame(x) /\ NewLocks(x) /\ rows' = rows /\ applied' = applied
    BY <1>3, <2>2, OtherOpsLock DEF RollbackTx, AbortTx, durableVars
  <2>4. ConnOK(x)' /\ CallOK(c)'
    BY <1>2, <1>3, <1>4, <1>5, <2>1, <2>3 DEF ConnOK, CallOK, Early, Footing
  <2> QED BY <1>1, <1>2, <1>4, <1>5, <2>1, <2>3, <2>4, Alone
<1>7. CASE QueryTimesOut(c)
  <2>1. inflight' = [inflight EXCEPT ![x] = QueryOf(c)] /\ UNCHANGED dbVars
    BY <1>2, <1>3, <1>7 DEF QueryTimesOut
  <2>2. /\ inflight'[x] = QueryOf(c) /\ \A y \in Conns \ {x} : inflight'[y] = inflight[y]
        /\ QueryOf(c).call = c /\ (QueryOf(c).op = "COMMIT" => pc[c] = "commit")
    BY <1>1, <1>3, <2>1 DEF ControlType, QueryOf, OpAt, InTry
  <2>3. Frame(x) /\ NewLocks(x) /\ rows' = rows /\ applied' = applied
    BY <1>3, <2>1, OtherOpsLock DEF dbVars, durableVars
  <2>4. reply'[c] = "error"
    BY <1>3, <1>7 DEF QueryTimesOut, AfterFailure, ControlType
  <2>5. CallOK(c)'
    BY <1>5, <2>4 DEF CallOK, Early, Footing
  <2>6. ConnOK(x)'
    <3>1. ASSUME pc[c] = "commit" PROVE Pending(x, c)'
      <4>1. Whole(x, c) /\ txState[x] = "open"
        BY <1>3, <3>1 DEF Footing
      <4>2. /\ txState'[x] = txState[x] /\ txRows'[x] = txRows[x]
            /\ \A key \in RowKeys : rows'[key] = rows[key]
        BY <2>1 DEF dbVars, sessionVars, durableVars
      <4>3. Whole(x, c)'
        BY <1>4, <4>1, <4>2, SessionKept
      <4>4. Unsettled(x, c)'
        BY <1>2, <1>4, <1>5, <2>4 DEF Unsettled
      <4> QED BY <1>3, <2>3, <4>1, <4>2, <4>3, <4>4 DEF Pending
    <3> QED BY <2>2, <3>1 DEF ConnOK
  <2> QED BY <1>1, <1>2, <1>4, <1>5, <2>2, <2>3, <2>5, <2>6, Alone
<1> QED BY <1>6, <1>7

(* The call ends with an error; a COMMIT it sent may still take effect.    *)
LEMMA BreakKeeps ==
  ASSUME Inv, PromiseInv, NEW c \in Calls, RollbackFails(c) \/ Disconnect(c)
  PROVE  PromiseInv'
<1>1. Running(c)
  BY HeldConn DEF RollbackFails, Disconnect, Running
<1>2. PICK x \in Conns : x = conn[c]
  BY <1>1, AtPoint
<1>3. /\ Footing(x, c, pc[c]) /\ Ready(x, c, pc[c]) /\ DatabaseType /\ ControlType
      /\ InTry(c) => inflight[x] = None /\ c \notin applied
  BY <1>1, <1>2, AtPoint
<1>4. /\ UNCHANGED <<request, dbVars, step>>
      /\ pc' = [pc EXCEPT ![c] = "done"] /\ conn' = [conn EXCEPT ![c] = None]
      /\ seen' = [seen EXCEPT ![c] = {}] /\ reply' = [reply EXCEPT ![c] = "error"]
  BY <1>2 DEF RollbackFails, Disconnect, EndWith, Goto
<1>5. /\ pc'[c] = "done" /\ reply'[c] = "error"
      /\ \A d \in Calls \ {c} : /\ pc'[d] = pc[d] /\ conn'[d] = conn[d] /\ step'[d] = step[d]
                                /\ seen'[d] = seen[d] /\ reply'[d] = reply[d]
  BY <1>3, <1>4 DEF ControlType
<1>6. Frame(x) /\ NewLocks(x) /\ rows' = rows /\ applied' = applied
  BY <1>3, <1>4, OtherOpsLock DEF dbVars, durableVars
<1>7. \/ inflight' = inflight
      \/ pc[c] = "commit" /\ inflight[x] = None /\ inflight' = [inflight EXCEPT ![x] = QueryOf(c)]
  BY <1>2 DEF RollbackFails, Disconnect
<1>8. \A y \in Conns \ {x} : inflight'[y] = inflight[y]
  BY <1>3, <1>7 DEF ControlType
<1>9. /\ txState'[x] = txState[x] /\ txRows'[x] = txRows[x]
      /\ \A key \in RowKeys : rows'[key] = rows[key]
  BY <1>4, <1>6 DEF dbVars, sessionVars
<1>10. ASSUME inflight'[x] # None, inflight'[x].op = "COMMIT"
       PROVE  inflight'[x].call = c /\ Pending(x, c)'
  <2>1. Unsettled(x, c)'
    BY <1>5 DEF Unsettled
  <2>2. CASE inflight' = inflight
    <3>1. pc[c] = "rollback" /\ inflight[x].call = c
      BY <1>1, <1>3, <1>10, <2>2 DEF Ready, InTry, Running, ControlType, Points
    <3>2. Pending(x, c)
      BY <1>10, <2>2, <3>1 DEF PromiseInv, ConnOK
    <3>3. Whole(x, c)' /\ (Blank(x)' <=> Blank(x))
      BY <1>4, <1>9, <3>2, SessionKept DEF Pending
    <3>4. Pending(x, c)'
      BY <1>6, <1>9, <2>1, <3>2, <3>3 DEF Pending
    <3> QED BY <2>2, <3>1, <3>4
  <2>3. CASE pc[c] = "commit" /\ inflight' = [inflight EXCEPT ![x] = QueryOf(c)]
    <3>1. inflight'[x].call = c
      BY <1>3, <2>3 DEF ControlType, QueryOf
    <3>2. Whole(x, c) /\ txState[x] = "open" /\ c \notin applied
      BY <1>3, <2>3 DEF Footing, InTry
    <3>3. Whole(x, c)'
      BY <1>4, <1>9, <3>2, SessionKept
    <3>4. Pending(x, c)'
      BY <1>6, <1>9, <2>1, <3>2, <3>3 DEF Pending
    <3> QED BY <3>1, <3>4
  <2> QED BY <1>7, <2>2, <2>3
<1>11. ConnOK(x)' /\ CallOK(c)'
  BY <1>5, <1>10 DEF ConnOK, CallOK, Running, Early
<1> QED BY <1>1, <1>2, <1>4, <1>5, <1>6, <1>8, <1>11, Alone

-------------------------------------------------------------------------------
(* The other steps.                                                        *)

LEMMA NothingMoves ==
  ASSUME DatabaseType, UNCHANGED dbVars, NEW x \in Conns
  PROVE  Frame(x) /\ NewLocks(x) /\ rows' = rows /\ applied' = applied /\ txRows' = txRows
BY OtherOpsLock DEF dbVars, sessionVars, durableVars

LEMMA ConnectKeeps ==
  ASSUME Inv, PromiseInv, NEW c \in Calls, Connect(c)
  PROVE  PromiseInv'
<1>1. PICK x \in Conns : pool[x] \in {"idle", "free"} /\ conn' = [conn EXCEPT ![c] = x]
  BY DEF Connect
<1>2. /\ pc[c] = "idle" /\ pc' = [pc EXCEPT ![c] = "begin"]
      /\ UNCHANGED <<request, step, seen, reply, inflight, dbVars>>
  BY DEF Connect, Goto
<1>3. DatabaseType /\ ControlType /\ CallOK(c)
  BY Parts DEF PromiseInv, DatabaseInv
<1>4. Frame(x) /\ NewLocks(x) /\ rows' = rows /\ applied' = applied /\ txRows' = txRows
  BY <1>2, <1>3, NothingMoves
<1>5. Blank(x) /\ inflight[x] = None
  BY <1>1, <1>3, BlankIsNoWrites DEF Inv, PooledIsClean
<1>6. /\ pc'[c] = "begin" /\ conn'[c] = x
      /\ \A d \in Calls \ {c} : pc'[d] = pc[d] /\ conn'[d] = conn[d]
  BY <1>1, <1>2, <1>3 DEF ControlType
<1>7. \A d \in Calls : Running(d) => conn[d] # x
  BY <1>1, HeldConn
<1>8. ConnOK(x)'
  BY <1>2, <1>5 DEF ConnOK
<1>9. CallOK(c)'
  BY <1>2, <1>3, <1>4, <1>5, <1>6 DEF CallOK, Footing, Early, Blank
<1>10. /\ \A y \in Conns \ {x} : ConnOK(y)'
       /\ \A d \in Calls \ {c} : (Running(d) => conn[d] # x) => CallOK(d)'
  <2>1. {c} \in SUBSET Calls /\ \A e \in {c} : pc[e] # "done" /\ (pc[e] = "rollback" => conn[e] = x)
    BY <1>2
  <2>2. /\ \A y \in Conns \ {x} : inflight'[y] = inflight[y]
        /\ request' = request
        /\ \A d \in Calls \ {c} : /\ pc'[d] = pc[d] /\ conn'[d] = conn[d] /\ step'[d] = step[d]
                                  /\ seen'[d] = seen[d] /\ reply'[d] = reply[d]
    BY <1>2, <1>6
  <2> QED BY <1>4, <2>1, <2>2, Elsewhere
<1>11. RowLocks'
  BY <1>4, LocksKept DEF PromiseInv
<1> QED BY <1>7, <1>8, <1>9, <1>10, <1>11 DEF PromiseInv

LEMMA ConnectFailsKeeps ==
  ASSUME Inv, PromiseInv, NEW c \in Calls, ConnectFails(c)
  PROVE  PromiseInv'
<1>1. /\ pc[c] = "idle" /\ pc' = [pc EXCEPT ![c] = "done"]
      /\ reply' = [reply EXCEPT ![c] = "error"]
      /\ UNCHANGED <<request, conn, step, seen, inflight, dbVars>>
  BY DEF ConnectFails, Goto
<1>2. /\ pc'[c] = "done"
      /\ \A d \in Calls \ {c} : pc'[d] = pc[d] /\ reply'[d] = reply[d]
  BY <1>1, Parts DEF ControlType
<1>3. /\ txState' = txState /\ identity' = identity /\ txRows' = txRows
      /\ rows' = rows /\ applied' = applied
  BY <1>1 DEF dbVars, sessionVars, durableVars
<1>4. /\ \A y \in Conns \ {None} : ConnOK(y)'
      /\ \A d \in Calls \ {c} : (Running(d) => conn[d] # None) => CallOK(d)'
  <2>1. {c} \in SUBSET Calls /\ \A e \in {c} : pc[e] # "done" /\ (pc[e] = "rollback" => conn[e] = None)
    BY <1>1
  <2>2. /\ \A y \in Conns \ {None} : inflight'[y] = inflight[y]
        /\ request' = request /\ Frame(None)
        /\ \A d \in Calls \ {c} : /\ pc'[d] = pc[d] /\ conn'[d] = conn[d] /\ step'[d] = step[d]
                                  /\ seen'[d] = seen[d] /\ reply'[d] = reply[d]
    BY <1>1, <1>2, <1>3 DEF Frame
  <2> QED BY <1>3, <2>1, <2>2, Elsewhere
<1>5. \A d \in Calls : Running(d) => conn[d] # None
  BY DEF Inv, ConnInv
<1>6. CallOK(c)'
  BY <1>2 DEF CallOK, Early, Running
<1>7. RowLocks'
  BY <1>3 DEF RowLocks, PromiseInv
<1> QED BY <1>4, <1>5, <1>6, <1>7, NoneIsNothing DEF PromiseInv

(* Only a COMMIT that its call still waits for, or gave up on, has a       *)
(* durable effect.                                                         *)
LEMMA ServerTouches ==
  ASSUME Inv, PromiseInv, NEW x \in Conns, FinishAbandoned(x) \/ SessionEnds(x)
  PROVE  /\ Frame(x) /\ NewLocks(x)
         /\ \/ rows' = rows /\ applied' = applied
            \/ \E c \in Calls : /\ inflight[x] # None /\ inflight[x].op = "COMMIT"
                                /\ c = inflight[x].call /\ CommitTx(x, c) /\ Pending(x, c)
<1>1. DatabaseType /\ ControlType
  BY Parts DEF DatabaseInv
<1>2. CASE SessionEnds(x)
  <2>1. \/ RollbackTx(x)
        \/ inflight[x] # None /\ inflight[x].op = "COMMIT" /\ CommitTx(x, inflight[x].call)
    BY <1>2 DEF SessionEnds
  <2>2. inflight[x] # None => inflight[x].call \in Calls
    BY <1>1 DEF ControlType
  <2>3. Frame(x) /\ NewLocks(x)
    BY <1>1, <2>1, <2>2, OtherOpsLock
  <2> QED BY <2>1, <2>2, <2>3 DEF RollbackTx, durableVars, PromiseInv, ConnOK
<1>3. CASE FinishAbandoned(x)
  <2>1. PICK query \in [op : Ops, call : Calls] :
          query = inflight[x] /\ (Serve(x, query) \/ Refuse(x, query))
    BY <1>1, <1>3 DEF FinishAbandoned, ControlType
  <2>2. Frame(x) /\ NewLocks(x)
    BY <1>1, <2>1, QueriesLock
  <2>3. \/ rows' = rows /\ applied' = applied
        \/ query.op = "COMMIT" /\ CommitTx(x, query.call)
    BY <2>1 DEF Serve, Refuse, BeginTx, IdentifyTx, StatementTx, AbortTx, RollbackTx, durableVars
  <2>4. inflight[x] # None
    BY <1>3 DEF FinishAbandoned
  <2> QED BY <2>1, <2>2, <2>3, <2>4 DEF PromiseInv, ConnOK
<1> QED BY <1>2, <1>3

LEMMA ServerKeeps ==
  ASSUME Inv, PromiseInv, NEW x \in Conns, FinishAbandoned(x) \/ SessionEnds(x)
  PROVE  PromiseInv'
<1>1. /\ inflight' = [inflight EXCEPT ![x] = None]
      /\ UNCHANGED <<request, pc, conn, step, seen, reply>>
  BY DEF FinishAbandoned, SessionEnds, callVars
<1>2. /\ inflight'[x] = None /\ \A y \in Conns \ {x} : inflight'[y] = inflight[y]
      /\ DatabaseType /\ ControlType
  BY <1>1, Parts DEF ControlType, DatabaseInv
<1>3. /\ Frame(x) /\ NewLocks(x)
      /\ \/ rows' = rows /\ applied' = applied
         \/ \E c \in Calls : Durably(x, c) /\ Unsettled(x, c)
  <2>1. ASSUME NEW c \in Calls, CommitTx(x, c), Pending(x, c)
        PROVE  Durably(x, c) /\ Unsettled(x, c)
    BY <1>2, <2>1, CommitDurably DEF Pending, PromiseInv
  <2> QED BY <2>1, ServerTouches
<1>4. /\ \A y \in Conns \ {x} : ConnOK(y)'
      /\ \A d \in Calls \ {} : (Running(d) => conn[d] # x) => CallOK(d)'
  <2>1. {} \in SUBSET Calls /\ \A e \in {} : pc[e] # "done" /\ (pc[e] = "rollback" => conn[e] = x)
    OBVIOUS
  <2>2. /\ request' = request
        /\ \A d \in Calls \ {} : /\ pc'[d] = pc[d] /\ conn'[d] = conn[d] /\ step'[d] = step[d]
                                 /\ seen'[d] = seen[d] /\ reply'[d] = reply[d]
    BY <1>1
  <2>3. \/ rows' = rows /\ applied' = applied
        \/ \E c \in Calls : Durably(x, c) /\ (c \in {} \/ Unsettled(x, c))
    BY <1>3
  <2> QED BY <1>2, <1>3, <2>1, <2>2, <2>3, Elsewhere
<1>5. ASSUME NEW d \in Calls, Running(d), conn[d] = x PROVE CallOK(d)'
  <2>1. pool[x] = "held" /\ Ready(x, d, pc[d]) /\ CallOK(d)
    BY <1>5, HeldConn DEF PromiseInv
  <2>2. FinishAbandoned(x) /\ inflight[x] # None
    BY <2>1 DEF SessionEnds, FinishAbandoned
  <2>3. pc[d] = "rollback"
    BY <1>2, <1>5, <2>1, <2>2 DEF Ready, Clean, Running, ControlType, Points
  <2>4. reply[d] = "error"
    BY <1>5, <2>1, <2>2, <2>3 DEF CallOK
  <2> QED BY <1>1, <2>3, <2>4 DEF CallOK, Early, Footing
<1>6. RowLocks' /\ ConnOK(x)'
  BY <1>2, <1>3, LocksKept DEF PromiseInv, ConnOK
<1> QED BY <1>4, <1>5, <1>6 DEF PromiseInv

(* A step that no call and no session takes part in.                       *)
LEMMA NobodyMoves ==
  ASSUME PromiseInv, UNCHANGED <<request, callVars, inflight, dbVars>>
  PROVE  PromiseInv'
<1>1. /\ pc' = pc /\ conn' = conn /\ step' = step /\ seen' = seen /\ reply' = reply
      /\ txState' = txState /\ txRows' = txRows /\ rows' = rows /\ applied' = applied
      /\ request' = request /\ inflight' = inflight
  BY DEF callVars, dbVars, sessionVars, durableVars
<1>2. \A x \in Conns : Blank(x)' <=> Blank(x)
  BY <1>1 DEF Blank
<1>3. ASSUME NEW x, NEW c PROVE Whole(x, c)' <=> Whole(x, c)
  BY <1>1 DEF Whole, Own, Blank, Targets, Written, Permits, Kind, User
<1>4. ASSUME NEW x \in Conns PROVE ConnOK(x)'
  <2>1. ConnOK(x)
    BY DEF PromiseInv
  <2>2. PICK c : c = inflight[x].call
    OBVIOUS
  <2>3. Pending(x, c)' <=> Pending(x, c)
    BY <1>1, <1>2, <1>3 DEF Pending, Unsettled
  <2> QED BY <1>1, <2>1, <2>2, <2>3 DEF ConnOK
<1>5. ASSUME NEW c \in Calls PROVE CallOK(c)'
  <2>1. CallOK(c)
    BY DEF PromiseInv
  <2>2. PICK x : x = conn[c]
    OBVIOUS
  <2>3. PICK point : point = pc[c]
    OBVIOUS
  <2>4. Footing(x, c, point) => Footing(x, c, point)'
    BY <1>1, <1>3 DEF Footing, Own, Blank, Targets, Written, Permits, ChangesNothing, Kind, User
  <2> QED BY <1>1, <2>1, <2>2, <2>3, <2>4 DEF CallOK, Running
<1>6. RowLocks'
  BY <1>1 DEF PromiseInv, RowLocks
<1> QED BY <1>4, <1>5, <1>6 DEF PromiseInv

LEMMA CrashKeeps ==
  ASSUME Inv, PromiseInv, Crash
  PROVE  PromiseInv'
<1>1. /\ request' = request /\ step' = step /\ seen' = seen
      /\ txState' = txState /\ txRows' = txRows /\ rows' = rows /\ applied' = applied
      /\ \A c \in Calls : /\ pc'[c] = IF Running(c) THEN "done" ELSE pc[c]
                          /\ reply'[c] = IF Running(c) THEN "lost" ELSE reply[c]
                          /\ conn'[c] = None
  BY DEF Crash, dbVars, sessionVars, durableVars
<1>2. DatabaseType /\ ControlType
  BY Parts DEF DatabaseInv
<1>3. ASSUME NEW c \in Calls PROVE CallOK(c)'
  BY <1>1 DEF PromiseInv, CallOK, Running, Early
<1>4. ASSUME NEW x \in Conns, inflight'[x] # None, inflight'[x].op = "COMMIT"
      PROVE  \E d \in Calls : inflight'[x].call = d /\ Pending(x, d)'
  <2>1. CASE \E c \in Calls : conn[c] = x /\ pc[c] = "commit" /\ inflight[x] = None
    <3> DEFINE c == CHOOSE c \in Calls : conn[c] = x
    <3>1. PICK d \in Calls : conn[d] = x /\ pc[d] = "commit"
      BY <2>1
    <3>2. c \in Calls /\ conn[c] = x
      BY <3>1
    <3>3. c = d
      BY <3>1, <3>2, NoneIsNothing DEF Inv, ConnInv
    <3>4. inflight'[x] = QueryOf(c)
      BY <2>1 DEF Crash
    <3>5. inflight'[x].call = d
      BY <3>3, <3>4 DEF QueryOf
    <3>6. Running(d) /\ InTry(d)
      BY <3>1 DEF Running, InTry
    <3>7. Footing(x, d, "commit") /\ d \notin applied
      BY <3>1, <3>6, AtPoint
    <3>8. Whole(x, d)'
      BY <1>1, <3>7, SessionKept DEF Footing
    <3>9. Pending(x, d)'
      BY <1>1, <3>6, <3>7, <3>8 DEF Pending, Footing, Unsettled
    <3> QED BY <3>5, <3>9
  <2>2. CASE ~ \E c \in Calls : conn[c] = x /\ pc[c] = "commit" /\ inflight[x] = None
    <3>1. inflight'[x] = inflight[x]
      BY <2>2 DEF Crash
    <3>2. PICK d \in Calls : d = inflight[x].call
      BY <1>2, <1>4, <3>1 DEF ControlType
    <3>3. Pending(x, d)
      BY <1>4, <3>1, <3>2 DEF PromiseInv, ConnOK
    <3>4. Whole(x, d)' /\ (Blank(x)' <=> Blank(x))
      BY <1>1, <3>3, SessionKept DEF Pending
    <3>5. Unsettled(x, d)'
      BY <1>1, <3>3 DEF Pending, Unsettled, Running
    <3>6. Pending(x, d)'
      BY <1>1, <3>3, <3>4, <3>5 DEF Pending
    <3> QED BY <3>1, <3>2, <3>6
  <2> QED BY <2>1, <2>2
<1>5. RowLocks'
  BY <1>1 DEF PromiseInv, RowLocks
<1> QED BY <1>3, <1>4, <1>5 DEF PromiseInv, ConnOK

LEMMA PromiseStep ==
  ASSUME Inv, PromiseInv, [Next]_vars
  PROVE  PromiseInv'
<1>1. CASE UNCHANGED vars
  BY <1>1, NobodyMoves DEF vars
<1>2. ASSUME NEW c \in Calls, CallStep(c) PROVE PromiseInv'
  BY <1>2, BeginKeeps, RunStatementKeeps, EndKeeps, FailureKeeps, BreakKeeps DEF CallStep
<1>3. ASSUME NEW x \in Conns, ServerStep(x) PROVE PromiseInv'
  BY <1>3, ServerKeeps, NobodyMoves DEF ServerStep, EvictIdle
<1> QED BY <1>1, <1>2, <1>3, ConnectKeeps, ConnectFailsKeeps, BreakKeeps, CrashKeeps DEF Next

LEMMA PromiseInit == Init => PromiseInv
<1> SUFFICES ASSUME Init PROVE PromiseInv
  OBVIOUS
<1>1. \A x \in Conns : Blank(x) /\ inflight[x] = None
  BY DEF Init, Blank, NoWrites
<1>2. \A c \in Calls : CallOK(c)
  BY DEF Init, CallOK, Running
<1>3. RowLocks
  BY <1>1 DEF RowLocks, Blank
<1> QED BY <1>1, <1>2, <1>3 DEF PromiseInv, ConnOK

LEMMA PromiseHolds == Spec => [](Inv /\ PromiseInv)
<1>1. Inv /\ PromiseInv /\ [Next]_vars => Inv' /\ PromiseInv'
  BY InvStep, PromiseStep
<1> QED BY <1>1, InvInit, PromiseInit, PTL DEF Spec

-------------------------------------------------------------------------------
(***************************************************************************)
(* Step by step: the commit of a change is TakeEffect, the end of a call   *)
(* is Answer (and both at once when the call waited for its COMMIT), a     *)
(* crash is LoseAnswers, and everything else is invisible.                 *)
(***************************************************************************)

LEMMA Invisible ==
  ASSUME request' = request, rows' = rows, applied' = applied, Delivered' = Delivered
  PROVE  UNCHANGED Promise!vars
BY DEF Promise!vars

LEMMA AnswerMaps ==
  ASSUME NEW c \in Calls, NEW a \in {"ok", "notFound", "refused", "error"},
         request' = request, rows' = rows, applied' = applied,
         pc[c] # "done", pc'[c] = "done", reply'[c] = a,
         \A d \in Calls \ {c} : pc'[d] = pc[d] /\ reply'[d] = reply[d],
         \/ a = "ok" /\ Kind(c) \in {"get", "list"}
         \/ a \in {"notFound", "refused"} /\ c \notin applied
         \/ a = "error"
  PROVE  Promise!Next
<1>1. Delivered[c] = "none" /\ Delivered' = [Delivered EXCEPT ![c] = a]
  BY DEF Delivered
<1>2. Promise!Answer(c, a)
  BY <1>1 DEF Promise!Answer, Kind
<1> QED BY <1>2 DEF Promise!Next

LEMMA EffectMaps ==
  ASSUME DatabaseType, ControlType, NEW x \in Conns, NEW c \in Calls, CommitTx(x, c),
         txState[x] = "open", Whole(x, c), ~Blank(x), c \notin applied, request' = request,
         \/ Delivered[c] = "none" /\ Delivered' = [Delivered EXCEPT ![c] = "ok"]
         \/ Delivered[c] \in {"none", "error", "lost"} /\ Delivered' = Delivered
  PROVE  Promise!Next
<1>1. /\ applied' = applied \cup {c}
      /\ \A key \in Targets(c) : Permits(c, rows[key])
      /\ rows' = [key \in RowKeys |-> IF key \in Targets(c) THEN Written(c) ELSE rows[key]]
  BY CommitOfChange
<1>2. Promise!Targets(c) = Targets(c) /\ Promise!Written(c) = Written(c) /\ DOMAIN rows = RowKeys
  BY DEF Promise!Targets, Targets, Promise!Written, Written, Promise!User, User, Kind, DatabaseType
<1>3. Promise!Allowed(c)
  BY <1>1, <1>2 DEF Promise!Allowed, Permits, Promise!User, User, Kind
<1>4. Promise!TakeEffect(c)
  BY <1>1, <1>2, <1>3 DEF Promise!TakeEffect
<1> QED BY <1>4 DEF Promise!Next

LEMMA CommitMaps ==
  ASSUME Inv, PromiseInv, NEW c \in Calls, Commit(c)
  PROVE  Promise!Next
<1>1. pc[c] = "commit" /\ Running(c) /\ InTry(c)
  BY DEF Commit, Awaits, Running, InTry
<1>2. PICK x \in Conns : x = conn[c]
  BY <1>1, AtPoint
<1>3. /\ Footing(x, c, "commit") /\ c \notin applied /\ DatabaseType /\ ControlType
  BY <1>1, <1>2, AtPoint
<1>4. PICK a : a = IF Kind(c) \in {"get", "update", "delete"} /\ seen[c] = {}
                     THEN "notFound" ELSE "ok"
  OBVIOUS
<1>5. /\ CommitTx(x, c) /\ request' = request /\ pc' = [pc EXCEPT ![c] = "done"]
      /\ reply' = [reply EXCEPT ![c] = a]
  BY <1>2, <1>4 DEF Commit, EndWith, Goto
<1>6. /\ pc'[c] = "done" /\ reply'[c] = a
      /\ \A d \in Calls \ {c} : pc'[d] = pc[d] /\ reply'[d] = reply[d]
  BY <1>3, <1>5 DEF ControlType
<1>7. txState[x] = "open" /\ Whole(x, c) /\ (Blank(x) <=> ChangesNothing(c))
  BY <1>3 DEF Footing
<1>8. CASE Blank(x)
  <2>1. rows' = rows /\ applied' = applied
    BY <1>3, <1>5, <1>7, <1>8, CommitOfChange
  <2>2. \/ a = "ok" /\ Kind(c) \in {"get", "list"}
        \/ a = "notFound"
    BY <1>4, <1>7, <1>8 DEF ChangesNothing
  <2> QED BY <1>1, <1>3, <1>5, <1>6, <2>1, <2>2, AnswerMaps
<1>9. CASE ~Blank(x)
  <2>1. a = "ok"
    BY <1>4, <1>7, <1>9 DEF ChangesNothing
  <2>2. Delivered[c] = "none" /\ Delivered' = [Delivered EXCEPT ![c] = "ok"]
    BY <1>1, <1>6, <2>1 DEF Delivered
  <2> QED BY <1>3, <1>5, <1>7, <1>9, <2>2, EffectMaps
<1> QED BY <1>8, <1>9

(* A call that ends without a COMMIT.                                      *)
LEMMA FailureMaps ==
  ASSUME Inv, PromiseInv, NEW c \in Calls,
         Rollback(c) \/ RollbackFails(c) \/ Disconnect(c) \/ ConnectFails(c)
  PROVE  Promise!Next
<1>1. pc[c] # "done"
  BY HeldConn DEF Rollback, RollbackFails, Disconnect, ConnectFails, Awaits, Running
<1>2. PICK a : /\ reply' = [reply EXCEPT ![c] = a]
               /\ a = "error" \/ (pc[c] = "rollback" /\ a = reply[c])
  BY DEF Rollback, RollbackFails, Disconnect, ConnectFails, Awaits, EndWith
<1>3. /\ pc' = [pc EXCEPT ![c] = "done"] /\ request' = request
      /\ rows' = rows /\ applied' = applied
  BY DEF Rollback, RollbackFails, Disconnect, ConnectFails, EndWith, Goto, RollbackTx, dbVars,
         durableVars
<1>4. /\ pc'[c] = "done" /\ reply'[c] = a
      /\ \A d \in Calls \ {c} : pc'[d] = pc[d] /\ reply'[d] = reply[d]
  BY <1>2, <1>3, Parts DEF ControlType
<1>5. a = "error" \/ (a = "refused" /\ c \notin applied)
  BY <1>2 DEF PromiseInv, CallOK
<1> QED BY <1>1, <1>3, <1>4, <1>5, AnswerMaps

(* The steps of a call that do not end it.                                 *)
LEMMA ProgressMaps ==
  ASSUME Inv, NEW c \in Calls,
         \/ Connect(c) \/ Begin(c) \/ Identify(c) \/ RunStatement(c)
         \/ QueryRefused(c) \/ QueryTimesOut(c)
  PROVE  UNCHANGED Promise!vars
<1>1. request' = request /\ rows' = rows /\ applied' = applied
  <2>1. StatementTx(conn[c], c) => rows' = rows /\ applied' = applied
    BY DEF StatementTx, durableVars
  <2>2. QueryRefused(c) => rows' = rows /\ applied' = applied
    BY DEF QueryRefused, Refuse, RollbackTx, AbortTx, durableVars
  <2> QED BY <2>1, <2>2
          DEF Connect, Begin, Identify, RunStatement, QueryRefused, QueryTimesOut, BeginTx,
              IdentifyTx, dbVars, durableVars
<1>2. /\ pc[c] # "done"
      /\ \E point \in Points \ {"done"} : pc' = [pc EXCEPT ![c] = point]
      /\ reply' = reply \/ \E a : reply' = [reply EXCEPT ![c] = a]
  <2>1. pc \in [Calls -> Points] /\ (pc' = pc => pc' = [pc EXCEPT ![c] = pc[c]])
    BY DEF Inv, TypeOK
  <2>2. CASE Connect(c) \/ Begin(c) \/ Identify(c)
    BY <2>2 DEF Connect, Begin, Identify, Awaits, Goto, Points
  <2>3. CASE RunStatement(c)
    BY <2>1, <2>3 DEF RunStatement, Awaits, Goto, Points
  <2>4. CASE QueryRefused(c) \/ QueryTimesOut(c)
    BY <2>4 DEF QueryRefused, QueryTimesOut, InTry, AfterFailure, Goto, Points
  <2> QED BY <2>2, <2>3, <2>4
<1>3. /\ pc'[c] # "done"
      /\ \A d \in Calls \ {c} : pc'[d] = pc[d] /\ reply'[d] = reply[d]
  BY <1>2, Parts DEF ControlType
<1>4. Delivered' = Delivered
  BY <1>2, <1>3 DEF Delivered
<1> QED BY <1>1, <1>4, Invisible

LEMMA ServerMaps ==
  ASSUME Inv, PromiseInv, NEW x \in Conns, ServerStep(x)
  PROVE  Promise!Next \/ UNCHANGED Promise!vars
<1>1. UNCHANGED <<request, pc, reply>>
  BY DEF ServerStep, FinishAbandoned, SessionEnds, EvictIdle, callVars
<1>2. Delivered' = Delivered /\ DatabaseType /\ ControlType
  BY <1>1, Parts DEF Delivered, DatabaseInv
<1>3. CASE rows' = rows /\ applied' = applied
  BY <1>1, <1>2, <1>3, Invisible
<1>4. ASSUME NEW c \in Calls, CommitTx(x, c), Pending(x, c)
      PROVE  Promise!Next \/ UNCHANGED Promise!vars
  <2>1. txState[x] = "open" /\ Whole(x, c) /\ (Blank(x) \/ c \notin applied)
    BY <1>4 DEF Pending
  <2>2. Delivered[c] \in {"none", "error", "lost"}
    BY <1>4 DEF Pending, Unsettled, Delivered
  <2>3. CASE Blank(x)
    BY <1>2, <1>3, <1>4, <2>1, <2>3, CommitOfChange
  <2>4. CASE ~Blank(x)
    BY <1>1, <1>2, <1>4, <2>1, <2>2, <2>4, EffectMaps
  <2> QED BY <2>3, <2>4
<1>5. EvictIdle(x) => rows' = rows /\ applied' = applied
  BY DEF EvictIdle, dbVars, durableVars
<1> QED BY <1>3, <1>4, <1>5, ServerTouches DEF ServerStep

LEMMA CrashMaps ==
  ASSUME Inv, Crash
  PROVE  Promise!Next
<1> DEFINE lost == {c \in Calls : Running(c)}
<1>1. lost \in SUBSET Calls /\ \A c \in lost : Delivered[c] = "none"
  BY DEF Delivered, Running
<1>2. Delivered' = [c \in Calls |-> IF c \in lost THEN "lost" ELSE Delivered[c]]
  BY DEF Crash, Delivered, Running
<1>3. UNCHANGED <<request, rows, applied>>
  BY DEF Crash, dbVars, durableVars
<1>4. Promise!LoseAnswers(lost)
  BY <1>1, <1>2, <1>3 DEF Promise!LoseAnswers
<1> QED BY <1>1, <1>4 DEF Promise!Next

LEMMA PromiseMaps ==
  ASSUME Inv, PromiseInv, [Next]_vars
  PROVE  [Promise!Next]_Promise!vars
<1>1. CASE UNCHANGED vars
  BY <1>1 DEF vars, callVars, dbVars, durableVars, Promise!vars, Delivered
<1>2. ASSUME NEW c \in Calls, Connect(c) \/ ConnectFails(c) \/ CallStep(c) \/ Disconnect(c)
      PROVE  Promise!Next \/ UNCHANGED Promise!vars
  BY <1>2, CommitMaps, FailureMaps, ProgressMaps DEF CallStep
<1> QED BY <1>1, <1>2, ServerMaps, CrashMaps DEF Next

LEMMA PromiseStarts ==
  ASSUME Init
  PROVE  Promise!Init
<1>1. Delivered = [c \in Calls |-> "none"]
  BY DEF Init, Delivered
<1> QED BY <1>1 DEF Init, Promise!Init, RowKeys

(* The data lane implements AtomicRequests: whatever times out, breaks or  *)
(* dies, a request changes only what is its caller's, at one moment and as *)
(* a whole, and its answer never contradicts what it did.                  *)
THEOREM DataLaneKeepsPromise == Spec => KeepsPromise
<1>1. Init => Promise!Init
  BY PromiseStarts
<1>2. Inv /\ PromiseInv /\ [Next]_vars => [Promise!Next]_Promise!vars
  BY PromiseMaps
<1> QED BY <1>1, <1>2, PromiseHolds, PTL DEF Spec, KeepsPromise, Promise!Spec

-------------------------------------------------------------------------------
(***************************************************************************)
(* What follows from the promise alone.                                    *)
(***************************************************************************)

(* A step of AtomicRequests that changes a row there was is the effect of  *)
(* a change its owner asked for.                                           *)
LEMMA EffectIsOfOwner ==
  ASSUME rows \in [RowKeys -> Row \cup {None}], [Promise!Next]_(Promise!vars),
         NEW key \in RowKeys, rows[key] # None, rows'[key] # rows[key]
  PROVE  \E c \in applied' \ applied :
           /\ Kind(c) \in {"update", "delete"}
           /\ key = <<"data", request[c].id>>
           /\ rows[key].owner = User(c)
<1>1. PICK c \in Calls : Promise!TakeEffect(c)
  BY DEF Promise!Next, Promise!vars, Promise!Answer, Promise!LoseAnswers
<1>2. key \in Promise!Targets(c) /\ c \in applied' \ applied
  BY <1>1 DEF Promise!TakeEffect
<1>3. Kind(c) \in {"update", "delete"} /\ rows[key].owner = User(c)
  BY <1>1, <1>2 DEF Promise!TakeEffect, Promise!Allowed, Promise!User, User, Kind
<1>4. key = <<"data", request[c].id>>
  BY <1>2, <1>3 DEF Promise!Targets, Kind
<1> QED BY <1>2, <1>3, <1>4

(* A row is changed or deleted only by a request of its owner for it.      *)
THEOREM RowsChangeForTheirOwners == Spec => OthersRowsAreKept
<1>1. Inv /\ PromiseInv /\ [Next]_vars =>
        [\A key \in RowKeys : rows[key] # None /\ rows'[key] # rows[key] =>
           \E c \in applied' \ applied :
             /\ Kind(c) \in {"update", "delete"}
             /\ key = <<"data", request[c].id>>
             /\ rows[key].owner = User(c)]_rows
  BY PromiseMaps, EffectIsOfOwner DEF Inv, TypeOK
<1> QED BY <1>1, PromiseHolds, PTL DEF Spec, OthersRowsAreKept

(* What a caller was told stays true ever after: AtomicRequests makes a    *)
(* change with the answer that says so, and none after one that denies it. *)
THEOREM AnswersAreTrue == Spec => []AnswersStayTrue
<1>1. Promise!Init => AnswersStayTrue
  BY DEF Promise!Init, AnswersStayTrue
<1>2. AnswersStayTrue /\ [Promise!Next]_(Promise!vars) => AnswersStayTrue'
  <2> SUFFICES ASSUME AnswersStayTrue, [Promise!Next]_(Promise!vars) PROVE AnswersStayTrue'
    OBVIOUS
  <2>1. DOMAIN Delivered = Calls
    BY DEF Delivered
  <2>2. CASE UNCHANGED Promise!vars
    BY <2>2 DEF Promise!vars, AnswersStayTrue, Kind
  <2>3. ASSUME NEW c \in Calls, Promise!TakeEffect(c) PROVE AnswersStayTrue'
    BY <2>1, <2>3 DEF Promise!TakeEffect, AnswersStayTrue, Kind
  <2>4. ASSUME NEW c \in Calls, NEW a, Promise!Answer(c, a) PROVE AnswersStayTrue'
    BY <2>1, <2>4 DEF Promise!Answer, AnswersStayTrue, Kind
  <2>5. ASSUME NEW lost \in SUBSET Calls, Promise!LoseAnswers(lost) PROVE AnswersStayTrue'
    <3>1. \A d \in Calls : Delivered'[d] \in {"lost", Delivered[d]}
      BY <2>5 DEF Promise!LoseAnswers
    <3> QED BY <2>5, <3>1 DEF Promise!LoseAnswers, AnswersStayTrue, Kind
  <2> QED BY <2>2, <2>3, <2>4, <2>5 DEF Promise!Next
<1> QED BY <1>1, <1>2, DataLaneKeepsPromise, PTL DEF KeepsPromise, Promise!Spec
===============================================================================
