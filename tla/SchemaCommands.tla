----------------------------- MODULE SchemaCommands -----------------------------
(***************************************************************************)
(* The typed commands of the schema-admin lane over the catalogue of the   *)
(* operator's tables: tables and columns (schema-mutations.ts), indexes    *)
(* and constraints (schema-constraints.ts), row security and policies      *)
(* (schema-rls.ts), exposure (schema-exposure.ts).                         *)
(*                                                                         *)
(* A command looks its key up in the operation log, reads the catalogue    *)
(* and preflights against it, perhaps probes the database once more,       *)
(* compiles its plan, and hands it to the executor.  Each of these awaits  *)
(* lets other commands run.  The executor is one step here: the lock, the  *)
(* claim of the key and the plan as a whole (SchemaDdlExecutor shows that  *)
(* it behaves so).  What PostgreSQL checks and does by itself is marked.   *)
(***************************************************************************)
EXTENDS FiniteSets

CONSTANTS
  Calls,
  Keys,
  Names,       \* table names
  Columns,     \* column names, "id" among them
  Templates,   \* ownership policy templates
  Databases,   \* the databases a behaviour may start from
  Requests,    \* what the calls may ask
  None

VARIABLES
  tables,    \* the catalogue: per name a table, or None
  exposed,   \* the names the durable registry lists as exposed
  served,    \* the names the process's registry snapshot lists
  log,       \* per key the command recorded, or None
  request,
  pc,
  recorded,  \* the record the call found under its key, or None
  source,    \* the column type the call compiles from, or None
  answer,
  unchecked  \* history: the tables imported with a rewriting key and exposed since

durableVars == <<tables, exposed, log, unchecked>>
callVars == <<pc, recorded, source, answer>>
vars == <<durableVars, served, request, callVars>>

-------------------------------------------------------------------------------
(* The catalogue.                                                          *)

(* SAFE_TYPE_CONVERSIONS, the only conversions that compile.               *)
SafeTargets ==
  [text |-> {}, integer |-> {"bigint", "numeric"}, bigint |-> {"numeric"}, boolean |-> {},
   uuid |-> {}, timestamp |-> {}, timestamptz |-> {}, date |-> {"timestamp"},
   numeric |-> {}, jsonb |-> {}]

Types == DOMAIN SafeTargets

(* "other" is any type outside the allowlist (mapCatalogueType is null).   *)
Column == [type : Types \cup {"other"}, required : BOOLEAN, default : BOOLEAN,
           generated : BOOLEAN]

Actions == {"no_action", "restrict", "cascade", "set_null"}

Rewriting == {"cascade", "set_null"}

ObjectName == {"primary", "index", "unique", "fkey", "check"} \X Names \X Columns

(* A constraint or an index over one column; a foreign key references the  *)
(* primary key of its target.                                              *)
Object == [name : ObjectName, column : Columns, target : Names \cup {None},
           action : Actions \cup {None}]

Policy == [name : Names \X Columns \X Templates, column : Columns]

Table == [columns : [Columns -> Column \cup {None}], objects : SUBSET Object,
          policies : SUBSET Policy, forced : BOOLEAN, owned : BOOLEAN]

Catalogue == [Names -> Table \cup {None}]

KindOf(o) == o.name[1]

Exists(t) == tables[t] # None

HasColumn(t, col) == Exists(t) /\ tables[t].columns[col] # None

Objects(t) == IF Exists(t) THEN tables[t].objects ELSE {}

(* columnHasDependencies: the constraints and indexes over a column.       *)
Dependents(t, col) == {o \in Objects(t) : o.column = col}

(* primaryKeyColumns.                                                      *)
PrimaryKey(t) == {o.column : o \in {p \in Objects(t) : KindOf(p) = "primary"}}

ForeignKeys(t) == {o \in Objects(t) : o.target # None}

(* The tables whose foreign keys reference t.                              *)
Referencing(t) == {s \in Names : \E o \in ForeignKeys(s) : o.target = t}

PolicyColumns(t) == {p.column : p \in tables[t].policies}

(* A key over t, at either end, whose action rewrites rows.                *)
Cascades(t) ==
  \/ \E o \in ForeignKeys(t) : o.action \in Rewriting
  \/ \E s \in Names : \E o \in ForeignKeys(s) : o.target = t /\ o.action \in Rewriting

(* deterministicObjectName.                                                *)
NameFor(kind, r) == <<kind, r.table, r.column>>

(* ownershipPolicyName, from the names the request gives.                  *)
PolicyFor(r) == [name |-> <<r.table, r.column, r.to>>, column |-> r.column]

HasPolicy(r) == \E p \in tables[r.table].policies : p.name = PolicyFor(r).name

(* verifyExposureCandidate: row security forced, the managed primary key,  *)
(* and for every template the module's own policy and no other.            *)
Exposable(t) ==
  LET managed == {p \in tables[t].policies : p.name[1] = t /\ p.name[2] = p.column} IN
  /\ tables[t].forced
  /\ PrimaryKey(t) = {"id"}
  /\ managed = tables[t].policies
  /\ {p.name[3] : p \in managed} = Templates

-------------------------------------------------------------------------------
MutationKinds == {"createTable", "renameTable", "dropTable", "addColumn", "renameColumn",
                  "dropColumn", "setDefault", "dropDefault", "setNotNull", "dropNotNull",
                  "changeType"}

ConstraintKinds == {"createIndex", "dropIndex", "addUnique", "dropConstraint", "addForeignKey"}

PolicyKinds == {"enableRls", "disableRls", "createPolicy", "removePolicy"}

ExposureKinds == {"expose", "unexpose"}

(* What a request looks like.  `to' is the new name, the type or the       *)
(* template; `name' the object to drop.  The routes let no other types,    *)
(* actions and templates through.                                          *)
Fits(r) ==
  /\ r.kind \in {"createTable", "addColumn", "changeType"} => r.to \in Types
  /\ r.kind = "renameTable" => r.to \in Names
  /\ r.kind = "renameColumn" => r.to \in Columns
  /\ r.kind = "addForeignKey" => r.to \in Names /\ r.action \in Actions
  /\ r.kind = "createPolicy" => r.to \in Templates

Command ==
  {r \in [kind : MutationKinds \cup ConstraintKinds \cup PolicyKinds \cup ExposureKinds,
          table : Names, column : Columns, to : STRING,
          action : STRING, name : ObjectName \cup {<<>>}] : Fits(r)}

Request == [command : Command, key : Keys, dryRun : BOOLEAN, confirmed : BOOLEAN]

(* A row of the operation log.                                             *)
Recorded == [command : Command, source : Types \cup {None}]

ASSUME RequestsTyped == Requests \subseteq Request

ASSUME DatabasesTyped == Databases \subseteq Catalogue

ASSUME IdIsAColumn == "id" \in Columns

ASSUME NoneIsNothing ==
  /\ None \notin Names /\ None \notin Column /\ None \notin Types
  /\ None \notin Table /\ None \notin Recorded
  /\ None \notin [Columns -> Column \cup {None}]

(* The commands whose compiled statement embeds a type of the catalogue.   *)
TypedKinds == {"setDefault", "changeType"}

Destructive == {"dropTable", "dropColumn", "disableRls"}

-------------------------------------------------------------------------------
(* The preflight guards, against the catalogue and the registry snapshot   *)
(* as they are when the catalogue read returns.                            *)

Owned(t) == Exists(t) /\ tables[t].owned

Mutable(t) == Owned(t) /\ t \notin served

(* assertPlainColumn.                                                      *)
Plain(r) ==
  /\ Mutable(r.table)
  /\ HasColumn(r.table, r.column)
  /\ ~tables[r.table].columns[r.column].generated

MayCreateTable(r) == r.kind = "createTable" /\ ~Exists(r.table) /\ r.column # "id"

MayRenameTable(r) == r.kind = "renameTable" /\ Mutable(r.table) /\ ~Exists(r.to)

MayDropTable(r) ==
  r.kind = "dropTable" /\ Mutable(r.table) /\ Referencing(r.table) \subseteq {r.table}

MayAddColumn(r) ==
  r.kind = "addColumn" /\ Mutable(r.table) /\ ~HasColumn(r.table, r.column)

MayRenameColumn(r) ==
  /\ r.kind = "renameColumn"
  /\ Plain(r)
  /\ r.column \notin PrimaryKey(r.table)
  /\ ~HasColumn(r.table, r.to)

MayDropColumn(r) ==
  /\ r.kind = "dropColumn"
  /\ Plain(r)
  /\ r.column \notin PrimaryKey(r.table)
  /\ Dependents(r.table, r.column) = {}

MaySetDefault(r) ==
  /\ r.kind = "setDefault"
  /\ Plain(r)
  /\ tables[r.table].columns[r.column].type \in Types

MayDropDefault(r) == r.kind = "dropDefault" /\ Plain(r)

MayChangeNullability(r) ==
  /\ r.kind \in {"setNotNull", "dropNotNull"}
  /\ Mutable(r.table)
  /\ HasColumn(r.table, r.column)

MayChangeType(r) ==
  /\ r.kind = "changeType"
  /\ Plain(r)
  /\ r.column \notin PrimaryKey(r.table)
  /\ ~tables[r.table].columns[r.column].default
  /\ Dependents(r.table, r.column) = {}
  /\ tables[r.table].columns[r.column].type \in Types

(* findIndexOwner looks through the schema, findConstraint at the table.   *)
MayCreateIndex(r) ==
  /\ r.kind = "createIndex"
  /\ Owned(r.table)
  /\ HasColumn(r.table, r.column)
  /\ \A t \in Names : \A o \in Objects(t) : o.name # NameFor("index", r)

MayAddUnique(r) ==
  /\ r.kind = "addUnique"
  /\ Owned(r.table)
  /\ HasColumn(r.table, r.column)
  /\ \A o \in Objects(r.table) : o.name # NameFor("unique", r)

MayDropIndex(r) ==
  /\ r.kind = "dropIndex"
  /\ Owned(r.table)
  /\ \E o \in Objects(r.table) : o.name = r.name /\ KindOf(o) = "index"

MayDropConstraint(r) ==
  /\ r.kind = "dropConstraint"
  /\ Owned(r.table)
  /\ \E o \in Objects(r.table) : o.name = r.name /\ KindOf(o) \in {"unique", "fkey"}

MayAddForeignKey(r) ==
  /\ r.kind = "addForeignKey"
  /\ Owned(r.table) /\ Owned(r.to)
  /\ HasColumn(r.table, r.column) /\ HasColumn(r.to, "id")
  /\ r.action = "set_null" => ~tables[r.table].columns[r.column].required
  /\ LET types == {tables[r.table].columns[r.column].type, tables[r.to].columns["id"].type}
     IN types \subseteq Types => Cardinality(types) = 1
  /\ \A o \in Objects(r.table) : o.name # NameFor("fkey", r)

MayEnableRls(r) == r.kind = "enableRls" /\ Owned(r.table)

MayDisableRls(r) == r.kind = "disableRls" /\ Mutable(r.table)

(* The policy of that name is looked for in a query of its own, Probe.     *)
MayCreatePolicy(r) ==
  /\ r.kind = "createPolicy"
  /\ Owned(r.table)
  /\ HasColumn(r.table, r.column)
  /\ ~tables[r.table].columns[r.column].generated
  /\ tables[r.table].columns[r.column].type = "uuid"

MayRemovePolicy(r) == r.kind = "removePolicy" /\ Owned(r.table)

MayExpose(r) ==
  r.kind = "expose" /\ r.table \notin exposed /\ Owned(r.table) /\ Exposable(r.table)

MayUnexpose(r) == r.kind = "unexpose" /\ r.table \in exposed /\ Owned(r.table)

Preflight(r) ==
  \/ MayCreateTable(r) \/ MayRenameTable(r) \/ MayDropTable(r)
  \/ MayAddColumn(r) \/ MayRenameColumn(r) \/ MayDropColumn(r)
  \/ MaySetDefault(r) \/ MayDropDefault(r) \/ MayChangeNullability(r) \/ MayChangeType(r)
  \/ MayCreateIndex(r) \/ MayDropIndex(r) \/ MayAddUnique(r) \/ MayDropConstraint(r)
  \/ MayAddForeignKey(r)
  \/ MayEnableRls(r) \/ MayDisableRls(r) \/ MayCreatePolicy(r) \/ MayRemovePolicy(r)
  \/ MayExpose(r) \/ MayUnexpose(r)

(* policyExists, tableHasRows and columnHasNulls.  What rows there are is  *)
(* open: either answer is possible.                                        *)
ProbePasses(r) ==
  \/ r.kind = "createPolicy" /\ (Exists(r.table) => ~HasPolicy(r))
  \/ r.kind = "removePolicy" /\ Exists(r.table) /\ HasPolicy(r)
  \/ r.kind \in {"addColumn", "setNotNull"}

ProbeRefuses(r) ==
  \/ r.kind \in {"createPolicy", "removePolicy"} /\ ~ProbePasses(r)
  \/ r.kind \in {"addColumn", "setNotNull"}

Probing(r) ==
  \/ r.kind \in {"createPolicy", "removePolicy", "setNotNull"}
  \/ r.kind = "addColumn" /\ r.action = "required"

-------------------------------------------------------------------------------
(* What the plans do when the executor runs them.  The first conjuncts are *)
(* the guards compiled into the plan; the others say when PostgreSQL runs  *)
(* the statement, whose further effects are its own.                       *)

(* exposedGuardStatement, under the lock.                                  *)
AssertNotExposed(t) == t \notin exposed

SetTable(t, value) == tables' = [tables EXCEPT ![t] = value] /\ UNCHANGED exposed

SetColumn(r, value) ==
  /\ AssertNotExposed(r.table)
  /\ HasColumn(r.table, r.column)
  /\ SetTable(r.table, [tables[r.table] EXCEPT !.columns[r.column] = value])

Primary(t) == [name |-> <<"primary", t, "id">>, column |-> "id", target |-> None, action |-> None]

IdColumn == [type |-> "uuid", required |-> TRUE, default |-> TRUE, generated |-> FALSE]

PlainColumn(type, required) ==
  [type |-> type, required |-> required, default |-> FALSE, generated |-> FALSE]

CreateTable(r) ==
  /\ r.kind = "createTable"
  /\ ~Exists(r.table)
  /\ SetTable(r.table,
       [columns |-> [col \in Columns |->
                       CASE col = "id"     -> IdColumn
                         [] col = r.column -> PlainColumn(r.to, FALSE)
                         [] OTHER          -> None],
        objects |-> {Primary(r.table)}, policies |-> {}, forced |-> FALSE, owned |-> TRUE])

(* Foreign keys follow the table; names and policies stay as they were.    *)
RenameTable(r) ==
  /\ r.kind = "renameTable"
  /\ AssertNotExposed(r.table)
  /\ Exists(r.table) /\ ~Exists(r.to)
  /\ LET target(o) == IF o.target = r.table THEN [o EXCEPT !.target = r.to] ELSE o
         retargeted(t) ==
           IF Exists(t) THEN [tables[t] EXCEPT !.objects = {target(o) : o \in @}] ELSE None
     IN tables' = [t \in Names |-> CASE t = r.table -> None
                                      [] t = r.to    -> retargeted(r.table)
                                      [] OTHER       -> retargeted(t)]
  /\ UNCHANGED exposed

DropTable(r) ==
  /\ r.kind = "dropTable"
  /\ AssertNotExposed(r.table)
  /\ Exists(r.table) /\ Referencing(r.table) \subseteq {r.table}
  /\ SetTable(r.table, None)

AddColumn(r) ==
  /\ r.kind = "addColumn"
  /\ AssertNotExposed(r.table)
  /\ Exists(r.table) /\ ~HasColumn(r.table, r.column)
  /\ SetTable(r.table,
       [tables[r.table] EXCEPT !.columns[r.column] = PlainColumn(r.to, r.action = "required")])

(* Constraints, indexes and policies follow the column.                    *)
RenameColumn(r) ==
  /\ r.kind = "renameColumn"
  /\ AssertNotExposed(r.table)
  /\ HasColumn(r.table, r.column) /\ ~HasColumn(r.table, r.to)
  /\ LET columns == tables[r.table].columns
         moved(x) == IF x.column = r.column THEN [x EXCEPT !.column = r.to] ELSE x IN
     SetTable(r.table,
       [tables[r.table] EXCEPT
          !.columns = [columns EXCEPT ![r.to] = columns[r.column], ![r.column] = None],
          !.objects = {moved(o) : o \in @},
          !.policies = {moved(p) : p \in @}])

(* The constraints and indexes over the column go with it; a policy over   *)
(* it, or a foreign key of another table, forbids the drop.                *)
DropColumn(r) ==
  /\ r.kind = "dropColumn"
  /\ AssertNotExposed(r.table)
  /\ HasColumn(r.table, r.column)
  /\ r.column \notin PolicyColumns(r.table)
  /\ r.column = "id" => Referencing(r.table) \subseteq {r.table}
  /\ SetTable(r.table,
       [tables[r.table] EXCEPT
          !.columns[r.column] = None,
          !.objects = {o \in @ : o.column # r.column}])

SetDefault(r) ==
  /\ r.kind = "setDefault"
  /\ SetColumn(r, [tables[r.table].columns[r.column] EXCEPT !.default = TRUE])

DropDefault(r) ==
  /\ r.kind = "dropDefault"
  /\ SetColumn(r, [tables[r.table].columns[r.column] EXCEPT !.default = FALSE])

SetNotNull(r) ==
  /\ r.kind = "setNotNull"
  /\ SetColumn(r, [tables[r.table].columns[r.column] EXCEPT !.required = TRUE])

DropNotNull(r) ==
  /\ r.kind = "dropNotNull"
  /\ HasColumn(r.table, r.column) => r.column \notin PrimaryKey(r.table)
  /\ SetColumn(r, [tables[r.table].columns[r.column] EXCEPT !.required = FALSE])

(* compileLockedSourceTypeAssertion, after a faulty variant without it.    *)
SourceTypeAssumed(r, from) == TRUE

SourceTypeHolds(r, from) == tables[r.table].columns[r.column].type = from

ChangeType(r, from) ==
  /\ r.kind = "changeType"
  /\ HasColumn(r.table, r.column)
  /\ SourceTypeHolds(r, from)
  /\ r.column \notin PolicyColumns(r.table)
  /\ SetColumn(r, [tables[r.table].columns[r.column] EXCEPT !.type = r.to])

AddObject(r, object) ==
  /\ HasColumn(r.table, r.column)
  /\ SetTable(r.table, [tables[r.table] EXCEPT !.objects = @ \cup {object}])

(* An index, its own or a constraint's, has a name of its own in a schema. *)
IndexNameFree(name) == \A t \in Names : \A o \in Objects(t) : o.name # name

CreateIndex(r) ==
  LET name == NameFor("index", r) IN
  /\ r.kind = "createIndex"
  /\ IndexNameFree(name)
  /\ AddObject(r, [name |-> name, column |-> r.column, target |-> None, action |-> None])

AddUnique(r) ==
  LET name == NameFor("unique", r) IN
  /\ r.kind = "addUnique"
  /\ IndexNameFree(name)
  /\ AddObject(r, [name |-> name, column |-> r.column, target |-> None, action |-> None])

(* DROP INDEX names the schema, not the table.                             *)
DropIndex(r) ==
  /\ r.kind = "dropIndex"
  /\ \E t \in Names : \E o \in Objects(t) :
       /\ o.name = r.name /\ KindOf(o) = "index"
       /\ SetTable(t, [tables[t] EXCEPT !.objects = @ \ {o}])

DropConstraint(r) ==
  /\ r.kind = "dropConstraint"
  /\ \E o \in Objects(r.table) :
       /\ o.name = r.name /\ KindOf(o) # "index"
       /\ SetTable(r.table, [tables[r.table] EXCEPT !.objects = @ \ {o}])

(* Faulty variant: only the referencing end of the key is guarded.         *)
AssertReferencingNotExposed(r) == r.action \in Rewriting => AssertNotExposed(r.table)

AssertEndsNotExposed(r) ==
  r.action \in Rewriting => AssertNotExposed(r.table) /\ AssertNotExposed(r.to)

AddForeignKey(r) ==
  LET name == NameFor("fkey", r) IN
  /\ r.kind = "addForeignKey"
  /\ AssertEndsNotExposed(r)
  /\ Exists(r.to) /\ "id" \in PrimaryKey(r.to)
  /\ \A o \in Objects(r.table) : o.name # name
  /\ AddObject(r, [name |-> name, column |-> r.column, target |-> r.to, action |-> r.action])

EnableRls(r) ==
  /\ r.kind = "enableRls"
  /\ Exists(r.table)
  /\ SetTable(r.table, [tables[r.table] EXCEPT !.forced = TRUE])

(* Faulty variant of DisableRls: the plan does not lead with the guard.    *)
DisableRlsUnguarded(r) ==
  /\ r.kind = "disableRls"
  /\ Exists(r.table)
  /\ SetTable(r.table, [tables[r.table] EXCEPT !.forced = FALSE])

DisableRls(r) ==
  /\ r.kind = "disableRls"
  /\ AssertNotExposed(r.table)
  /\ Exists(r.table)
  /\ SetTable(r.table, [tables[r.table] EXCEPT !.forced = FALSE])

CreatePolicy(r) ==
  /\ r.kind = "createPolicy"
  /\ HasColumn(r.table, r.column)
  /\ ~HasPolicy(r)
  /\ SetTable(r.table, [tables[r.table] EXCEPT !.policies = @ \cup {PolicyFor(r)}])

RemovePolicy(r) ==
  /\ r.kind = "removePolicy"
  /\ Exists(r.table) /\ HasPolicy(r)
  /\ SetTable(r.table,
       [tables[r.table] EXCEPT !.policies = {p \in @ : p.name # PolicyFor(r).name}])

(* Faulty variant of MayBeExposed: row security and the policies are what  *)
(* the service saw when it verified the table.                             *)
MayBeExposedAsVerified(t) == Exists(t) /\ ~Cascades(t) /\ AssertNotExposed(t)

(* compileAssertExposurePrerequisites.                                     *)
MayBeExposed(t) ==
  /\ Exists(t)
  /\ ~Cascades(t)
  /\ AssertNotExposed(t)
  /\ tables[t].forced
  /\ tables[t].policies # {}

Expose(r) ==
  /\ r.kind = "expose"
  /\ MayBeExposed(r.table)
  /\ exposed' = exposed \cup {r.table}
  /\ UNCHANGED tables

Unexpose(r) ==
  /\ r.kind = "unexpose"
  /\ Exists(r.table)
  /\ exposed' = exposed \ {r.table}
  /\ UNCHANGED tables

RunPlan(r, from) ==
  \/ CreateTable(r) \/ RenameTable(r) \/ DropTable(r)
  \/ AddColumn(r) \/ RenameColumn(r) \/ DropColumn(r)
  \/ SetDefault(r) \/ DropDefault(r) \/ SetNotNull(r) \/ DropNotNull(r)
  \/ ChangeType(r, from)
  \/ CreateIndex(r) \/ AddUnique(r) \/ DropIndex(r) \/ DropConstraint(r) \/ AddForeignKey(r)
  \/ EnableRls(r) \/ DisableRls(r) \/ CreatePolicy(r) \/ RemovePolicy(r)
  \/ Expose(r) \/ Unexpose(r)

-------------------------------------------------------------------------------
Cmd(c) == request[c].command

Key(c) == request[c].key

TypeOK ==
  /\ tables \in Catalogue
  /\ exposed \subseteq Names /\ served \subseteq Names /\ unchecked \subseteq exposed
  /\ log \in [Keys -> Recorded \cup {None}]
  /\ request \in [Calls -> Request]
  /\ pc \in [Calls -> {"idle", "preflight", "probe", "ready", "done"}]
  /\ recorded \in [Calls -> Recorded \cup {None}]
  /\ source \in [Calls -> Types \cup {None}]
  /\ answer \in [Calls -> {"none", "refused", "malformed", "conflict", "replayed",
                           "executed", "dryRun", "error"}]

(* What buildTableRegistry asks of a table that the one-time import of     *)
(* MICROJBASE_TABLES lists, or a start serves: not a word of its keys.     *)
Verifiable(t) ==
  /\ Exists(t)
  /\ tables[t].forced
  /\ tables[t].policies # {}
  /\ PrimaryKey(t) = {"id"}
  /\ HasColumn(t, "id") /\ tables[t].columns["id"].type = "uuid"

(* The process has imported what it was configured to expose, and serves   *)
(* it; the lane has run nothing yet.                                       *)
Init ==
  /\ tables \in Databases
  /\ exposed \in SUBSET {t \in Names : Verifiable(t)}
  /\ served = exposed
  /\ unchecked = {t \in exposed : Cascades(t)}
  /\ log = [k \in Keys |-> None]
  /\ request \in [Calls -> Requests]
  /\ pc = [c \in Calls |-> "idle"]
  /\ recorded = [c \in Calls |-> None]
  /\ source = [c \in Calls |-> None]
  /\ answer = [c \in Calls |-> "none"]

Goto(c, point) == pc' = [pc EXCEPT ![c] = point] /\ UNCHANGED answer

Answer(c, a) ==
  /\ pc' = [pc EXCEPT ![c] = "done"]
  /\ answer' = [answer EXCEPT ![c] = a]

(* What is checked before anything is read.                                *)
WellFormed(r) ==
  /\ r.kind = "addColumn" => r.column # "id"
  /\ r.kind = "renameColumn" => r.to # "id"

(* The compiler refuses a conversion outside the matrix.                   *)
Compiles(r, from) == r.kind = "changeType" => r.to \in SafeTargets[from]

ColumnType(r) == tables[r.table].columns[r.column].type

(* recordedCommandType, and a faulty variant that asks the live catalogue. *)
SourceFromCatalogue(r, record) ==
  IF HasColumn(r.table, r.column) THEN ColumnType(r) ELSE record.source

SourceFromRecord(r, record) == record.source

(* The lookup of the key.  A dry run preflights whatever the log holds,    *)
(* except for the constraint commands and for unexpose.                    *)
LookUp(c) ==
  LET r == Cmd(c)
      ignored == request[c].dryRun /\ r.kind \notin ConstraintKinds \cup {"unexpose"}
      found == IF ignored THEN None ELSE log[Key(c)]
      from == IF r.kind \in TypedKinds THEN SourceFromRecord(r, found) ELSE None
      typeless == r.kind \in TypedKinds /\ found.command.kind # r.kind
      foreign == r.kind = "expose" /\ found.command # r
  IN
  /\ pc[c] = "idle"
  /\ recorded' = [recorded EXCEPT ![c] = found]
  /\ \/ /\ ~WellFormed(r)
        /\ Answer(c, "refused") /\ UNCHANGED source
     \/ /\ WellFormed(r) /\ found = None
        /\ Goto(c, "preflight") /\ UNCHANGED source
     \/ /\ WellFormed(r) /\ found # None /\ typeless
        /\ Answer(c, "malformed") /\ UNCHANGED source
     \/ /\ WellFormed(r) /\ found # None /\ foreign
        /\ Answer(c, "conflict") /\ UNCHANGED source
     \/ /\ WellFormed(r) /\ found # None /\ ~typeless /\ ~foreign
        /\ IF Compiles(r, from) THEN Goto(c, "ready") ELSE Answer(c, "refused")
        /\ source' = [source EXCEPT ![c] = from]
  /\ UNCHANGED <<durableVars, served, request>>

(* The confirmation, the catalogue read and the guards on what it returns. *)
Confirmed(c) == Cmd(c).kind \in Destructive => request[c].confirmed

PreflightCommand(c) ==
  LET r == Cmd(c)
      from == IF r.kind \in TypedKinds THEN ColumnType(r) ELSE None
      passes == Confirmed(c) /\ Preflight(r) /\ Compiles(r, from)
  IN
  /\ pc[c] = "preflight"
  /\ IF passes
       THEN /\ Goto(c, IF Probing(r) THEN "probe" ELSE "ready")
            /\ source' = [source EXCEPT ![c] = from]
       ELSE Answer(c, "refused") /\ UNCHANGED source
  /\ UNCHANGED <<durableVars, served, request, recorded>>

Probe(c) ==
  /\ pc[c] = "probe"
  /\ \/ ProbePasses(Cmd(c)) /\ Goto(c, "ready")
     \/ ProbeRefuses(Cmd(c)) /\ Answer(c, "refused")
  /\ UNCHANGED <<durableVars, served, request, recorded, source>>

-------------------------------------------------------------------------------
(* The executor, a transaction under the advisory lock.                    *)

Entry(c) == [command |-> Cmd(c), source |-> source[c]]

(* The answer to a commit may be lost.                                     *)
Execute(c) ==
  /\ pc[c] = "ready"
  /\ ~request[c].dryRun /\ log[Key(c)] = None
  /\ RunPlan(Cmd(c), source[c])
  /\ log' = [log EXCEPT ![Key(c)] = Entry(c)]
  /\ unchecked' = unchecked \cap exposed'
  /\ \E a \in {"executed", "error"} : Answer(c, a)
  /\ UNCHANGED <<served, request, recorded, source>>

ExecuteDryRun(c) ==
  /\ pc[c] = "ready"
  /\ request[c].dryRun
  /\ Answer(c, "dryRun")
  /\ UNCHANGED <<durableVars, served, request, recorded, source>>

(* Faulty variant of FoundInLog: a command that is not the recorded one is *)
(* run.                                                                    *)
FoundOrRerun(c) ==
  /\ pc[c] = "ready"
  /\ ~request[c].dryRun /\ log[Key(c)] # None
  /\ IF log[Key(c)] = Entry(c)
       THEN Answer(c, "replayed") /\ UNCHANGED durableVars
       ELSE /\ Answer(c, "executed") /\ RunPlan(Cmd(c), source[c]) /\ UNCHANGED log
            /\ unchecked' = unchecked \cap exposed'
  /\ UNCHANGED <<served, request, recorded, source>>

FoundInLog(c) ==
  /\ pc[c] = "ready"
  /\ ~request[c].dryRun /\ log[Key(c)] # None
  /\ Answer(c, IF log[Key(c)] = Entry(c) THEN "replayed" ELSE "conflict")
  /\ UNCHANGED <<durableVars, served, request, recorded, source>>

(* An await fails, or the plan does: a guard in it, PostgreSQL, the rows.  *)
Fail(c) ==
  /\ pc[c] # "done"
  /\ Answer(c, "error")
  /\ UNCHANGED <<durableVars, served, request, recorded, source>>

(* The refresher of the registry catches up.                               *)
Refresh ==
  /\ served' = exposed
  /\ UNCHANGED <<durableVars, request, callVars>>

Done == (\A c \in Calls : pc[c] = "done") /\ UNCHANGED vars

Next ==
  \/ \E c \in Calls : LookUp(c) \/ PreflightCommand(c) \/ Probe(c)
  \/ \E c \in Calls : Execute(c) \/ ExecuteDryRun(c) \/ FoundInLog(c) \/ Fail(c)
  \/ Refresh
  \/ Done

Spec == Init /\ [][Next]_vars

-------------------------------------------------------------------------------
(* Properties.                                                             *)

(* An exposed table exists, and has no foreign key, at either end, whose   *)
(* action rewrites rows without row security (the header of                *)
(* compileAssertExposurePrerequisites), unless it had one when the import  *)
(* listed it, which looks at no key, and has been exposed since.  The      *)
(* check of expose and the guard of addForeignKey leave no order in which  *)
(* another comes about, or an imported table is unexposed, given a key and *)
(* exposed again.                                                          *)
NoCascadeAtExposed == \A t \in exposed : Exists(t) /\ (Cascades(t) => t \in unchecked)

(* While a table is exposed its columns do not change and its row security *)
(* stays forced, however old the registry snapshot is that the preflight   *)
(* of a racing command saw (JDW-27).                                       *)
ExposedIsFrozen ==
  [][\A t \in exposed \cap exposed' :
       /\ Exists(t) => tables'[t] # None
       /\ Exists(t) => tables'[t].columns = tables[t].columns
       /\ Exists(t) => (tables[t].forced => tables'[t].forced)]_vars

(* A column's type only ever changes along SAFE_TYPE_CONVERSIONS, from the *)
(* type it has when the statement runs, not the one the matrix was asked   *)
(* about before the lock (compileLockedSourceTypeAssertion).               *)
SafeConversionsOnly ==
  [][\A t \in Names : Exists(t) /\ tables'[t] # None =>
       \A col \in Columns :
         LET from == tables[t].columns[col]
             to == tables'[t].columns[col]
         IN from # None /\ to # None /\ from.type # to.type
              => from.type \in Types /\ to.type \in SafeTargets[from.type]]_vars

(* Whatever skips the preflight of a used key, nothing is dropped and no   *)
(* row security is disabled by a request without the exact confirmation.   *)
OnlyConfirmedDrops ==
  [][\A c \in Calls :
       /\ pc[c] = "ready" /\ pc'[c] = "done"
       /\ Cmd(c).kind \in Destructive
       /\ tables' # tables
       => request[c].confirmed]_vars

(* A command sent again, once its key is on record, is replayed whatever   *)
(* became of the catalogue since: no stateful guard shadows the replay     *)
(* (the header of schema-mutations.ts, D-025).                             *)
RetryIsReplayed ==
  \A c \in Calls :
    /\ recorded[c] # None /\ ~request[c].dryRun
    /\ recorded[c].command = Cmd(c)
    => answer[c] \in {"none", "replayed", "error"}

(* A key that a call finds on record for another command is never run with *)
(* its own, though the lookup lets it past every guard of its service, nor *)
(* answered with the other's success: docs/admin-api.md calls it a         *)
(* conflict, of which a refusal or an error is what the code may make.     *)
ReusedKeysAreRefused ==
  \A c \in Calls :
    /\ recorded[c] # None /\ ~request[c].dryRun
    /\ recorded[c].command # Cmd(c)
    => answer[c] \in {"none", "conflict", "malformed", "refused", "error"}

(* D-027: columns used by a constraint or an index are never dropped or    *)
(* type-changed.  The guard reads the catalogue before the lock, and       *)
(* nothing in the plan looks again.                                        *)
UsedColumnsStay ==
  [][\A c \in Calls :
       /\ pc[c] = "ready" /\ pc'[c] = "done"
       /\ Cmd(c).kind \in {"dropColumn", "changeType"}
       /\ tables' # tables
       => Dependents(Cmd(c).table, Cmd(c).column) = {}]_vars

(***************************************************************************)
(* The commands implement ManagedTables, the tables as the table registry  *)
(* sees them: of the columns of a table only that they are others after a  *)
(* change, of its policies the templates, of its keys and indexes nothing. *)
(***************************************************************************)
Layouts == [Columns -> Column \cup {None}]

layout == [t \in Names |-> IF tables[t] # None THEN tables[t].columns ELSE None]

forced == [t \in Names |-> tables[t] # None /\ tables[t].forced]

templates ==
  [t \in Names |-> IF tables[t] # None THEN {p.name[3] : p \in tables[t].policies} ELSE {}]

Managed == INSTANCE ManagedTables WITH
  Tables <- Names, Shapes <- Layouts, shape <- layout, policies <- templates

(* Whatever commands race, each plan does to the tables what the model of  *)
(* the registry lets one do, under the guards it has there, or nothing     *)
(* that the registry could tell.                                           *)
PlansAreManaged == Managed!TablesSpec
===============================================================================
