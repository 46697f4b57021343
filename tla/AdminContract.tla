------------------------------ MODULE AdminContract ------------------------------
(***************************************************************************)
(* The command contract of the admin API, from three sides: the forms of   *)
(* the management UI (what they show, validate and build), the client      *)
(* (which path and which body it sends) and the routes (which they take).  *)
(*                                                                         *)
(* A field is filled "blank", "bad" (not what it must look like), "good"   *)
(* or, if it holds a list, with "many" entries: more than a route takes.   *)
(* The columns of a new table are stood for by one row.                    *)
(***************************************************************************)
EXTENDS Naturals, FiniteSets

(* Two records together; of a field both have, the value in the first.     *)
f ++ g == [x \in DOMAIN f \cup DOMAIN g |-> IF x \in DOMAIN f THEN f[x] ELSE g[x]]

NoFields == <<>>

-------------------------------------------------------------------------------
(* The forms: the fields each shows, by kind.                              *)

DefaultFields == [default_kind |-> "default", default_value |-> "literal"]

ColumnFields == [name |-> "name", type |-> "listed", nullable |-> "flag"] ++ DefaultFields

TableForms ==
  [ createTable |-> [schema |-> "name", table |-> "name", columns |-> "list"] ++ ColumnFields,
    renameTable |-> [new_name |-> "name"],
    dropTable   |-> [confirm |-> "exact"],
    addColumn   |-> ColumnFields ]

ColumnForms ==
  [ renameColumn |-> [new_name |-> "name"],
    dropColumn   |-> [confirm |-> "exact"] ]

ColumnRuleForms ==
  [ setColumnDefault  |-> DefaultFields,
    dropColumnDefault |-> NoFields,
    setColumnNotNull  |-> NoFields,
    setColumnNullable |-> NoFields,
    changeColumnType  |-> [to_type |-> "choice"] ]

PerColumn == DOMAIN ColumnForms \cup DOMAIN ColumnRuleForms

IndexForms ==
  [ createIndex |-> [columns |-> "list", name |-> "optional"],
    dropIndex   |-> NoFields ]

ConstraintForms ==
  [ addUniqueConstraint |-> [columns |-> "list", name |-> "optional"],
    dropConstraint      |-> NoFields,
    addForeignKey       |-> [columns |-> "list", ref_schema |-> "name", ref_table |-> "name",
                             ref_columns |-> "list", on_update |-> "listed",
                             on_delete |-> "listed", name |-> "optional"] ]

ExposureForms ==
  [ expose   |-> [alias |-> "name"],
    unexpose |-> NoFields ]

SecurityForms ==
  [ enableRls    |-> NoFields,
    disableRls   |-> [confirm |-> "exact"],
    createPolicy |-> [policy_column |-> "choice", policy_template |-> "listed"],
    removePolicy |-> [policy_column |-> "choice", policy_template |-> "listed"] ]

Forms ==
  TableForms ++ ColumnForms ++ ColumnRuleForms ++ IndexForms ++ ConstraintForms
    ++ ExposureForms ++ SecurityForms

MethodNames == DOMAIN Forms

Fields(method) == DOMAIN Forms[method]

Destructive == {m \in MethodNames : "confirm" \in Fields(m)}

Fieldless == {m \in MethodNames : Fields(m) = {}}

(* What a field of a kind may be filled with, and what validate lets pass. *)
Fillings(kind) ==
  CASE kind = "name" -> {"blank", "bad", "good"}
    [] kind = "exact" -> {"bad", "good"}
    [] kind = "list" -> {"blank", "good", "many"}
    [] kind \in {"choice", "optional"} -> {"blank", "good"}
    [] kind = "default" -> {"none", "bad", "good", "literal"}
    [] kind = "literal" -> {"bad", "good"}

(* The controls that can hold nothing but what the route takes.            *)
Constrained(method) == {f \in Fields(method) : Forms[method][f] \in {"listed", "flag"}}

Contents(method) ==
  LET free == Fields(method) \ Constrained(method)
      filled == {v \in [free -> {"none", "blank", "bad", "good", "many", "literal"}] :
                   \A f \in free : v[f] \in Fillings(Forms[method][f])} IN
  {v ++ [f \in Constrained(method) |-> "good"] : v \in filled}

Passes(method, v) ==
  \A f \in Fields(method) :
    LET kind == Forms[method][f] IN
    /\ kind # "optional" => v[f] # "blank"
    /\ kind = "literal" => (v.default_kind = "literal" => v[f] # "bad")
    /\ kind # "literal" => v[f] # "bad"

(* buildInput: the fields under the names of the command, and its target.  *)
DefaultOf(v) ==
  IF v.default_kind = "literal" THEN [kind |-> "literal", value |-> v.default_value]
                                ELSE [kind |-> v.default_kind]

ColumnOf(v) == [name |-> v.name, type |-> v.type, nullable |-> v.nullable, default |-> DefaultOf(v)]

NameIfGiven(r) ==
  IF "name" \notin DOMAIN r \/ r.name = "blank" THEN NoFields ELSE [name |-> r.name]

Target(method) ==
  IF method = "createTable" THEN {}
  ELSE {"schema", "table"}
         \cup (IF method \in PerColumn THEN {"column"} ELSE {})
         \cup (IF method \in {"dropIndex", "dropConstraint"} THEN {"name"} ELSE {})

CommandInput(method, v) ==
  CASE method = "createTable" ->
         [schema |-> v.schema, table |-> v.table,
          columns |-> [rows |-> v.columns, spec |-> ColumnOf(v)]]
    [] method \in {"renameTable", "renameColumn"} -> [newName |-> v.new_name]
    [] method = "addColumn" -> [column |-> ColumnOf(v)]
    [] method = "setColumnDefault" -> [default |-> DefaultOf(v)]
    [] method = "changeColumnType" -> [toType |-> v.to_type]
    [] method \in {"createIndex", "addUniqueConstraint"} ->
         [columns |-> v.columns] ++ NameIfGiven(v)
    [] method = "addForeignKey" ->
         [columns |-> v.columns,
          references |-> [schema |-> v.ref_schema, table |-> v.ref_table,
                          columns |-> v.ref_columns],
          onUpdate |-> v.on_update, onDelete |-> v.on_delete] ++ NameIfGiven(v)
    [] method \in {"createPolicy", "removePolicy"} ->
         [column |-> v.policy_column, template |-> v.policy_template]
    [] OTHER -> v

BuildInput(method, v) == CommandInput(method, v) ++ [k \in Target(method) |-> "good"]

-------------------------------------------------------------------------------
(* The client: the parameters of each path (MUTATIONS) and the body.       *)

PathParams(method) ==
  IF method \in DOMAIN (ExposureForms ++ SecurityForms) THEN {} ELSE Target(method)

(* The fields of the input whose names on the wire are the same.           *)
Same(input, names) == [n \in names |-> input[n]]

(* Faulty variant of RenameBody: the input is sent as it is.               *)
RenameBodyUnmapped(input) == Same(input, {"newName"})

RenameBody(input) == [new_name |-> input.newName]

ForeignKeyBody(input) ==
  Same(input, {"columns", "references"}) ++ NameIfGiven(input)
    ++ [on_update |-> input.onUpdate, on_delete |-> input.onDelete]

Body(method, input) ==
  CASE method = "createTable" -> Same(input, {"schema", "table", "columns"})
    [] method \in {"renameTable", "renameColumn"} -> RenameBody(input)
    [] method \in {"dropTable", "dropColumn"} -> Same(input, {"confirm"})
    [] method = "addColumn" -> Same(input, {"column"})
    [] method = "setColumnDefault" -> Same(input, {"default"})
    [] method = "changeColumnType" -> [to_type |-> input.toType]
    [] method \in {"createIndex", "addUniqueConstraint"} ->
         Same(input, {"columns"}) ++ NameIfGiven(input)
    [] method = "addForeignKey" -> ForeignKeyBody(input)
    [] method = "expose" -> Same(input, {"schema", "table", "alias"})
    [] method \in {"unexpose", "enableRls"} -> Same(input, {"schema", "table"})
    [] method = "disableRls" -> Same(input, {"schema", "table", "confirm"})
    [] method \in {"createPolicy", "removePolicy"} ->
         Same(input, {"schema", "table", "column", "template"})
    [] OTHER -> NoFields

WithDryRun(body, dryRun) == IF dryRun THEN body ++ [dry_run |-> TRUE] ELSE body

-------------------------------------------------------------------------------
(* The routes: the fields each takes, by the helper that reads them.       *)

TableRoutes ==
  [ createTable |-> [schema |-> "string", table |-> "string", columns |-> "specs"],
    renameTable |-> [new_name |-> "string"],
    dropTable   |-> [confirm |-> "string"] ]

ColumnRoutes ==
  [ addColumn    |-> [column |-> "spec"],
    renameColumn |-> [new_name |-> "string"],
    dropColumn   |-> [confirm |-> "string"] ]

ColumnRuleRoutes ==
  [ setColumnDefault  |-> [default |-> "default"],
    dropColumnDefault |-> NoFields,
    setColumnNotNull  |-> NoFields,
    setColumnNullable |-> NoFields,
    changeColumnType  |-> [to_type |-> "enum"] ]

IndexRoutes ==
  [ createIndex |-> [columns |-> "strings", name |-> "optional"],
    dropIndex   |-> NoFields ]

ConstraintRoutes ==
  [ addUniqueConstraint |-> [columns |-> "strings", name |-> "optional"],
    dropConstraint      |-> NoFields,
    addForeignKey       |-> [columns |-> "strings", references |-> "reference",
                             on_update |-> "enum", on_delete |-> "enum",
                             name |-> "optional"] ]

ExposureRoutes ==
  [ expose   |-> [schema |-> "string", table |-> "string", alias |-> "string"],
    unexpose |-> [schema |-> "string", table |-> "string"] ]

PolicyRoute ==
  [schema |-> "string", table |-> "string", column |-> "string", template |-> "enum"]

SecurityRoutes ==
  [ enableRls    |-> [schema |-> "string", table |-> "string"],
    disableRls   |-> [schema |-> "string", table |-> "string", confirm |-> "string"],
    createPolicy |-> PolicyRoute,
    removePolicy |-> PolicyRoute ]

MutationRoutes ==
  TableRoutes ++ ColumnRoutes ++ ColumnRuleRoutes ++ IndexRoutes ++ ConstraintRoutes
    ++ ExposureRoutes ++ SecurityRoutes

(* The parameters of the routes' paths.                                    *)
RouteParams(method) ==
  CASE method \in {"renameTable", "dropTable", "addColumn", "createIndex", "addUniqueConstraint",
                   "addForeignKey"} -> {"schema", "table"}
    [] method \in {"dropIndex", "dropConstraint"} -> {"schema", "table", "name"}
    [] method \in {"renameColumn", "dropColumn"} \cup DOMAIN ColumnRuleRoutes ->
         {"schema", "table", "column"}
    [] OTHER -> {}

TakesDefault(d) ==
  /\ d.kind \in {"none", "good", "literal", "bad"}
  /\ DOMAIN d = IF d.kind = "literal" THEN {"kind", "value"} ELSE {"kind"}

TakesColumn(spec) ==
  /\ DOMAIN spec = {"name", "type", "nullable", "default"}
  /\ spec.name # "blank" /\ spec.type = "good" /\ spec.nullable = "good"
  /\ TakesDefault(spec.default)

TakesStrings(list) == list \notin {"blank", "many"}

TakesReference(ref) ==
  /\ DOMAIN ref = {"schema", "table", "columns"}
  /\ ref.schema # "blank" /\ ref.table # "blank" /\ TakesStrings(ref.columns)

TakesField(as, value) ==
  CASE as \in {"string", "optional"} -> value # "blank"
    [] as = "enum" -> value = "good"
    [] as = "strings" -> TakesStrings(value)
    [] as = "specs" -> TakesStrings(value.rows) /\ TakesColumn(value.spec)
    [] as = "spec" -> TakesColumn(value)
    [] as = "default" -> TakesDefault(value)
    [] as = "reference" -> TakesReference(value)

(* rejectUnknownFields, then one helper for each field.                    *)
Takes(method, params, body) ==
  LET fields == MutationRoutes[method] IN
  /\ params = RouteParams(method)
  /\ DOMAIN body \subseteq DOMAIN fields \cup {"dry_run"}
  /\ \A f \in DOMAIN fields :
       \/ f \notin DOMAIN body /\ fields[f] = "optional"
       \/ f \in DOMAIN body /\ TakesField(fields[f], body[f])

-------------------------------------------------------------------------------
(* The forms that fit their routes: whatever passes the form's checks is   *)
(* taken, as a dry run too, and every field of the route can be sent.      *)
(* Lists longer than a route takes are left to it: the forms do not count. *)
Fits(method) ==
  LET passing == {v \in Contents(method) :
                    Passes(method, v) /\ \A f \in Fields(method) : v[f] # "many"}
      body(v) == Body(method, BuildInput(method, v)) IN
  /\ \A v \in passing, dryRun \in BOOLEAN :
       Takes(method, PathParams(method), WithDryRun(body(v), dryRun))
  /\ DOMAIN MutationRoutes[method] = UNION {DOMAIN body(v) : v \in passing}

FittingForms == {m \in DOMAIN MutationRoutes : m \in MethodNames /\ Fits(m)}
=================================================================================
