------------------------- MODULE SchemaCommandsProofs -------------------------
(***************************************************************************)
(* Proofs about SchemaCommands for any number of calls, tables, columns    *)
(* and keys, any requests the routes let through and any catalogue to      *)
(* start from: type correctness, no rewriting foreign key at an exposed    *)
(* table, exposed tables frozen, conversions along the matrix only, no     *)
(* unconfirmed drop, a retry answered with what is on record, a reused key *)
(* refused, and every plan one that ManagedTables allows.                  *)
(***************************************************************************)
EXTENDS SchemaCommands, TLAPS

-------------------------------------------------------------------------------
(* The plans.                                                              *)

LEMMA TypeNames ==
  /\ Types = {"text", "integer", "bigint", "boolean", "uuid", "timestamp", "timestamptz",
              "date", "numeric", "jsonb"}
  /\ \A from \in Types : SafeTargets[from] \subseteq Types
<1>1. Types = {"text", "integer", "bigint", "boolean", "uuid", "timestamp", "timestamptz",
               "date", "numeric", "jsonb"}
  BY DEF Types, SafeTargets
<1> QED BY <1>1 DEF SafeTargets

(* A conversion the matrix has.                                            *)
Converts(from, to) == from \in Types /\ to \in SafeTargets[from]

(* A plan of type changes is compiled from the matrix.                     *)
Compiled(r, from) == r.kind = "changeType" => Converts(from, r.to)

(* What a table may become without harm: it keeps its type and, if         *)
(* exposed, its columns and its row security; its columns change type      *)
(* along the matrix; a rewriting key is an old one or touches no exposed   *)
(* table.                                                                  *)
KeepsShape(t, v) ==
  t \in exposed /\ Exists(t) =>
    /\ v # None
    /\ v.columns = tables[t].columns
    /\ tables[t].forced => v.forced

KeepsTypes(t, v) ==
  Exists(t) /\ v # None =>
    \A col \in Columns :
      LET from == tables[t].columns[col]
          to == v.columns[col]
      IN from # None /\ to # None /\ from.type # to.type => Converts(from.type, to.type)

KeepsKeys(t, v) ==
  v # None => \A o \in v.objects : o.target # None /\ o.action \in Rewriting =>
    \/ Exists(t) /\ \E p \in tables[t].objects : p.target = o.target /\ p.action = o.action
    \/ t \notin exposed /\ o.target \notin exposed

(* What it becomes is what ManagedTables lets a table become: it comes or  *)
(* goes, it gets other columns, its row security or the templates of its   *)
(* policies change, or nothing of these does.                              *)
TemplatesOf(v) == {p.name[3] : p \in v.policies}

Unaltered(t, v) ==
  /\ v # None /\ Exists(t)
  /\ v.columns = tables[t].columns

Manageable(t, v) ==
  \/ v = None /\ Exists(t) /\ t \notin exposed
  \/ v # None /\ ~Exists(t) /\ ~v.forced /\ v.policies = {}
  \/ /\ v # None /\ Exists(t) /\ t \notin exposed
     /\ v.forced = tables[t].forced /\ TemplatesOf(v) = TemplatesOf(tables[t])
  \/ /\ Unaltered(t, v)
     /\ v.forced \/ t \notin exposed
     /\ TemplatesOf(v) = TemplatesOf(tables[t])
  \/ /\ Unaltered(t, v)
     /\ v.forced = tables[t].forced
     /\ \/ TemplatesOf(v) = TemplatesOf(tables[t])
        \/ \E p \in Templates : TemplatesOf(v) = TemplatesOf(tables[t]) \cup {p}
        \/ \E p \in Templates : TemplatesOf(v) = TemplatesOf(tables[t]) \ {p}

Harmless(t, v) ==
  /\ v \in Table \cup {None}
  /\ KeepsShape(t, v) /\ KeepsTypes(t, v) /\ KeepsKeys(t, v)
  /\ Manageable(t, v)

SetsTable == \E t \in Names, v \in Table \cup {None} : Harmless(t, v) /\ SetTable(t, v)

(* The tables, typed.                                                      *)
LEMMA TableTyped ==
  ASSUME tables \in Catalogue, NEW t \in Names, Exists(t)
  PROVE  /\ tables[t] \in Table
         /\ \A col \in Columns : HasColumn(t, col) => tables[t].columns[col] \in Column
BY DEF Catalogue, Table, Exists, HasColumn

(* The commands whose plan only replaces one column of an unexposed table. *)
LEMMA ColumnPlans ==
  ASSUME tables \in Catalogue, NEW r \in Command, NEW v \in Column, SetColumn(r, v),
         tables[r.table].columns[r.column].type # v.type =>
           Converts(tables[r.table].columns[r.column].type, v.type)
  PROVE  SetsTable
<1> DEFINE t == r.table
           w == [tables[t] EXCEPT !.columns[r.column] = v]
<1>1. t \in Names /\ r.column \in Columns /\ Exists(t) /\ t \notin exposed /\ SetTable(t, w)
  BY DEF SetColumn, Command, HasColumn, AssertNotExposed
<1>2. tables[t] \in Table
  BY <1>1, TableTyped
<1>3. w \in Table /\ w.columns = [tables[t].columns EXCEPT ![r.column] = v]
      /\ w.objects = tables[t].objects /\ w.forced = tables[t].forced
      /\ w.policies = tables[t].policies
  BY <1>1, <1>2 DEF Table
<1>4. KeepsShape(t, w) /\ Manageable(t, w)
  BY <1>1, <1>3, NoneIsNothing DEF KeepsShape, Manageable, TemplatesOf
<1>5. KeepsTypes(t, w)
  BY <1>1, <1>2, <1>3 DEF KeepsTypes, Table
<1>6. KeepsKeys(t, w)
  BY <1>1, <1>3 DEF KeepsKeys
<1> QED BY <1>1, <1>3, <1>4, <1>5, <1>6 DEF SetsTable, Harmless

LEMMA ColumnChanges ==
  ASSUME tables \in Catalogue, NEW r \in Command, NEW from, Compiled(r, from),
         \/ SetDefault(r) \/ DropDefault(r) \/ SetNotNull(r) \/ DropNotNull(r)
         \/ ChangeType(r, from)
  PROVE  SetsTable
<1> DEFINE column == tables[r.table].columns[r.column]
<1>1. r.table \in Names /\ r.column \in Columns /\ HasColumn(r.table, r.column)
  BY DEF SetDefault, DropDefault, SetNotNull, DropNotNull, ChangeType, SetColumn, Command
<1>2. column \in Column
  BY <1>1, TableTyped DEF HasColumn
<1>3. CASE SetDefault(r)
  <2>1. [column EXCEPT !.default = TRUE] \in Column
    BY <1>2 DEF Column
  <2> QED BY <1>2, <1>3, <2>1, ColumnPlans DEF SetDefault, Column
<1>4. CASE DropDefault(r)
  <2>1. [column EXCEPT !.default = FALSE] \in Column
    BY <1>2 DEF Column
  <2> QED BY <1>2, <1>4, <2>1, ColumnPlans DEF DropDefault, Column
<1>5. CASE SetNotNull(r)
  <2>1. [column EXCEPT !.required = TRUE] \in Column
    BY <1>2 DEF Column
  <2> QED BY <1>2, <1>5, <2>1, ColumnPlans DEF SetNotNull, Column
<1>6. CASE DropNotNull(r)
  <2>1. [column EXCEPT !.required = FALSE] \in Column
    BY <1>2 DEF Column
  <2> QED BY <1>2, <1>6, <2>1, ColumnPlans DEF DropNotNull, Column
<1>7. CASE ChangeType(r, from)
  <2>1. Converts(column.type, r.to) /\ r.to \in Types
    BY <1>7, TypeNames DEF ChangeType, SourceTypeHolds, Compiled, Converts
  <2>2. [column EXCEPT !.type = r.to] \in Column
    BY <1>2, <2>1 DEF Column
  <2> QED BY <1>2, <1>7, <2>1, <2>2, ColumnPlans DEF ChangeType, Column
<1> QED BY <1>3, <1>4, <1>5, <1>6, <1>7

LEMMA NewNames ==
  ASSUME NEW r \in Command, NEW kind \in {"primary", "index", "unique", "fkey", "check"}
  PROVE  NameFor(kind, r) \in ObjectName
BY DEF NameFor, ObjectName, Command

(* The plans that add an object to a table: a rewriting key only with both *)
(* ends unexposed.                                                         *)
LEMMA ObjectPlans ==
  ASSUME tables \in Catalogue, NEW r \in Command, NEW o \in Object, AddObject(r, o),
         o.target # None /\ o.action \in Rewriting => r.table \notin exposed /\ o.target \notin exposed
  PROVE  SetsTable
<1> DEFINE t == r.table
           w == [tables[t] EXCEPT !.objects = @ \cup {o}]
<1>1. t \in Names /\ Exists(t) /\ SetTable(t, w)
  BY DEF AddObject, Command, HasColumn
<1>2. tables[t] \in Table
  BY <1>1, TableTyped
<1>3. /\ w \in Table /\ w.columns = tables[t].columns /\ w.forced = tables[t].forced
      /\ w.objects = tables[t].objects \cup {o} /\ w.policies = tables[t].policies
  BY <1>2 DEF Table
<1>4. KeepsShape(t, w) /\ Manageable(t, w)
  BY <1>1, <1>3, NoneIsNothing DEF KeepsShape, Manageable, Unaltered, TemplatesOf
<1>5. KeepsTypes(t, w)
  BY <1>3 DEF KeepsTypes
<1>6. KeepsKeys(t, w)
  BY <1>1, <1>3 DEF KeepsKeys
<1> QED BY <1>1, <1>3, <1>4, <1>5, <1>6 DEF SetsTable, Harmless

LEMMA ObjectAdditions ==
  ASSUME tables \in Catalogue, NEW r \in Command,
         CreateIndex(r) \/ AddUnique(r) \/ AddForeignKey(r)
  PROVE  SetsTable
<1>1. CASE CreateIndex(r)
  <2> DEFINE o == [name |-> NameFor("index", r), column |-> r.column, target |-> None, action |-> None]
  <2>1. o \in Object
    BY NewNames DEF Object, Command
  <2> QED BY <1>1, <2>1, ObjectPlans DEF CreateIndex
<1>2. CASE AddUnique(r)
  <2> DEFINE o == [name |-> NameFor("unique", r), column |-> r.column, target |-> None, action |-> None]
  <2>1. o \in Object
    BY NewNames DEF Object, Command
  <2> QED BY <1>2, <2>1, ObjectPlans DEF AddUnique
<1>3. CASE AddForeignKey(r)
  <2> DEFINE o == [name |-> NameFor("fkey", r), column |-> r.column, target |-> r.to, action |-> r.action]
  <2>1. o \in Object
    BY <1>3, NewNames DEF Object, Command, Fits, AddForeignKey
  <2> QED BY <1>3, <2>1, ObjectPlans DEF AddForeignKey, AssertEndsNotExposed, AssertNotExposed
<1> QED BY <1>1, <1>2, <1>3

(* The plans that only take objects or policies from a table, or set its   *)
(* row security or its policies.                                           *)
LEMMA OtherPlans ==
  ASSUME tables \in Catalogue, NEW t \in Names, Exists(t), NEW w \in Table, SetTable(t, w),
         w.columns = tables[t].columns, w.objects \subseteq tables[t].objects,
         t \in exposed => (tables[t].forced => w.forced), Manageable(t, w)
  PROVE  SetsTable
<1>1. KeepsShape(t, w)
  BY NoneIsNothing DEF KeepsShape
<1>2. KeepsTypes(t, w)
  BY DEF KeepsTypes
<1>3. KeepsKeys(t, w)
  BY DEF KeepsKeys
<1> QED BY <1>1, <1>2, <1>3 DEF SetsTable, Harmless

LEMMA Removals ==
  ASSUME tables \in Catalogue, NEW r \in Command, DropIndex(r) \/ DropConstraint(r)
  PROVE  SetsTable
<1>1. PICK t \in Names : \E o \in Objects(t) :
        SetTable(t, [tables[t] EXCEPT !.objects = @ \ {o}])
  BY DEF DropIndex, DropConstraint, Command
<1>2. PICK o \in Objects(t) : SetTable(t, [tables[t] EXCEPT !.objects = @ \ {o}])
  BY <1>1
<1>3. Exists(t) /\ tables[t] \in Table
  BY <1>2, TableTyped DEF Objects
<1> DEFINE w == [tables[t] EXCEPT !.objects = @ \ {o}]
<1>4. /\ w \in Table /\ w.columns = tables[t].columns /\ w.forced = tables[t].forced
      /\ w.objects \subseteq tables[t].objects /\ w.policies = tables[t].policies
  BY <1>3 DEF Table
<1>5. Manageable(t, w)
  BY <1>3, <1>4, NoneIsNothing DEF Manageable, Unaltered, TemplatesOf
<1> QED BY <1>2, <1>3, <1>4, <1>5, OtherPlans

LEMMA PolicyChanges ==
  ASSUME tables \in Catalogue, NEW r \in Command,
         EnableRls(r) \/ DisableRls(r) \/ CreatePolicy(r) \/ RemovePolicy(r)
  PROVE  SetsTable
<1> DEFINE t == r.table
<1>1. t \in Names /\ Exists(t)
  BY DEF EnableRls, DisableRls, CreatePolicy, RemovePolicy, HasColumn, Command
<1>2. tables[t] \in Table
  BY <1>1, TableTyped
<1>3. CASE EnableRls(r)
  <2> DEFINE w == [tables[t] EXCEPT !.forced = TRUE]
  <2>1. /\ w \in Table /\ w.columns = tables[t].columns /\ w.objects = tables[t].objects
        /\ w.forced /\ w.policies = tables[t].policies
    BY <1>2 DEF Table
  <2>2. Manageable(t, w)
    BY <1>1, <2>1, NoneIsNothing DEF Manageable, Unaltered, TemplatesOf
  <2> QED BY <1>1, <1>3, <2>1, <2>2, OtherPlans DEF EnableRls
<1>4. CASE DisableRls(r)
  <2> DEFINE w == [tables[t] EXCEPT !.forced = FALSE]
  <2>1. /\ w \in Table /\ w.columns = tables[t].columns /\ w.objects = tables[t].objects
        /\ w.policies = tables[t].policies /\ t \notin exposed
    BY <1>2, <1>4 DEF Table, DisableRls, AssertNotExposed
  <2>2. Manageable(t, w)
    BY <1>1, <2>1, NoneIsNothing DEF Manageable, Unaltered, TemplatesOf
  <2> QED BY <1>1, <1>4, <2>1, <2>2, OtherPlans DEF DisableRls
<1>5. CASE CreatePolicy(r)
  <2> DEFINE w == [tables[t] EXCEPT !.policies = @ \cup {PolicyFor(r)}]
  <2>1. PolicyFor(r) \in Policy
    BY <1>5 DEF PolicyFor, Policy, Command, Fits, CreatePolicy
  <2>2. /\ w \in Table /\ w.columns = tables[t].columns /\ w.objects = tables[t].objects
        /\ w.forced = tables[t].forced /\ w.policies = tables[t].policies \cup {PolicyFor(r)}
    BY <1>2, <2>1 DEF Table
  <2>3. PolicyFor(r).name[3] \in Templates
    BY <2>1 DEF Policy
  <2>4. TemplatesOf(w) = TemplatesOf(tables[t]) \cup {PolicyFor(r).name[3]}
    BY <2>2 DEF TemplatesOf
  <2>5. Manageable(t, w)
    BY <1>1, <2>2, <2>3, <2>4, NoneIsNothing DEF Manageable, Unaltered
  <2> QED BY <1>1, <1>5, <2>2, <2>5, OtherPlans DEF CreatePolicy
<1>6. CASE RemovePolicy(r)
  <2> DEFINE w == [tables[t] EXCEPT !.policies = {p \in @ : p.name # PolicyFor(r).name}]
  <2>1. /\ w \in Table /\ w.columns = tables[t].columns /\ w.objects = tables[t].objects
        /\ w.forced = tables[t].forced
        /\ w.policies = {p \in tables[t].policies : p.name # PolicyFor(r).name}
    BY <1>2 DEF Table
  <2>2. PICK gone \in tables[t].policies : gone.name = PolicyFor(r).name
    BY <1>6 DEF RemovePolicy, HasPolicy
  <2>3. gone.name[3] \in Templates
    BY <1>2, <2>2 DEF Table, Policy
  <2>4. \/ TemplatesOf(w) = TemplatesOf(tables[t])
        \/ TemplatesOf(w) = TemplatesOf(tables[t]) \ {gone.name[3]}
    BY <2>1, <2>2 DEF TemplatesOf
  <2>5. Manageable(t, w)
    BY <1>1, <2>1, <2>3, <2>4, NoneIsNothing DEF Manageable, Unaltered
  <2> QED BY <1>1, <1>6, <2>1, <2>5, OtherPlans DEF RemovePolicy
<1> QED BY <1>3, <1>4, <1>5, <1>6

LEMMA TableChanges ==
  ASSUME tables \in Catalogue, NEW r \in Command,
         CreateTable(r) \/ DropTable(r) \/ AddColumn(r) \/ RenameColumn(r) \/ DropColumn(r)
  PROVE  SetsTable
<1> DEFINE t == r.table
<1>1. t \in Names /\ r.column \in Columns
  BY DEF Command
<1>2. CASE CreateTable(r)
  <2> DEFINE columns == [col \in Columns |-> CASE col = "id"     -> IdColumn
                                              [] col = r.column -> PlainColumn(r.to, FALSE)
                                              [] OTHER          -> None]
             w == [columns |-> columns, objects |-> {Primary(t)}, policies |-> {},
                   forced |-> FALSE, owned |-> TRUE]
  <2>1. IdColumn \in Column /\ PlainColumn(r.to, FALSE) \in Column
    BY <1>2, TypeNames DEF IdColumn, PlainColumn, Column, CreateTable, Command, Fits
  <2>2. columns \in [Columns -> Column \cup {None}]
    BY <2>1
  <2>3. Primary(t) \in Object /\ Primary(t).target = None
    BY <1>1, IdIsAColumn DEF Primary, Object, ObjectName
  <2>4. w \in Table
    BY <2>2, <2>3 DEF Table
  <2>5. SetTable(t, w) /\ ~Exists(t)
    BY <1>2 DEF CreateTable
  <2>6. KeepsShape(t, w) /\ KeepsTypes(t, w) /\ KeepsKeys(t, w)
    BY <2>3, <2>5 DEF KeepsShape, KeepsTypes, KeepsKeys
  <2>7. Manageable(t, w)
    BY <2>4, <2>5, NoneIsNothing DEF Manageable
  <2> QED BY <1>1, <2>4, <2>5, <2>6, <2>7 DEF SetsTable, Harmless
<1>3. CASE DropTable(r)
  <2>1. t \notin exposed /\ Exists(t) /\ SetTable(t, None)
    BY <1>3 DEF DropTable, AssertNotExposed
  <2>2. Harmless(t, None)
    BY <2>1 DEF Harmless, KeepsShape, KeepsTypes, KeepsKeys, Manageable
  <2> QED BY <1>1, <2>1, <2>2 DEF SetsTable
<1>4. CASE AddColumn(r)
  <2> DEFINE v == PlainColumn(r.to, r.action = "required")
             w == [tables[t] EXCEPT !.columns[r.column] = v]
  <2>1. t \notin exposed /\ Exists(t) /\ ~HasColumn(t, r.column) /\ SetTable(t, w)
    BY <1>4 DEF AddColumn, AssertNotExposed
  <2>2. tables[t] \in Table
    BY <1>1, <2>1, TableTyped
  <2>3. v \in Column
    BY <1>4 DEF PlainColumn, Column, AddColumn, Command, Fits
  <2>4. /\ w \in Table /\ w.columns = [tables[t].columns EXCEPT ![r.column] = v]
        /\ w.objects = tables[t].objects /\ w.forced = tables[t].forced
        /\ w.policies = tables[t].policies
    BY <1>1, <2>2, <2>3 DEF Table
  <2>5. KeepsShape(t, w) /\ Manageable(t, w)
    BY <2>1, <2>4, NoneIsNothing DEF KeepsShape, Manageable, TemplatesOf
  <2>6. KeepsTypes(t, w)
    BY <1>1, <2>1, <2>2, <2>4 DEF KeepsTypes, HasColumn, Table
  <2>7. KeepsKeys(t, w)
    BY <2>1, <2>4 DEF KeepsKeys
  <2> QED BY <1>1, <2>1, <2>4, <2>5, <2>6, <2>7 DEF SetsTable, Harmless
<1>5. CASE RenameColumn(r)
  <2> DEFINE columns == tables[t].columns
             moved(x) == IF x.column = r.column THEN [x EXCEPT !.column = r.to] ELSE x
             w == [tables[t] EXCEPT
                     !.columns = [columns EXCEPT ![r.to] = columns[r.column], ![r.column] = None],
                     !.objects = {moved(o) : o \in @},
                     !.policies = {moved(q) : q \in @}]
  <2>1. /\ t \notin exposed /\ HasColumn(t, r.column) /\ ~HasColumn(t, r.to)
        /\ r.to \in Columns /\ SetTable(t, w)
    BY <1>5 DEF RenameColumn, AssertNotExposed, Command, Fits
  <2>2. Exists(t) /\ tables[t] \in Table
    BY <1>1, <2>1, TableTyped DEF HasColumn
  <2>3. \A o \in Object : moved(o) \in Object /\ moved(o).target = o.target /\ moved(o).action = o.action
    BY <2>1 DEF Object
  <2>4. \A q \in Policy : moved(q) \in Policy /\ moved(q).name = q.name
    BY <2>1 DEF Policy
  <2>5. [columns EXCEPT ![r.to] = columns[r.column], ![r.column] = None]
          \in [Columns -> Column \cup {None}]
    BY <1>1, <2>1, <2>2 DEF Table
  <2>6. /\ {moved(o) : o \in tables[t].objects} \subseteq Object
        /\ {moved(q) : q \in tables[t].policies} \subseteq Policy
    BY <2>2, <2>3, <2>4 DEF Table
  <2>7. w \in Table
    BY <2>2, <2>5, <2>6 DEF Table
  <2>8. /\ w.columns = [columns EXCEPT ![r.to] = columns[r.column], ![r.column] = None]
        /\ w.objects = {moved(o) : o \in tables[t].objects} /\ w.forced = tables[t].forced
        /\ w.policies = {moved(q) : q \in tables[t].policies}
    BY <2>2 DEF Table
  <2>9. KeepsShape(t, w) /\ Manageable(t, w)
    <3>1. \A q \in tables[t].policies : moved(q).name = q.name
      BY <2>2, <2>4 DEF Table
    <3> HIDE DEF w, moved
    <3>2. /\ \A q \in w.policies : \E x \in tables[t].policies : q.name = x.name
          /\ \A x \in tables[t].policies : \E q \in w.policies : q.name = x.name
      BY <2>8, <3>1
    <3>3. TemplatesOf(w) = TemplatesOf(tables[t])
      BY <3>2 DEF TemplatesOf
    <3> QED BY <2>1, <2>2, <2>7, <2>8, <3>3, NoneIsNothing DEF KeepsShape, Manageable
  <2>10. KeepsTypes(t, w)
    BY <1>1, <2>1, <2>2, <2>8 DEF KeepsTypes, HasColumn, Table
  <2>11. KeepsKeys(t, w)
    <3>1. \A o \in tables[t].objects : moved(o).target = o.target /\ moved(o).action = o.action
      BY <2>2, <2>3 DEF Table
    <3>2. \A n \in w.objects :
            \E p \in tables[t].objects : p.target = n.target /\ p.action = n.action
      BY <2>8, <3>1
    <3> HIDE DEF w
    <3> QED BY <2>2, <3>2 DEF KeepsKeys
  <2> QED BY <1>1, <2>1, <2>7, <2>9, <2>10, <2>11 DEF SetsTable, Harmless
<1>6. CASE DropColumn(r)
  <2> DEFINE w == [tables[t] EXCEPT !.columns[r.column] = None,
                                    !.objects = {o \in @ : o.column # r.column}]
  <2>1. t \notin exposed /\ Exists(t) /\ SetTable(t, w)
    BY <1>6 DEF DropColumn, AssertNotExposed, HasColumn
  <2>2. tables[t] \in Table
    BY <1>1, <2>1, TableTyped
  <2>3. /\ w \in Table /\ w.columns = [tables[t].columns EXCEPT ![r.column] = None]
        /\ w.objects \subseteq tables[t].objects /\ w.forced = tables[t].forced
        /\ w.policies = tables[t].policies
    BY <1>1, <2>2 DEF Table
  <2>4. KeepsShape(t, w) /\ Manageable(t, w)
    BY <2>1, <2>3, NoneIsNothing DEF KeepsShape, Manageable, TemplatesOf
  <2>5. KeepsTypes(t, w)
    BY <1>1, <2>1, <2>2, <2>3 DEF KeepsTypes, Table
  <2>6. KeepsKeys(t, w)
    BY <2>1, <2>3 DEF KeepsKeys
  <2> QED BY <1>1, <2>1, <2>3, <2>4, <2>5, <2>6 DEF SetsTable, Harmless
<1> QED BY <1>2, <1>3, <1>4, <1>5, <1>6

(* Every plan but four replaces one table harmlessly.                      *)
LEMMA EveryPlan ==
  ASSUME tables \in Catalogue, NEW r \in Command, NEW from, Compiled(r, from), RunPlan(r, from)
  PROVE  SetsTable \/ RenameTable(r) \/ Expose(r) \/ Unexpose(r)
BY TableChanges, ColumnChanges, ObjectAdditions, Removals, PolicyChanges DEF RunPlan

-------------------------------------------------------------------------------
(* What the plans keep.                                                    *)

(* What ExposedIsFrozen and SafeConversionsOnly say of a step.             *)
Frozen ==
  \A t \in exposed \cap exposed' :
    /\ Exists(t) => tables'[t] # None
    /\ Exists(t) => tables'[t].columns = tables[t].columns
    /\ Exists(t) => (tables[t].forced => tables'[t].forced)

Conversions ==
  \A t \in Names : Exists(t) /\ tables'[t] # None =>
    \A col \in Columns :
      LET from == tables[t].columns[col]
          to == tables'[t].columns[col]
      IN from # None /\ to # None /\ from.type # to.type
           => from.type \in Types /\ to.type \in SafeTargets[from.type]

(* NoCascadeAtExposed, key by key: a rewriting key touches no table but    *)
(* unexposed ones and those that were imported with one.                   *)
Checked == exposed \ unchecked

KeysApart ==
  /\ \A t \in exposed : Exists(t)
  /\ \A s \in Names : Exists(s) => \A o \in tables[s].objects :
       o.target # None /\ o.action \in Rewriting => s \notin Checked /\ o.target \notin Checked

(* What Execute does to the history variable.                              *)
Settles == unchecked' = unchecked \cap exposed'

LEMMA ApartMeansNoCascade ==
  ASSUME exposed \subseteq Names, KeysApart
  PROVE  NoCascadeAtExposed
BY DEF KeysApart, Checked, NoCascadeAtExposed, Cascades, ForeignKeys, Objects

LEMMA SettingKeeps ==
  ASSUME tables \in Catalogue, exposed \subseteq Names, KeysApart, SetsTable, Settles
  PROVE  /\ tables' \in Catalogue /\ exposed' = exposed
         /\ KeysApart' /\ Frozen /\ Conversions
<1>1. PICK t \in Names, v \in Table \cup {None} : Harmless(t, v) /\ SetTable(t, v)
  BY DEF SetsTable
<1>2. /\ tables' \in Catalogue /\ exposed' = exposed
      /\ tables'[t] = v
      /\ \A s \in Names \ {t} : tables'[s] = tables[s]
  BY <1>1 DEF SetTable, Catalogue
<1>0. Checked' = Checked
  BY <1>2 DEF Checked, Settles
<1>3. Frozen
  <2> SUFFICES ASSUME NEW s \in exposed, Exists(s)
               PROVE  /\ tables'[s] # None
                      /\ tables'[s].columns = tables[s].columns
                      /\ tables[s].forced => tables'[s].forced
    BY <1>2 DEF Frozen
  <2>1. CASE s # t
    BY <1>2, <2>1 DEF Exists
  <2>2. CASE s = t
    BY <1>1, <1>2, <2>2 DEF Harmless, KeepsShape
  <2> QED BY <2>1, <2>2
<1>4. Conversions
  BY <1>1, <1>2 DEF Conversions, Harmless, KeepsTypes, Converts
<1>5. \A s \in exposed' : Exists(s)'
  <2> SUFFICES ASSUME NEW s \in exposed PROVE tables'[s] # None
    BY <1>2 DEF Exists
  <2>1. CASE s # t
    BY <1>2, <2>1 DEF Exists, KeysApart
  <2>2. CASE s = t
    BY <1>1, <1>2, <2>2 DEF Harmless, KeepsShape, KeysApart
  <2> QED BY <2>1, <2>2
<1>6. ASSUME NEW s \in Names, Exists(s)', NEW o \in tables'[s].objects,
             o.target # None, o.action \in Rewriting
      PROVE  s \notin Checked /\ o.target \notin Checked
  <2>1. CASE s # t
    BY <1>2, <1>6, <2>1 DEF Exists, KeysApart
  <2>2. CASE s = t
    <3>1. \/ Exists(t) /\ \E p \in tables[t].objects : p.target = o.target /\ p.action = o.action
          \/ t \notin exposed /\ o.target \notin exposed
      BY <1>1, <1>2, <1>6, <2>2 DEF Harmless, KeepsKeys, Exists
    <3> QED BY <1>6, <2>2, <3>1 DEF KeysApart, Checked
  <2> QED BY <2>1, <2>2
<1> QED BY <1>0, <1>2, <1>3, <1>4, <1>5, <1>6 DEF KeysApart

(* A rename moves an unexposed table, and the keys that point to it.       *)
LEMMA RenamingKeeps ==
  ASSUME tables \in Catalogue, exposed \subseteq Names, KeysApart,
         NEW r \in Command, RenameTable(r), Settles
  PROVE  /\ tables' \in Catalogue /\ exposed' = exposed
         /\ KeysApart' /\ Frozen /\ Conversions
<1> DEFINE target(o) == IF o.target = r.table THEN [o EXCEPT !.target = r.to] ELSE o
           retargeted(t) ==
             IF Exists(t) THEN [tables[t] EXCEPT !.objects = {target(o) : o \in @}] ELSE None
<1>1. /\ r.table \in Names /\ r.to \in Names /\ r.table # r.to
      /\ r.table \notin exposed /\ r.to \notin exposed
      /\ Exists(r.table) /\ ~Exists(r.to)
      /\ exposed' = exposed
  BY DEF RenameTable, AssertNotExposed, Command, Fits, KeysApart
<1>2. tables' = [t \in Names |-> CASE t = r.table -> None
                                  [] t = r.to    -> retargeted(r.table)
                                  [] OTHER       -> retargeted(t)]
  BY DEF RenameTable
<1>3. \A o \in Object : target(o) \in Object /\ target(o).action = o.action
                         /\ target(o).target = IF o.target = r.table THEN r.to ELSE o.target
  BY <1>1 DEF Object
<1>4. ASSUME NEW t \in Names, Exists(t)
      PROVE  /\ retargeted(t) \in Table
             /\ retargeted(t).columns = tables[t].columns
             /\ retargeted(t).forced = tables[t].forced
             /\ retargeted(t).objects = {target(o) : o \in tables[t].objects}
  <2>1. tables[t] \in Table
    BY <1>4, TableTyped
  <2>2. {target(o) : o \in tables[t].objects} \subseteq Object
    BY <1>3, <2>1 DEF Table
  <2> QED BY <1>4, <2>1, <2>2 DEF Table
<1>5. \A t \in Names : ~Exists(t) => retargeted(t) = None
  OBVIOUS
<1>6. \A t \in Names : Exists(t) => \A o \in tables[t].objects : o \in Object
  BY TableTyped DEF Table
<1> HIDE DEF retargeted, target
<1>7. tables' \in Catalogue
  BY <1>1, <1>2, <1>4, <1>5 DEF Catalogue
<1>8. \A t \in Names \ {r.table, r.to} : tables'[t] = retargeted(t)
  BY <1>2
<1>9. tables'[r.table] = None /\ tables'[r.to] = retargeted(r.table)
  BY <1>1, <1>2
<1>10. \A t \in exposed : t \in Names \ {r.table, r.to} /\ Exists(t)
  BY <1>1 DEF KeysApart
<1>11. Frozen
  BY <1>1, <1>4, <1>8, <1>10, NoneIsNothing DEF Frozen
<1>12. Conversions
  <2> SUFFICES ASSUME NEW t \in Names, Exists(t), tables'[t] # None
               PROVE  tables'[t].columns = tables[t].columns
    BY DEF Conversions
  <2> QED BY <1>1, <1>4, <1>8, <1>9
<1>13. ASSUME NEW s \in Names, Exists(s)', NEW o \in tables'[s].objects,
              o.target # None, o.action \in Rewriting
       PROVE  s \notin Checked /\ o.target \notin Checked
  <2>1. PICK q \in Names : /\ Exists(q) /\ o \in {target(p) : p \in tables[q].objects}
                           /\ q = s \/ (q = r.table /\ s = r.to)
    <3>1. CASE s = r.to
      BY <1>1, <1>4, <1>9, <1>13, <3>1
    <3>2. CASE s # r.to
      <4>1. s # r.table /\ Exists(s)
        BY <1>5, <1>8, <1>9, <1>13, <3>2 DEF Exists
      <4> QED BY <1>4, <1>8, <1>13, <3>2, <4>1
    <3> QED BY <3>1, <3>2
  <2>2. PICK p \in tables[q].objects : o = target(p)
    BY <2>1
  <2>3. /\ p.target # None /\ p.action \in Rewriting
        /\ o.target \in {r.to, p.target}
    BY <1>1, <1>3, <1>6, <1>13, <2>1, <2>2, NoneIsNothing
  <2>4. q \notin Checked /\ p.target \notin Checked
    BY <2>1, <2>3 DEF KeysApart
  <2> QED BY <1>1, <2>1, <2>3, <2>4 DEF Checked
<1> QED
  <2>1. \A s \in exposed' : Exists(s)'
    BY <1>1, <1>4, <1>8, <1>10, NoneIsNothing DEF Exists
  <2>2. Checked' = Checked
    BY <1>1 DEF Checked, Settles
  <2> QED BY <1>1, <1>7, <1>11, <1>12, <1>13, <2>1, <2>2 DEF KeysApart

LEMMA ExposureKeeps ==
  ASSUME tables \in Catalogue, exposed \subseteq Names, KeysApart,
         NEW r \in Command, Expose(r) \/ Unexpose(r), Settles
  PROVE  /\ tables' = tables /\ exposed' \subseteq Names
         /\ KeysApart' /\ Frozen /\ Conversions
<1>1. r.table \in Names /\ tables' = tables
  BY DEF Expose, Unexpose, Command
<1>2. Frozen /\ Conversions
  BY <1>1 DEF Frozen, Conversions, Exists
<1>3. CASE Expose(r)
  <2>1. exposed' = exposed \cup {r.table} /\ Exists(r.table) /\ ~Cascades(r.table)
    BY <1>3 DEF Expose, MayBeExposed
  <2>2. ASSUME NEW s \in Names, Exists(s), NEW o \in tables[s].objects,
               o.target # None, o.action \in Rewriting
        PROVE  s # r.table /\ o.target # r.table
    BY <1>1, <2>1, <2>2 DEF Cascades, ForeignKeys, Objects
  <2>3. Checked' \subseteq Checked \cup {r.table}
    BY <2>1 DEF Checked, Settles
  <2> QED BY <1>1, <1>2, <2>1, <2>2, <2>3 DEF KeysApart, Exists
<1>4. CASE Unexpose(r)
  <2>1. exposed' \subseteq exposed /\ Checked' \subseteq Checked
    BY <1>4 DEF Unexpose, Checked, Settles
  <2> QED BY <1>1, <1>2, <2>1 DEF KeysApart, Exists
<1> QED BY <1>1, <1>2, <1>3, <1>4

LEMMA PlanKeeps ==
  ASSUME tables \in Catalogue, exposed \subseteq Names, KeysApart,
         NEW r \in Command, NEW from, Compiled(r, from), RunPlan(r, from), Settles
  PROVE  /\ tables' \in Catalogue /\ exposed' \subseteq Names
         /\ KeysApart' /\ Frozen /\ Conversions
BY EveryPlan, SettingKeeps, RenamingKeeps, ExposureKeeps

-------------------------------------------------------------------------------
(* The calls.                                                              *)

(* A call past its preflight, and a row of the log, hold a conversion of   *)
(* the matrix if they are of a type change.                                *)
CallsCompiled == \A c \in Calls : pc[c] \in {"probe", "ready"} => Compiled(Cmd(c), source[c])

LogCompiled == \A k \in Keys : log[k] # None => Compiled(log[k].command, log[k].source)

IInv == TypeOK /\ KeysApart /\ CallsCompiled /\ LogCompiled

LEMMA InitInv == Init => IInv
<1> SUFFICES ASSUME Init PROVE IInv
  OBVIOUS
<1>1. tables \in Catalogue /\ request \in [Calls -> Request]
  BY DatabasesTyped, RequestsTyped DEF Init
<1>2. TypeOK
  BY <1>1 DEF Init, TypeOK
<1>3. CallsCompiled /\ LogCompiled
  BY DEF Init, CallsCompiled, LogCompiled
<1>4. KeysApart
  <2>1. \A t \in exposed : t \in Names /\ Exists(t)
    BY DEF Init, Verifiable
  <2>2. \A t \in Checked : ~Cascades(t)
    BY DEF Init, Checked
  <2>3. ASSUME NEW s \in Names, Exists(s), NEW o \in tables[s].objects,
               o.target # None, o.action \in Rewriting
        PROVE  Cascades(s) /\ Cascades(o.target)
    BY <2>3 DEF Cascades, ForeignKeys, Objects
  <2> QED BY <2>1, <2>2, <2>3 DEF KeysApart
<1> QED BY <1>2, <1>3, <1>4 DEF IInv

(* A step that leaves the tables and their exposure alone.                 *)
LEMMA QuietStep ==
  ASSUME KeysApart, UNCHANGED <<tables, exposed, unchecked>>
  PROVE  KeysApart' /\ Frozen /\ Conversions
BY DEF KeysApart, Checked, Frozen, Conversions, Exists

(* A call that moves on or ends, with what it has compiled.                *)
LEMMA CallStep ==
  ASSUME IInv, NEW c \in Calls, request' = request,
         pc' = [pc EXCEPT ![c] = pc'[c]], source' = [source EXCEPT ![c] = source'[c]],
         pc'[c] \in {"probe", "ready"} => Compiled(Cmd(c), source'[c])
  PROVE  CallsCompiled'
<1> SUFFICES ASSUME NEW d \in Calls, pc'[d] \in {"probe", "ready"}
             PROVE  Compiled(Cmd(d), source'[d])
  BY DEF CallsCompiled, Cmd
<1>1. CASE d = c
  BY <1>1
<1>2. CASE d # c
  <2>1. pc'[d] = pc[d] /\ source'[d] = source[d]
    BY <1>2 DEF IInv, TypeOK
  <2> QED BY <2>1 DEF IInv, CallsCompiled
<1> QED BY <1>1, <1>2

LEMMA RequestTyped ==
  ASSUME TypeOK, NEW c \in Calls
  PROVE  Cmd(c) \in Command /\ Key(c) \in Keys
BY DEF TypeOK, Request, Cmd, Key

(* The preflights of the commands that embed a type make sure of it.       *)
LEMMA PreflightTypes ==
  ASSUME NEW r, Preflight(r), r.kind \in TypedKinds
  PROVE  ColumnType(r) \in Types
<1>1. MaySetDefault(r) \/ MayChangeType(r)
  BY DEF Preflight, TypedKinds, MayCreateTable, MayRenameTable, MayDropTable, MayAddColumn,
     MayRenameColumn, MayDropColumn, MayDropDefault, MayChangeNullability, MayCreateIndex,
     MayDropIndex, MayAddUnique, MayDropConstraint, MayAddForeignKey, MayEnableRls,
     MayDisableRls, MayCreatePolicy, MayRemovePolicy, MayExpose, MayUnexpose
<1> QED BY <1>1 DEF MaySetDefault, MayChangeType, ColumnType

LEMMA StepInv == IInv /\ [Next]_vars => IInv' /\ Frozen /\ Conversions
<1> SUFFICES ASSUME IInv, [Next]_vars PROVE IInv' /\ Frozen /\ Conversions
  OBVIOUS
<1> USE DEF IInv
<1>1. ASSUME NEW c \in Calls, LookUp(c) PROVE IInv' /\ Frozen /\ Conversions
  <2> DEFINE r == Cmd(c)
             ignored == request[c].dryRun /\ r.kind \notin ConstraintKinds \cup {"unexpose"}
             found == IF ignored THEN None ELSE log[Key(c)]
             from == IF r.kind \in TypedKinds THEN found.source ELSE None
  <2>1. UNCHANGED <<durableVars, served, request>>
    BY <1>1 DEF LookUp
  <2>2. r \in Command /\ Key(c) \in Keys
    BY RequestTyped
  <2>3. found \in Recorded \cup {None} /\ (found # None => Compiled(found.command, found.source))
    BY <2>2 DEF TypeOK, LogCompiled
  <2>4. \/ Goto(c, "preflight") /\ UNCHANGED source
        \/ (\E a \in {"refused", "malformed", "conflict"} : Answer(c, a)) /\ UNCHANGED source
        \/ /\ found # None /\ (r.kind \in TypedKinds => found.command.kind = r.kind)
           /\ source' = [source EXCEPT ![c] = from]
           /\ IF Compiles(r, from) THEN Goto(c, "ready") ELSE Answer(c, "refused")
    BY <1>1 DEF LookUp, SourceFromRecord
  <2>5. recorded' \in [Calls -> Recorded \cup {None}]
    BY <1>1, <2>3 DEF LookUp, TypeOK
  <2>6. found # None => from \in Types \cup {None}
    BY <2>3 DEF Recorded
  <2>7. found # None /\ (r.kind \in TypedKinds => found.command.kind = r.kind) /\ Compiles(r, from)
          => Compiled(r, from)
    BY <2>3 DEF Compiled, Compiles, Converts, TypedKinds
  <2> HIDE DEF r, found, from
  <2>8. TypeOK'
    BY <2>1, <2>4, <2>5, <2>6 DEF TypeOK, durableVars, Goto, Answer
  <2>9. CallsCompiled'
    <3>1. /\ pc' = [pc EXCEPT ![c] = pc'[c]]
          /\ source' = [source EXCEPT ![c] = source'[c]]
          /\ pc'[c] \in {"probe", "ready"} => Compiled(r, source'[c])
      BY <2>4, <2>7 DEF Goto, Answer, TypeOK
    <3> QED BY <2>1, <3>1, CallStep DEF r
  <2> QED BY <2>1, <2>8, <2>9, QuietStep DEF durableVars, LogCompiled
<1>2. ASSUME NEW c \in Calls, PreflightCommand(c) PROVE IInv' /\ Frozen /\ Conversions
  <2> DEFINE r == Cmd(c)
             from == IF r.kind \in TypedKinds THEN ColumnType(r) ELSE None
  <2>1. UNCHANGED <<durableVars, served, request, recorded>>
    BY <1>2 DEF PreflightCommand
  <2>2. \/ /\ Preflight(r) /\ Compiles(r, from)
           /\ (\E point \in {"probe", "ready"} : Goto(c, point))
           /\ source' = [source EXCEPT ![c] = from]
        \/ Answer(c, "refused") /\ UNCHANGED source
    BY <1>2 DEF PreflightCommand
  <2>3. Preflight(r) => (r.kind \in TypedKinds => ColumnType(r) \in Types)
    BY PreflightTypes
  <2>4. Preflight(r) /\ Compiles(r, from) => from \in Types \cup {None} /\ Compiled(r, from)
    BY <2>3 DEF Compiled, Compiles, Converts, TypedKinds
  <2> HIDE DEF r, from
  <2>5. TypeOK'
    BY <2>1, <2>2, <2>4 DEF TypeOK, durableVars, Goto, Answer
  <2>6. CallsCompiled'
    <3>1. /\ pc' = [pc EXCEPT ![c] = pc'[c]]
          /\ source' = [source EXCEPT ![c] = source'[c]]
          /\ pc'[c] \in {"probe", "ready"} => Compiled(r, source'[c])
      BY <2>2, <2>4 DEF Goto, Answer, TypeOK
    <3> QED BY <2>1, <3>1, CallStep DEF r
  <2> QED BY <2>1, <2>5, <2>6, QuietStep DEF durableVars, LogCompiled
<1>3. ASSUME NEW c \in Calls, Probe(c) PROVE IInv' /\ Frozen /\ Conversions
  <2>1. /\ UNCHANGED <<durableVars, served, request, recorded, source>>
        /\ pc[c] = "probe"
        /\ Goto(c, "ready") \/ Answer(c, "refused")
    BY <1>3 DEF Probe
  <2>2. TypeOK'
    BY <2>1 DEF TypeOK, durableVars, Goto, Answer
  <2>3. CallsCompiled'
    <3>1. /\ pc' = [pc EXCEPT ![c] = pc'[c]]
          /\ source' = [source EXCEPT ![c] = source'[c]]
          /\ Compiled(Cmd(c), source'[c])
      BY <2>1 DEF Goto, Answer, TypeOK, CallsCompiled
    <3> QED BY <2>1, <3>1, CallStep
  <2> QED BY <2>1, <2>2, <2>3, QuietStep DEF durableVars, LogCompiled
<1>4. ASSUME NEW c \in Calls, Execute(c) PROVE IInv' /\ Frozen /\ Conversions
  <2>1. /\ UNCHANGED <<served, request, recorded, source>>
        /\ pc[c] = "ready" /\ pc' = [pc EXCEPT ![c] = "done"]
        /\ \E a \in {"executed", "error"} : answer' = [answer EXCEPT ![c] = a]
        /\ log' = [log EXCEPT ![Key(c)] = Entry(c)]
        /\ RunPlan(Cmd(c), source[c]) /\ Settles
    BY <1>4 DEF Execute, Answer, Settles
  <2>2. Cmd(c) \in Command /\ Key(c) \in Keys /\ Compiled(Cmd(c), source[c])
    BY <2>1, RequestTyped DEF CallsCompiled
  <2>3. /\ tables' \in Catalogue /\ exposed' \subseteq Names
        /\ KeysApart' /\ Frozen /\ Conversions
    BY <2>1, <2>2, PlanKeeps DEF TypeOK
  <2>4. Entry(c) \in Recorded /\ Compiled(Entry(c).command, Entry(c).source)
    BY <2>2 DEF Entry, Recorded, TypeOK
  <2>5. TypeOK'
    BY <2>1, <2>2, <2>3, <2>4 DEF TypeOK, Settles
  <2>6. CallsCompiled'
    <3>1. /\ pc' = [pc EXCEPT ![c] = pc'[c]]
          /\ source' = [source EXCEPT ![c] = source'[c]]
          /\ pc'[c] = "done"
      BY <2>1 DEF TypeOK
    <3> QED BY <2>1, <3>1, CallStep
  <2>7. LogCompiled'
    BY <2>1, <2>2, <2>4 DEF LogCompiled, TypeOK
  <2> QED BY <2>3, <2>5, <2>6, <2>7
<1>5. ASSUME NEW c \in Calls, ExecuteDryRun(c) \/ FoundInLog(c) \/ Fail(c)
      PROVE  IInv' /\ Frozen /\ Conversions
  <2>1. /\ UNCHANGED <<durableVars, served, request, recorded, source>>
        /\ pc' = [pc EXCEPT ![c] = "done"]
        /\ \E a \in {"dryRun", "replayed", "conflict", "error"} : answer' = [answer EXCEPT ![c] = a]
    BY <1>5 DEF ExecuteDryRun, FoundInLog, Fail, Answer
  <2>2. TypeOK'
    BY <2>1 DEF TypeOK, durableVars
  <2>3. CallsCompiled'
    <3>1. /\ pc' = [pc EXCEPT ![c] = pc'[c]]
          /\ source' = [source EXCEPT ![c] = source'[c]]
          /\ pc'[c] = "done"
      BY <2>1 DEF TypeOK
    <3> QED BY <2>1, <3>1, CallStep
  <2> QED BY <2>1, <2>2, <2>3, QuietStep DEF durableVars, LogCompiled
<1>6. CASE Refresh
  <2>1. UNCHANGED <<durableVars, request, callVars>> /\ served' = exposed
    BY <1>6 DEF Refresh
  <2>2. TypeOK' /\ CallsCompiled' /\ LogCompiled'
    BY <2>1 DEF TypeOK, CallsCompiled, LogCompiled, Cmd, durableVars, callVars
  <2> QED BY <2>1, <2>2, QuietStep DEF durableVars
<1>7. CASE UNCHANGED vars
  <2>1. TypeOK' /\ CallsCompiled' /\ LogCompiled'
    BY <1>7 DEF TypeOK, CallsCompiled, LogCompiled, Cmd, durableVars, callVars, vars
  <2> QED BY <1>7, <2>1, QuietStep DEF durableVars, vars
<1> QED BY <1>1, <1>2, <1>3, <1>4, <1>5, <1>6, <1>7 DEF Next, Done

LEMMA CommandsInv == Spec => []IInv
BY InitInv, StepInv, PTL DEF Spec

-------------------------------------------------------------------------------
(* Every variable keeps its type, whatever the calls ask: the preflight    *)
(* compiles no type that the matrix does not know.                         *)
THEOREM CommandsTypeCorrect == Spec => []TypeOK
<1>1. IInv => TypeOK
  BY DEF IInv
<1> QED BY <1>1, CommandsInv, PTL

(* From any catalogue and any import, no exposed table comes by a foreign  *)
(* key that rewrites rows but the imported ones that had one: expose looks *)
(* for one at either end, addForeignKey guards both, and every other plan  *)
(* keeps the keys there are or touches no exposed table.                   *)
THEOREM NoRewritingKeyAtExposed == Spec => []NoCascadeAtExposed
<1>1. IInv => NoCascadeAtExposed
  BY ApartMeansNoCascade DEF IInv, TypeOK
<1> QED BY <1>1, CommandsInv, PTL

(* Whatever preflights saw, the guards in the plans keep the columns and   *)
(* the row security of an exposed table.                                   *)
THEOREM ExposedTablesAreFrozen == Spec => ExposedIsFrozen
<1>1. IInv /\ [Next]_vars =>
        [\A t \in exposed \cap exposed' :
           /\ Exists(t) => tables'[t] # None
           /\ Exists(t) => tables'[t].columns = tables[t].columns
           /\ Exists(t) => (tables[t].forced => tables'[t].forced)]_vars
  BY StepInv DEF Frozen
<1> QED BY <1>1, CommandsInv, PTL DEF Spec, ExposedIsFrozen

(* A column's type changes along the matrix only, from the type it has     *)
(* when the statement runs: compiled under a preflight or from the record  *)
(* of the key, and asserted under the lock.                                *)
THEOREM ConversionsAreSafe == Spec => SafeConversionsOnly
<1>1. IInv /\ [Next]_vars =>
        [\A t \in Names : Exists(t) /\ tables'[t] # None =>
           \A col \in Columns :
             LET from == tables[t].columns[col]
                 to == tables'[t].columns[col]
             IN from # None /\ to # None /\ from.type # to.type
                  => from.type \in Types /\ to.type \in SafeTargets[from.type]]_vars
  BY StepInv DEF Conversions
<1> QED BY <1>1, CommandsInv, PTL DEF Spec, SafeConversionsOnly

-------------------------------------------------------------------------------
(* Replays and confirmations.                                              *)

(* A source type is there for the commands that embed one.                 *)
SourceFits(command, from) == command.kind \notin TypedKinds => from = None

(* The log holds what passed the first checks, and keeps what a call found *)
(* in it.                                                                  *)
LogInv ==
  /\ \A k \in Keys : log[k] # None =>
       WellFormed(log[k].command) /\ SourceFits(log[k].command, log[k].source)
  /\ \A c \in Calls : recorded[c] # None => log[Key(c)] = recorded[c]

(* A call on its way, past the first checks: one that found no record has  *)
(* passed the confirmation, one that found its own command will find it    *)
(* again.                                                                  *)
Underway(c) ==
  /\ answer[c] = "none"
  /\ WellFormed(Cmd(c)) /\ SourceFits(Cmd(c), source[c])
  /\ pc[c] \in {"preflight", "probe"} => recorded[c] = None
  /\ pc[c] \in {"probe", "ready"} => Confirmed(c) \/ recorded[c] # None
  /\ pc[c] = "ready" /\ recorded[c] # None /\ recorded[c].command = Cmd(c)
       => recorded[c].source = source[c]

(* What a call that has found a record may be answered.                    *)
Answerable(c, a) ==
  recorded[c] # None /\ ~request[c].dryRun =>
    \/ a \in {"none", "error"}
    \/ recorded[c].command = Cmd(c) /\ a = "replayed"
    \/ recorded[c].command # Cmd(c) /\ a \in {"conflict", "malformed", "refused"}

CallInv(c) ==
  /\ pc[c] = "idle" => recorded[c] = None /\ source[c] = None /\ answer[c] = "none"
  /\ pc[c] \in {"preflight", "probe", "ready"} => Underway(c)
  /\ Answerable(c, answer[c])

ReplayInv == LogInv /\ \A c \in Calls : CallInv(c)

(* One call moves and the log stays.                                       *)
LEMMA OneCall ==
  ASSUME ReplayInv, NEW c \in Calls, UNCHANGED <<log, request>>,
         \A d \in Calls \ {c} : /\ pc'[d] = pc[d] /\ recorded'[d] = recorded[d]
                                /\ source'[d] = source[d] /\ answer'[d] = answer[d],
         recorded'[c] # None => log[Key(c)] = recorded'[c],
         CallInv(c)'
  PROVE  ReplayInv'
<1>1. request' = request /\ log' = log
  OBVIOUS
<1>2. LogInv'
  BY <1>1 DEF ReplayInv, LogInv, Key
<1>3. ASSUME NEW d \in Calls, d # c PROVE CallInv(d)'
  <2>1. CallInv(d) /\ pc'[d] = pc[d] /\ recorded'[d] = recorded[d]
        /\ source'[d] = source[d] /\ answer'[d] = answer[d]
    BY <1>3 DEF ReplayInv
  <2> QED BY <1>1, <2>1 DEF CallInv, Answerable, Underway, Cmd, Confirmed
<1> QED BY <1>2, <1>3 DEF ReplayInv

(* A call that moves on or ends, in its functions.                         *)
LEMMA CallMoves ==
  ASSUME TypeOK, NEW c \in Calls
  PROVE  /\ \A p : Goto(c, p) => /\ pc'[c] = p /\ answer'[c] = answer[c]
                                 /\ \A d \in Calls \ {c} : pc'[d] = pc[d] /\ answer'[d] = answer[d]
         /\ \A a : Answer(c, a) => /\ pc'[c] = "done" /\ answer'[c] = a
                                   /\ \A d \in Calls \ {c} : pc'[d] = pc[d] /\ answer'[d] = answer[d]
BY DEF TypeOK, Goto, Answer

(* The lookup: a call that finds its own command goes on to replay it.     *)
LEMMA LookUpKeepsReplay ==
  ASSUME IInv, ReplayInv, NEW c \in Calls, LookUp(c)
  PROVE  ReplayInv'
<1>0. PICK r : r = Cmd(c)
  OBVIOUS
<1> DEFINE ignored == request[c].dryRun /\ r.kind \notin ConstraintKinds \cup {"unexpose"}
           looked == IF ignored THEN None ELSE log[Key(c)]
<1>1. r \in Command /\ Key(c) \in Keys /\ TypeOK /\ CallInv(c) /\ pc[c] = "idle"
  BY <1>0, RequestTyped DEF IInv, ReplayInv, LookUp
<1>2. PICK found \in Recorded \cup {None} : found = looked
  BY <1>1 DEF TypeOK
<1>3. PICK from : from = IF r.kind \in TypedKinds THEN found.source ELSE None
  OBVIOUS
<1>4. /\ UNCHANGED <<log, request>> /\ recorded' = [recorded EXCEPT ![c] = found]
      /\ \/ ~WellFormed(r) /\ Answer(c, "refused") /\ UNCHANGED source
         \/ WellFormed(r) /\ found = None /\ Goto(c, "preflight") /\ UNCHANGED source
         \/ /\ found # None /\ found.command # r
            /\ (\E a \in {"malformed", "conflict"} : Answer(c, a)) /\ UNCHANGED source
         \/ /\ WellFormed(r) /\ found # None
            /\ IF Compiles(r, from) THEN Goto(c, "ready") ELSE Answer(c, "refused")
            /\ source' = [source EXCEPT ![c] = from]
  BY <1>0, <1>2, <1>3 DEF LookUp, SourceFromRecord, durableVars
<1>5. found # None => /\ log[Key(c)] = found
                      /\ WellFormed(found.command) /\ SourceFits(found.command, found.source)
                      /\ Compiled(found.command, found.source)
  BY <1>1, <1>2 DEF ReplayInv, LogInv, IInv, LogCompiled
<1> HIDE DEF looked, ignored
<1>6. /\ recorded'[c] = found /\ request' = request
      /\ \A d \in Calls \ {c} : recorded'[d] = recorded[d]
  BY <1>1, <1>4 DEF TypeOK
<1>7. recorded[c] = None /\ source[c] = None /\ answer[c] = "none"
  BY <1>1 DEF CallInv
<1>8. ASSUME \A d \in Calls \ {c} : /\ pc'[d] = pc[d] /\ source'[d] = source[d]
                                    /\ answer'[d] = answer[d],
             CallInv(c)'
      PROVE  ReplayInv'
  BY <1>4, <1>5, <1>6, <1>8, OneCall
<1>9. CASE ~WellFormed(r) /\ Answer(c, "refused") /\ UNCHANGED source
  <2>1. /\ pc'[c] = "done" /\ answer'[c] = "refused"
        /\ \A d \in Calls \ {c} : pc'[d] = pc[d] /\ answer'[d] = answer[d]
    BY <1>1, <1>9, CallMoves
  <2>2. found = None \/ found.command # r
    BY <1>5, <1>9
  <2>3. CallInv(c)'
    BY <1>0, <1>6, <2>1, <2>2 DEF CallInv, Answerable, Cmd
  <2> QED BY <1>8, <1>9, <2>1, <2>3
<1>10. CASE WellFormed(r) /\ found = None /\ Goto(c, "preflight") /\ UNCHANGED source
  <2>1. /\ pc'[c] = "preflight" /\ answer'[c] = "none" /\ source'[c] = None
        /\ \A d \in Calls \ {c} : pc'[d] = pc[d] /\ answer'[d] = answer[d]
    BY <1>1, <1>7, <1>10, CallMoves
  <2>2. CallInv(c)'
    BY <1>0, <1>6, <1>10, <2>1 DEF CallInv, Answerable, Underway, SourceFits, Cmd, Confirmed
  <2> QED BY <1>8, <1>10, <2>1, <2>2
<1>11. CASE /\ found # None /\ found.command # r
            /\ (\E a \in {"malformed", "conflict"} : Answer(c, a)) /\ UNCHANGED source
  <2>1. /\ pc'[c] = "done" /\ answer'[c] \in {"malformed", "conflict"}
        /\ \A d \in Calls \ {c} : pc'[d] = pc[d] /\ answer'[d] = answer[d]
    BY <1>1, <1>11, CallMoves
  <2>2. CallInv(c)'
    BY <1>0, <1>6, <1>11, <2>1 DEF CallInv, Answerable, Cmd
  <2> QED BY <1>8, <1>11, <2>1, <2>2
<1>12. CASE /\ WellFormed(r) /\ found # None
            /\ IF Compiles(r, from) THEN Goto(c, "ready") ELSE Answer(c, "refused")
            /\ source' = [source EXCEPT ![c] = from]
  <2>1. source'[c] = from /\ \A d \in Calls \ {c} : source'[d] = source[d]
    BY <1>1, <1>12 DEF TypeOK
  <2>2. found.command = r => from = found.source /\ Compiles(r, from)
    BY <1>3, <1>5, <1>12 DEF SourceFits, Compiled, Compiles, Converts, TypedKinds
  <2>3. SourceFits(r, from)
    BY <1>3 DEF SourceFits
  <2>4. CASE Compiles(r, from)
    <3>1. /\ pc'[c] = "ready" /\ answer'[c] = "none"
          /\ \A d \in Calls \ {c} : pc'[d] = pc[d] /\ answer'[d] = answer[d]
      BY <1>1, <1>7, <1>12, <2>4, CallMoves
    <3>2. CallInv(c)'
      BY <1>0, <1>6, <1>12, <2>1, <2>2, <2>3, <3>1 DEF CallInv, Answerable, Underway, Cmd, Confirmed
    <3> QED BY <1>8, <2>1, <3>1, <3>2
  <2>5. CASE ~Compiles(r, from)
    <3>1. /\ pc'[c] = "done" /\ answer'[c] = "refused"
          /\ \A d \in Calls \ {c} : pc'[d] = pc[d] /\ answer'[d] = answer[d]
      BY <1>1, <1>12, <2>5, CallMoves
    <3>2. CallInv(c)'
      BY <1>0, <1>6, <2>2, <2>5, <3>1 DEF CallInv, Answerable, Cmd
    <3> QED BY <1>8, <2>1, <3>1, <3>2
  <2> QED BY <2>4, <2>5
<1> QED BY <1>4, <1>9, <1>10, <1>11, <1>12

(* The other steps of a call leave its record and the log alone.           *)
LEMMA OwnStep ==
  ASSUME IInv, ReplayInv, NEW c \in Calls, UNCHANGED <<log, request, recorded>>,
         \A d \in Calls \ {c} : pc'[d] = pc[d] /\ source'[d] = source[d] /\ answer'[d] = answer[d],
         CallInv(c)'
  PROVE  ReplayInv'
BY OneCall DEF ReplayInv, LogInv

LEMMA PreflightKeepsReplay ==
  ASSUME IInv, ReplayInv, NEW c \in Calls, PreflightCommand(c)
  PROVE  ReplayInv'
<1>0. PICK r : r = Cmd(c)
  OBVIOUS
<1>1. PICK from : from = IF r.kind \in TypedKinds THEN ColumnType(r) ELSE None
  OBVIOUS
<1>2. /\ UNCHANGED <<log, request, recorded>> /\ pc[c] = "preflight"
      /\ \/ /\ Confirmed(c) /\ (\E point \in {"probe", "ready"} : Goto(c, point))
            /\ source' = [source EXCEPT ![c] = from]
         \/ Answer(c, "refused") /\ UNCHANGED source
  BY <1>0, <1>1 DEF PreflightCommand, durableVars
<1>3. /\ TypeOK /\ CallInv(c) /\ Underway(c) /\ recorded[c] = None /\ recorded'[c] = None
      /\ request' = request
  BY <1>2 DEF IInv, ReplayInv, CallInv, Underway
<1>4. SourceFits(r, from)
  BY <1>1 DEF SourceFits
<1>5. WellFormed(r) /\ answer[c] = "none"
  BY <1>0, <1>3 DEF Underway
<1>6. CASE /\ Confirmed(c) /\ (\E point \in {"probe", "ready"} : Goto(c, point))
           /\ source' = [source EXCEPT ![c] = from]
  <2>1. /\ pc'[c] \in {"probe", "ready"} /\ answer'[c] = "none" /\ source'[c] = from
        /\ \A d \in Calls \ {c} : pc'[d] = pc[d] /\ answer'[d] = answer[d] /\ source'[d] = source[d]
    BY <1>3, <1>5, <1>6, CallMoves DEF TypeOK
  <2>2. CallInv(c)'
    BY <1>0, <1>3, <1>4, <1>5, <1>6, <2>1 DEF CallInv, Answerable, Underway, Cmd, Confirmed
  <2> QED BY <1>2, <2>1, <2>2, OwnStep
<1>7. CASE Answer(c, "refused") /\ UNCHANGED source
  <2>1. pc'[c] = "done" /\ \A d \in Calls \ {c} : pc'[d] = pc[d] /\ answer'[d] = answer[d]
    BY <1>3, <1>7, CallMoves
  <2>2. CallInv(c)'
    BY <1>3, <2>1 DEF CallInv, Answerable, Cmd
  <2> QED BY <1>2, <1>7, <2>1, <2>2, OwnStep
<1> QED BY <1>2, <1>6, <1>7

LEMMA ProbeKeepsReplay ==
  ASSUME IInv, ReplayInv, NEW c \in Calls, Probe(c)
  PROVE  ReplayInv'
<1>1. /\ UNCHANGED <<log, request, recorded, source>> /\ pc[c] = "probe"
      /\ Goto(c, "ready") \/ Answer(c, "refused")
  BY DEF Probe, durableVars
<1>2. /\ TypeOK /\ Underway(c) /\ recorded[c] = None
      /\ request' = request
  BY <1>1 DEF IInv, ReplayInv, CallInv, Underway
<1>3. CASE Goto(c, "ready")
  <2>1. /\ pc'[c] = "ready" /\ answer'[c] = answer[c]
        /\ \A d \in Calls \ {c} : pc'[d] = pc[d] /\ answer'[d] = answer[d]
    BY <1>2, <1>3, CallMoves
  <2>2. CallInv(c)'
    BY <1>1, <1>2, <2>1 DEF CallInv, Answerable, Underway, Cmd, Confirmed
  <2> QED BY <1>1, <2>1, <2>2, OwnStep
<1>4. CASE Answer(c, "refused")
  <2>1. pc'[c] = "done" /\ \A d \in Calls \ {c} : pc'[d] = pc[d] /\ answer'[d] = answer[d]
    BY <1>2, <1>4, CallMoves
  <2>2. CallInv(c)'
    BY <1>1, <1>2, <2>1 DEF CallInv, Answerable, Cmd
  <2> QED BY <1>1, <2>1, <2>2, OwnStep
<1> QED BY <1>1, <1>3, <1>4

(* A call ends, with an answer that fits the record it found.              *)
LEMMA EndKeepsReplay ==
  ASSUME IInv, ReplayInv, NEW c \in Calls, UNCHANGED <<log, request, recorded, source>>,
         NEW a, Answer(c, a), Answerable(c, a)
  PROVE  ReplayInv'
<1>1. /\ pc'[c] = "done" /\ answer'[c] = a
      /\ \A d \in Calls \ {c} : pc'[d] = pc[d] /\ answer'[d] = answer[d]
  BY CallMoves DEF IInv
<1>2. CallInv(c)'
  BY <1>1 DEF CallInv, Answerable, Cmd
<1> QED BY <1>1, <1>2, OwnStep

LEMMA FoundKeepsReplay ==
  ASSUME IInv, ReplayInv, NEW c \in Calls, FoundInLog(c)
  PROVE  ReplayInv'
<1>1. /\ UNCHANGED <<log, request, recorded, source>> /\ pc[c] = "ready"
      /\ Answer(c, IF log[Key(c)] = Entry(c) THEN "replayed" ELSE "conflict")
  BY DEF FoundInLog, durableVars
<1>2. recorded[c] # None => (recorded[c].command = Cmd(c) <=> log[Key(c)] = Entry(c))
  <2> SUFFICES ASSUME recorded[c] # None
               PROVE  recorded[c].command = Cmd(c) <=> log[Key(c)] = Entry(c)
    OBVIOUS
  <2>1. recorded[c] \in Recorded /\ log[Key(c)] = recorded[c]
    BY DEF IInv, TypeOK, ReplayInv, LogInv
  <2>2. recorded[c].command = Cmd(c) => recorded[c].source = source[c]
    BY <1>1 DEF ReplayInv, CallInv, Underway
  <2> QED BY <2>1, <2>2 DEF Entry, Recorded
<1> QED BY <1>1, <1>2, EndKeepsReplay DEF Answerable

(* A command is recorded under a key nobody has found a record under.      *)
LEMMA ExecuteKeepsReplay ==
  ASSUME IInv, ReplayInv, NEW c \in Calls, Execute(c)
  PROVE  ReplayInv'
<1>1. /\ UNCHANGED <<request, recorded, source>> /\ pc[c] = "ready" /\ log[Key(c)] = None
      /\ log' = [log EXCEPT ![Key(c)] = Entry(c)]
      /\ \E a \in {"executed", "error"} : Answer(c, a)
  BY DEF Execute
<1>2. TypeOK /\ Key(c) \in Keys /\ Underway(c)
  BY <1>1, RequestTyped DEF IInv, ReplayInv, CallInv
<1>3. request' = request /\ recorded' = recorded /\ source' = source
  BY <1>1
<1>4. recorded[c] = None
  BY <1>1 DEF ReplayInv, LogInv
<1>5. /\ pc'[c] = "done"
      /\ \A d \in Calls \ {c} : pc'[d] = pc[d] /\ answer'[d] = answer[d]
  BY <1>1, <1>2, CallMoves
<1>6. Entry(c).command = Cmd(c) /\ Entry(c).source = source[c]
  BY DEF Entry
<1>7. log'[Key(c)] = Entry(c) /\ \A k \in Keys \ {Key(c)} : log'[k] = log[k]
  BY <1>1, <1>2 DEF TypeOK
<1>8. \A k \in Keys : log'[k] # None =>
        WellFormed(log'[k].command) /\ SourceFits(log'[k].command, log'[k].source)
  BY <1>2, <1>6, <1>7 DEF ReplayInv, LogInv, Underway
<1>9. ASSUME NEW d \in Calls, recorded[d] # None PROVE log'[Key(d)] = recorded[d]
  <2>1. log[Key(d)] = recorded[d] /\ Key(d) \in Keys
    BY <1>2, <1>9, RequestTyped DEF ReplayInv, LogInv
  <2> QED BY <1>1, <1>7, <1>9, <2>1
<1>10. LogInv'
  BY <1>3, <1>8, <1>9 DEF LogInv, Key
<1>11. CallInv(c)'
  BY <1>3, <1>4, <1>5 DEF CallInv, Answerable, Cmd
<1>12. ASSUME NEW d \in Calls, d # c PROVE CallInv(d)'
  <2>1. CallInv(d) /\ pc'[d] = pc[d] /\ answer'[d] = answer[d]
    BY <1>5, <1>12 DEF ReplayInv
  <2> QED BY <1>3, <2>1 DEF CallInv, Answerable, Underway, Cmd, Confirmed
<1> QED BY <1>10, <1>11, <1>12 DEF ReplayInv

LEMMA ReplaysHold == Spec => []ReplayInv
<1>1. Init => ReplayInv
  BY DEF Init, ReplayInv, LogInv, CallInv, Answerable
<1>2. IInv /\ ReplayInv /\ [Next]_vars => ReplayInv'
  <2> SUFFICES ASSUME IInv, ReplayInv, [Next]_vars PROVE ReplayInv'
    OBVIOUS
  <2>1. ASSUME NEW c \in Calls, ExecuteDryRun(c) PROVE ReplayInv'
    BY <2>1, EndKeepsReplay DEF ExecuteDryRun, Answerable, durableVars
  <2>2. ASSUME NEW c \in Calls, Fail(c) PROVE ReplayInv'
    BY <2>2, EndKeepsReplay DEF Fail, Answerable, durableVars
  <2>3. CASE UNCHANGED <<log, request, callVars>>
    BY <2>3 DEF callVars, ReplayInv, LogInv, CallInv, Answerable, Underway, Key, Cmd, Confirmed
  <2>4. CASE Refresh \/ UNCHANGED vars
    BY <2>3, <2>4 DEF Refresh, vars, durableVars
  <2> QED BY <2>1, <2>2, <2>4, LookUpKeepsReplay, PreflightKeepsReplay, ProbeKeepsReplay,
             FoundKeepsReplay, ExecuteKeepsReplay DEF Next, Done
<1> QED BY <1>1, <1>2, CommandsInv, PTL DEF Spec

(* A command sent again once its key is on record is replayed, whatever    *)
(* became of the catalogue since: it compiles as it did, and the executor  *)
(* compares equal what was recorded (D-025).                               *)
THEOREM RetriesAreReplayed == Spec => []RetryIsReplayed
<1>1. ReplayInv => RetryIsReplayed
  BY DEF ReplayInv, CallInv, Answerable, RetryIsReplayed
<1> QED BY <1>1, ReplaysHold, PTL

(* A key found on record for another command runs nothing and replays      *)
(* nothing: what the lookup lets past, the executor finds unlike its own.  *)
THEOREM ReusedKeysConflict == Spec => []ReusedKeysAreRefused
<1>1. ReplayInv => ReusedKeysAreRefused
  BY DEF ReplayInv, CallInv, Answerable, ReusedKeysAreRefused
<1> QED BY <1>1, ReplaysHold, PTL

(* Nothing is dropped and no row security is disabled without the exact    *)
(* confirmation: whatever skipped the preflight had found a record, and    *)
(* what has a record is not run.                                           *)
THEOREM DropsAreConfirmed == Spec => OnlyConfirmedDrops
<1>1. IInv /\ ReplayInv /\ [Next]_vars =>
        [\A c \in Calls :
           /\ pc[c] = "ready" /\ pc'[c] = "done"
           /\ Cmd(c).kind \in Destructive
           /\ tables' # tables
           => request[c].confirmed]_vars
  <2> SUFFICES ASSUME IInv, ReplayInv, [Next]_vars, NEW c \in Calls,
                      pc[c] = "ready", pc'[c] = "done", Cmd(c).kind \in Destructive,
                      tables' # tables
               PROVE  request[c].confirmed
    OBVIOUS
  <2>1. PICK d \in Calls : Execute(d)
    BY DEF Next, Done, LookUp, PreflightCommand, Probe, ExecuteDryRun, FoundInLog, Fail, Refresh,
           vars, durableVars
  <2>2. d = c
    BY <2>1 DEF Execute, Answer, IInv, TypeOK
  <2>3. recorded[c] = None
    BY <2>1, <2>2 DEF Execute, ReplayInv, LogInv
  <2>4. Confirmed(c)
    BY <2>3 DEF ReplayInv, CallInv, Underway
  <2> QED BY <2>4 DEF Confirmed
<1> QED BY <1>1, CommandsInv, ReplaysHold, PTL DEF Spec, OnlyConfirmedDrops

-------------------------------------------------------------------------------
(* The tables as the table registry sees them: ManagedTables.              *)

(* What is seen of a table there is.                                       *)
LEMMA Seen ==
  ASSUME tables \in Catalogue, NEW t \in Names
  PROVE  /\ Exists(t) => /\ layout[t] = tables[t].columns /\ layout[t] \in Layouts
                         /\ forced[t] = tables[t].forced
                         /\ templates[t] = TemplatesOf(tables[t])
         /\ ~Exists(t) => layout[t] = None /\ forced[t] = FALSE /\ templates[t] = {}
         /\ Managed!Exists(t) <=> Exists(t)
<1>1. /\ layout[t] = IF Exists(t) THEN tables[t].columns ELSE None
      /\ forced[t] = (Exists(t) /\ tables[t].forced)
      /\ templates[t] = IF Exists(t) THEN TemplatesOf(tables[t]) ELSE {}
  BY DEF layout, forced, templates, TemplatesOf, Exists
<1>2. Exists(t) => tables[t].columns \in Layouts /\ tables[t].forced \in BOOLEAN
  BY TableTyped DEF Table, Layouts
<1>3. layout[t] # None <=> Exists(t)
  BY <1>1, <1>2, NoneIsNothing DEF Layouts
<1> QED BY <1>1, <1>2, <1>3 DEF Managed!Exists

(* A table is replaced: what is seen of the others stays.                  *)
LEMMA SettingSeen ==
  ASSUME tables \in Catalogue, NEW t \in Names, NEW v \in Table \cup {None}, SetTable(t, v)
  PROVE  /\ layout' = [layout EXCEPT ![t] = IF v # None THEN v.columns ELSE None]
         /\ forced' = [forced EXCEPT ![t] = v # None /\ v.forced]
         /\ templates' = [templates EXCEPT ![t] = IF v # None THEN TemplatesOf(v) ELSE {}]
         /\ exposed' = exposed
<1>1. tables'[t] = v /\ (\A u \in Names \ {t} : tables'[u] = tables[u]) /\ exposed' = exposed
  BY DEF SetTable, Catalogue
<1>2. layout' = [layout EXCEPT ![t] = IF v # None THEN v.columns ELSE None]
  BY <1>1 DEF layout, Exists
<1>3. forced' = [forced EXCEPT ![t] = v # None /\ v.forced]
  BY <1>1 DEF forced, Exists
<1>4. templates' = [templates EXCEPT ![t] = IF v # None THEN TemplatesOf(v) ELSE {}]
  BY <1>1 DEF templates, TemplatesOf, Exists
<1> QED BY <1>1, <1>2, <1>3, <1>4

(* Replacing a table is a change of ManagedTables, or not seen there.      *)
LEMMA SettingIsManaged ==
  ASSUME tables \in Catalogue, NEW t \in Names, NEW v \in Table \cup {None}, SetTable(t, v),
         Manageable(t, v)
  PROVE  Managed!TableChange(t) \/ UNCHANGED Managed!tableVars
<1>1. /\ layout' = [layout EXCEPT ![t] = IF v # None THEN v.columns ELSE None]
      /\ forced' = [forced EXCEPT ![t] = v # None /\ v.forced]
      /\ templates' = [templates EXCEPT ![t] = IF v # None THEN TemplatesOf(v) ELSE {}]
      /\ exposed' = exposed
  BY SettingSeen
<1>2. v # None => v.columns \in Layouts /\ v.forced \in BOOLEAN
  BY DEF Table, Layouts
<1>3. layout'[t] = IF v # None THEN v.columns ELSE None
  BY <1>1 DEF layout, Exists
<1>4. /\ [layout EXCEPT ![t] = layout[t]] = layout
      /\ [forced EXCEPT ![t] = forced[t]] = forced
      /\ [templates EXCEPT ![t] = templates[t]] = templates
  BY DEF layout, forced, templates, Exists
<1>5. CASE v = None /\ Exists(t) /\ t \notin exposed
  <2>1. Managed!Drop(t)
    BY <1>1, <1>5, Seen DEF Managed!Drop, Managed!Recreate, Managed!AssertNotExposed
  <2> QED BY <2>1 DEF Managed!TableChange
<1>6. CASE v # None /\ ~Exists(t) /\ ~v.forced /\ v.policies = {}
  <2>1. layout' = [layout EXCEPT ![t] = layout'[t]] /\ layout'[t] \in Layouts
    BY <1>1, <1>2, <1>3, <1>6
  <2>2. forced' = [forced EXCEPT ![t] = FALSE] /\ templates' = [templates EXCEPT ![t] = {}]
    BY <1>1, <1>2, <1>6 DEF TemplatesOf
  <2>3. Managed!Create(t, layout'[t])
    BY <1>1, <1>6, <2>1, <2>2, Seen DEF Managed!Create, Managed!Recreate
  <2> QED BY <2>1, <2>3 DEF Managed!TableChange
<1>7. CASE /\ v # None /\ Exists(t) /\ t \notin exposed
           /\ v.forced = tables[t].forced /\ TemplatesOf(v) = TemplatesOf(tables[t])
  <2>1. layout' = [layout EXCEPT ![t] = layout'[t]] /\ layout'[t] \in Layouts
    BY <1>1, <1>2, <1>3, <1>7
  <2>2. forced' = forced /\ templates' = templates
    BY <1>1, <1>2, <1>4, <1>7, Seen
  <2>3. Managed!Alter(t, layout'[t])
    BY <1>1, <1>7, <2>1, <2>2, Seen DEF Managed!Alter, Managed!AssertNotExposed
  <2> QED BY <2>1, <2>3 DEF Managed!TableChange
<1>8. CASE Unaltered(t, v)
  <2>1. Exists(t) /\ v # None /\ layout' = layout /\ Managed!Exists(t)
    BY <1>1, <1>4, <1>8, Seen DEF Unaltered
  <2>2. ASSUME v.forced \/ t \notin exposed, TemplatesOf(v) = TemplatesOf(tables[t])
        PROVE  Managed!EnableRls(t) \/ Managed!DisableRls(t)
    <3>1. templates' = templates /\ forced' = [forced EXCEPT ![t] = v.forced]
      BY <1>1, <1>2, <1>4, <2>1, <2>2, Seen
    <3>2. CASE v.forced
      BY <1>1, <2>1, <3>1, <3>2 DEF Managed!EnableRls, Managed!SetForced
    <3>3. CASE ~v.forced
      <4>1. v.forced = FALSE
        BY <1>2, <2>1, <3>3
      <4> QED BY <1>1, <2>1, <2>2, <3>1, <4>1
              DEF Managed!DisableRls, Managed!SetForced, Managed!AssertNotExposed
    <3> QED BY <3>2, <3>3
  <2>3. ASSUME v.forced = tables[t].forced
        PROVE  forced' = forced /\ templates' = [templates EXCEPT ![t] = TemplatesOf(v)]
    BY <1>1, <1>2, <1>4, <2>1, <2>3, Seen
  <2>4. ASSUME v.forced = tables[t].forced, TemplatesOf(v) = TemplatesOf(tables[t])
        PROVE  UNCHANGED Managed!tableVars
    BY <1>1, <1>4, <2>1, <2>3, <2>4, Seen DEF Managed!tableVars
  <2>5. ASSUME v.forced = tables[t].forced, NEW p \in Templates,
               TemplatesOf(v) = TemplatesOf(tables[t]) \cup {p}
        PROVE  Managed!AddPolicy(t, p) \/ UNCHANGED Managed!tableVars
    <3>1. CASE p \in templates[t]
      <4>1. TemplatesOf(v) = TemplatesOf(tables[t])
        BY <2>1, <2>5, <3>1, Seen
      <4> QED BY <2>4, <2>5, <4>1
    <3>2. CASE p \notin templates[t]
      <4>1. templates' = [templates EXCEPT ![t] = templates[t] \cup {p}]
        BY <2>1, <2>3, <2>5, Seen
      <4> QED BY <1>1, <2>1, <2>3, <2>5, <3>2, <4>1
              DEF Managed!AddPolicy, Managed!SetPolicies
    <3> QED BY <3>1, <3>2
  <2>6. ASSUME v.forced = tables[t].forced, NEW p \in Templates,
               TemplatesOf(v) = TemplatesOf(tables[t]) \ {p}
        PROVE  Managed!RemovePolicy(t, p) \/ UNCHANGED Managed!tableVars
    <3>1. CASE p \notin templates[t]
      <4>1. TemplatesOf(v) = TemplatesOf(tables[t])
        BY <2>1, <2>6, <3>1, Seen
      <4> QED BY <2>4, <2>6, <4>1
    <3>2. CASE p \in templates[t]
      <4>1. templates' = [templates EXCEPT ![t] = templates[t] \ {p}]
        BY <2>1, <2>3, <2>6, Seen
      <4> QED BY <1>1, <2>1, <2>3, <2>6, <3>2, <4>1
              DEF Managed!RemovePolicy, Managed!SetPolicies
    <3> QED BY <3>1, <3>2
  <2> QED BY <1>8, <2>2, <2>4, <2>5, <2>6 DEF Manageable, Managed!TableChange, Unaltered
<1> QED BY <1>5, <1>6, <1>7, <1>8 DEF Manageable

(* The tables after a rename, but for the keys between them.               *)
LEMMA Renamed ==
  ASSUME tables \in Catalogue, NEW r \in Command, RenameTable(r), NEW u \in Names, NEW old,
         old = IF u = r.to THEN r.table ELSE u
  PROVE  /\ u = r.table \/ ~Exists(old) => tables'[u] = None
         /\ u # r.table /\ Exists(old) =>
              /\ tables'[u] # None
              /\ tables'[u].columns = tables[old].columns
              /\ tables'[u].forced = tables[old].forced
              /\ tables'[u].policies = tables[old].policies
<1> DEFINE target(o) == IF o.target = r.table THEN [o EXCEPT !.target = r.to] ELSE o
           retargeted(t) ==
             IF Exists(t) THEN [tables[t] EXCEPT !.objects = {target(o) : o \in @}] ELSE None
<1>1. r.table \in Names /\ r.to \in Names /\ r.table # r.to
  BY DEF RenameTable, Command, Fits
<1>2. tables' = [t \in Names |-> CASE t = r.table -> None
                                  [] t = r.to    -> retargeted(r.table)
                                  [] OTHER       -> retargeted(t)]
  BY DEF RenameTable
<1>3. tables'[u] = IF u = r.table THEN None ELSE retargeted(old)
  <2> HIDE DEF retargeted
  <2> QED BY <1>1, <1>2
<1>4. ~Exists(old) => retargeted(old) = None
  OBVIOUS
<1>5. ASSUME Exists(old)
      PROVE  /\ retargeted(old) # None
             /\ retargeted(old).columns = tables[old].columns
             /\ retargeted(old).forced = tables[old].forced
             /\ retargeted(old).policies = tables[old].policies
  <2>1. tables[old] \in Table
    BY <1>1, <1>5, TableTyped
  <2>2. \A o \in Object : target(o) \in Object
    BY <1>1 DEF Object
  <2>3. {target(o) : o \in tables[old].objects} \subseteq Object
    BY <2>1, <2>2 DEF Table
  <2>4. retargeted(old) \in Table
    BY <1>5, <2>1, <2>3 DEF Table
  <2>5. retargeted(old) # None
    <3> HIDE DEF retargeted
    <3> QED BY <2>4, NoneIsNothing
  <2> QED BY <1>5, <2>1, <2>5 DEF Table
<1> HIDE DEF retargeted
<1> QED BY <1>3, <1>4, <1>5

(* A rename takes what is seen of the table to its new name.               *)
LEMMA RenamingIsManaged ==
  ASSUME tables \in Catalogue, NEW r \in Command, RenameTable(r)
  PROVE  Managed!TableChange(r.table)
<1> DEFINE t == r.table
           new == r.to
           old(u) == IF u = new THEN t ELSE u
<1>1. /\ t \in Names /\ new \in Names /\ t # new /\ t \notin exposed
      /\ Exists(t) /\ ~Exists(new) /\ exposed' = exposed
  BY DEF RenameTable, AssertNotExposed, Command, Fits
<1>2. \A u \in Names :
        /\ old(u) \in Names
        /\ tables'[u] # None <=> u # t /\ Exists(old(u))
        /\ u # t /\ Exists(old(u)) =>
             /\ tables'[u].columns = tables[old(u)].columns
             /\ tables'[u].forced = tables[old(u)].forced
             /\ tables'[u].policies = tables[old(u)].policies
  BY <1>1, Renamed
<1> HIDE DEF old
<1>3. layout' = [layout EXCEPT ![new] = layout[t], ![t] = None]
  <2>1. \A u \in Names : layout'[u] = IF u = t THEN None ELSE layout[old(u)]
    BY <1>2 DEF layout, Exists
  <2> QED BY <1>1, <2>1 DEF layout, old
<1>4. forced' = [forced EXCEPT ![new] = forced[t], ![t] = FALSE]
  <2>1. \A u \in Names : forced'[u] = IF u = t THEN FALSE ELSE forced[old(u)]
    BY <1>2 DEF forced, Exists
  <2> QED BY <1>1, <2>1 DEF forced, old
<1>5. templates' = [templates EXCEPT ![new] = templates[t], ![t] = {}]
  <2>1. \A u \in Names : templates'[u] = IF u = t THEN {} ELSE templates[old(u)]
    BY <1>2 DEF templates, Exists
  <2> QED BY <1>1, <2>1 DEF templates, old
<1>6. Managed!Rename(t, new)
  BY <1>1, <1>3, <1>4, <1>5, Seen DEF Managed!Rename, Managed!AssertNotExposed
<1> QED BY <1>1, <1>6 DEF Managed!TableChange

(* Exposing is guarded as it is there, and more.                           *)
LEMMA ExposingIsManaged ==
  ASSUME tables \in Catalogue, NEW r \in Command, Expose(r) \/ Unexpose(r)
  PROVE  Managed!TableChange(r.table)
<1>1. r.table \in Names /\ Exists(r.table) /\ UNCHANGED <<layout, forced, templates>>
  BY DEF Command, Expose, MayBeExposed, Unexpose, layout, forced, templates, Exists
<1>2. CASE Expose(r)
  <2>1. PICK p \in tables[r.table].policies : TRUE
    BY <1>2 DEF Expose, MayBeExposed
  <2>2. p.name[3] \in TemplatesOf(tables[r.table]) /\ Managed!Exists(r.table)
    BY <1>1, <2>1, Seen DEF TemplatesOf
  <2>3. Managed!Expose(r.table)
    BY <1>1, <1>2, <2>2, Seen DEF Expose, MayBeExposed, AssertNotExposed, Managed!Expose
  <2> QED BY <1>1, <2>3 DEF Managed!TableChange
<1>3. CASE Unexpose(r)
  <2>1. Managed!Unexpose(r.table)
    BY <1>1, <1>3, Seen DEF Unexpose, Managed!Unexpose
  <2> QED BY <1>1, <2>1 DEF Managed!TableChange
<1> QED BY <1>2, <1>3

(* The commands implement the tables the registry is modelled over: from   *)
(* any catalogue, with any verifiable tables of it imported, every plan is *)
(* a change ManagedTables has, under its guards there, or leaves what it   *)
(* shows as it is.                                                         *)
THEOREM CommandsManageTables == Spec => PlansAreManaged
<1>1. Init => Managed!TablesInit
  <2> SUFFICES ASSUME Init PROVE Managed!TablesInit
    OBVIOUS
  <2>1. /\ tables \in Catalogue /\ exposed \subseteq Names
        /\ \A t \in exposed : Exists(t) /\ tables[t].forced /\ tables[t].policies # {}
    BY DatabasesTyped DEF Init, Verifiable
  <2>2. layout \in [Names -> Layouts \cup {None}]
    BY <2>1, Seen DEF layout
  <2>3. forced \in [Names -> BOOLEAN]
    BY DEF forced
  <2>4. templates \in [Names -> SUBSET Templates]
    <3>1. \A t \in Names : Exists(t) => \A p \in tables[t].policies : p.name[3] \in Templates
      BY <2>1, TableTyped DEF Table, Policy
    <3> QED BY <3>1 DEF templates, Exists
  <2>5. \A t \in Names : forced[t] \/ templates[t] # {} => Managed!Exists(t)
    BY <2>1, Seen
  <2>6. \A t \in exposed : forced[t] /\ templates[t] # {}
    BY <2>1 DEF forced, templates, Exists
  <2> QED BY <2>1, <2>2, <2>3, <2>4, <2>5, <2>6 DEF Managed!TablesInit, Managed!TablesTypeOK
<1>2. IInv /\ [Next]_vars => [\E t \in Names : Managed!TableChange(t)]_Managed!tableVars
  <2> SUFFICES ASSUME IInv, [Next]_vars
               PROVE  (\E t \in Names : Managed!TableChange(t)) \/ UNCHANGED Managed!tableVars
    OBVIOUS
  <2>1. ASSUME NEW c \in Calls, Execute(c)
        PROVE  (\E t \in Names : Managed!TableChange(t)) \/ UNCHANGED Managed!tableVars
    <3>1. /\ tables \in Catalogue /\ Cmd(c) \in Command /\ Cmd(c).table \in Names
          /\ Compiled(Cmd(c), source[c]) /\ RunPlan(Cmd(c), source[c])
      BY <2>1, RequestTyped DEF Execute, IInv, TypeOK, CallsCompiled, Command
    <3>2. CASE SetsTable
      <4>1. PICK t \in Names, v \in Table \cup {None} : Harmless(t, v) /\ SetTable(t, v)
        BY <3>2 DEF SetsTable
      <4> QED BY <3>1, <4>1, SettingIsManaged DEF Harmless
    <3> QED BY <3>1, <3>2, EveryPlan, RenamingIsManaged, ExposingIsManaged
  <2>2. CASE UNCHANGED <<tables, exposed>>
    BY <2>2 DEF Managed!tableVars, layout, forced, templates, Exists
  <2> QED
    BY <2>1, <2>2
    DEF Next, Done, LookUp, PreflightCommand, Probe, ExecuteDryRun, FoundInLog, Fail, Refresh,
        vars, durableVars
<1> QED BY <1>1, <1>2, CommandsInv, PTL DEF Spec, PlansAreManaged, Managed!TablesSpec
===============================================================================
