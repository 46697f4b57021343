--------------------------------- MODULE AdminUi ---------------------------------
(***************************************************************************)
(* The management UI (admin-ui/): one browser page against the admin API.  *)
(*                                                                         *)
(* The page keeps the operator token, two caches of what it has read, the  *)
(* open mutation form and a retry timer.  Every load and every submission  *)
(* is awaited without blocking the page: meanwhile the operator navigates, *)
(* edits, opens other forms, signs out and in again, and answers arrive in *)
(* any order, or never (the client gives up after 15 seconds, while the    *)
(* server may still do what it was asked).                                 *)
(*                                                                         *)
(* The server is abstracted to what its answers depend on: which tables    *)
(* there are, whether they are exposed and row-secured, and which keys are *)
(* on record (SchemaCommands models the commands, SchemaDdlExecutor the    *)
(* record).  What a form holds is one entry: a member of Values, a table   *)
(* name, the exact confirmation, or "invalid".                             *)
(***************************************************************************)
EXTENDS AdminContract, Sequences

CONSTANTS
  Tables,
  Values,         \* what may be typed into a form
  Methods,        \* the forms the operator uses
  Tokens,
  OperatorToken,  \* the token the server accepts
  MaxForms,       \* bound: forms opened
  MaxSent,        \* bound: requests sent
  MaxAwaited,     \* bound: requests awaited at once
  MaxOthers,      \* bound: changes by other clients
  None

ASSUME OperatorTokenAssumption == OperatorToken \in Tokens /\ None \notin Tokens

VARIABLES
  token,          \* token-store.js
  screen,         \* "login" or "app"
  route,          \* the location's hash
  content,        \* what the page shows
  snapshotCache,
  tableCache,
  timer,          \* what the retry timer will load, or None
  forms,          \* the forms opened so far: spec, context and key
  form,           \* the open one (formState and its controls), or None
  requests,       \* requests awaited, and those given up but still running
  sent,           \* how many were sent
  schema,         \* the server: per table its state, or None
  log,            \* the server: the commands on record
  previewed,      \* the server: the dry runs that succeeded
  others          \* how often other clients changed the schema

pageVars == <<token, screen, route, content, snapshotCache, tableCache, timer, forms, form>>
serverVars == <<schema, log, previewed>>
vars == <<pageVars, requests, sent, serverVars, others>>

-------------------------------------------------------------------------------
(* What can be entered in a form (AdminContract has its fields): nothing,  *)
(* the exact confirmation, a name, a value, or something invalid.          *)

Naming == {"createTable", "renameTable"}

Entries(method) ==
  IF method \in Naming THEN Tables \cup {"invalid"}
  ELSE IF method \in Destructive THEN {"exact", "invalid"}
  ELSE IF method \in Fieldless THEN {"none"}
  ELSE IF method = "setColumnDefault" THEN Values \cup {"none", "invalid"}
  ELSE IF method = "addForeignKey" THEN {"plain", "rewriting", "invalid"}
  ELSE Values \cup {"invalid"}

InitialEntry(method) == IF "none" \in Entries(method) THEN "none" ELSE "invalid"

IsValid(f, entry) == entry # "invalid" /\ (f.method = "renameTable" => entry # f.table)

(* What the server's data lane freezes, and so what it refuses.            *)
FrozenWhenExposed ==
  {"renameTable", "dropTable", "addColumn", "disableRls"} \cup PerColumn

-------------------------------------------------------------------------------
(* What a view offers (render.js), from the model it was rendered from.    *)

ExposedActions == {"unexpose"}

StructureActions == {"renameTable", "dropTable", "addColumn", "expose"}

SecurityActions(rls) ==
  {"createPolicy", "removePolicy", IF rls THEN "disableRls" ELSE "enableRls"}

ObjectActions == {"dropIndex", "dropConstraint"}

KeyActions == {"createIndex", "addUniqueConstraint", "addForeignKey"}

(* Faulty variant of ColumnActions: the column rows forget the exposure.   *)
ColumnActionsAlways(model) == PerColumn

ColumnActions(model) == IF model.exposed THEN {} ELSE PerColumn

TableActions(model) ==
  KeyActions \cup
  (IF model.exposed THEN ExposedActions ELSE StructureActions \cup SecurityActions(model.rls))

Offered(view) ==
  CASE view.kind = "schemas" -> {"createTable"}
    [] view.kind = "table" ->
         TableActions(view.model) \cup ColumnActions(view.model) \cup ObjectActions
    [] OTHER -> {}

-------------------------------------------------------------------------------
(* Types.                                                                  *)

TableState == [exposed : BOOLEAN, rls : BOOLEAN]

TableStates == TableState \cup {None}

Routes == [view : {"schemas", "history"}, table : {None}] \cup [view : {"table"}, table : Tables]

ASSUME NoneAssumption ==
  /\ None \notin Tables \cup Values \cup {"none", "exact", "plain", "rewriting", "invalid"}
  /\ None \notin Routes

Schemas == [view |-> "schemas", table |-> None]

Detail(t) == [view |-> "table", table |-> t]

Reading == {"snapshot", "table", "history"}

Mutating == {"dry-run", "apply"}

Answers == {"ok", "401", "404", "429", "refused", "failed"}

View(kind, table, model) == [kind |-> kind, table |-> table, model |-> model]

Notice(kind) == View(kind, None, None)

(* Faulty variant of KeyOf: a new key for every submission.                *)
FreshKeyOf(no) == sent + 1

(* One idempotency key per form opened.                                    *)
KeyOf(no) == no

Awaited(r) == r.phase \in {"sent", "answered"}

-------------------------------------------------------------------------------
(* Requests (api.js).  Without a token nothing is sent: adminFetch answers *)
(* at once, and not with a 401.                                            *)

Request(kind, table, no, entry) ==
  [id |-> sent + 1, kind |-> kind, token |-> token, table |-> table, form |-> no,
   key |-> IF no = 0 THEN 0 ELSE KeyOf(no), entry |-> entry,
   phase |-> "sent", answer |-> None, data |-> None]

(* The bound on what the operator and the timer may start.                 *)
MaySend == sent < MaxSent /\ Cardinality({r \in requests : Awaited(r)}) < MaxAwaited

Send(kind, table, no, entry, rest) ==
  /\ sent' = sent + 1
  /\ requests' = rest \cup {Request(kind, table, no, entry)}

Keep(rest) == requests' = rest /\ UNCHANGED sent

(* loadSchemas, loadTableDetail, loadHistory: shown from the cache, or     *)
(* loading until the answer comes.                                         *)
Load(r, snapshot, cached, rest) ==
  \/ /\ r.view = "schemas" /\ snapshot # None
     /\ content' = Notice("schemas")
     /\ Keep(rest)
  \/ /\ r.view = "table" /\ cached[r.table] # None
     /\ content' = View("table", r.table, cached[r.table])
     /\ Keep(rest)
  \/ /\ ~(r.view = "schemas" /\ snapshot # None)
     /\ ~(r.view = "table" /\ cached[r.table] # None)
     /\ IF token = None
        THEN content' = Notice("error") /\ Keep(rest)
        ELSE /\ content' = Notice("loading")
             /\ Send(IF r.view = "schemas" THEN "snapshot" ELSE r.view, r.table, 0, None, rest)

NoTables == [t \in Tables |-> None]

DropCaches == snapshotCache' = None /\ tableCache' = NoTables

KeepCaches == UNCHANGED <<snapshotCache, tableCache>>

ShowLogin ==
  /\ screen' = "login"
  /\ form' = None
  /\ timer' = None

-------------------------------------------------------------------------------
Init ==
  /\ token = None
  /\ screen = "login"
  /\ route = Schemas
  /\ content = Notice("blank")
  /\ snapshotCache = None
  /\ tableCache = NoTables
  /\ timer = None
  /\ forms = <<>>
  /\ form = None
  /\ requests = {}
  /\ sent = 0
  /\ schema \in [Tables -> TableStates]
  /\ \A t \in Tables : schema[t] # None /\ schema[t].exposed => schema[t].rls
  /\ log = {}
  /\ previewed = {}
  /\ others = 0

-------------------------------------------------------------------------------
(* The operator.                                                           *)

(* The login form stays usable while a probe is awaited.                   *)
SubmitLogin ==
  /\ screen = "login"
  /\ MaySend
  /\ \E k \in Tokens :
       /\ token' = k
       /\ requests' = requests \cup {[Request("probe", None, 0, None) EXCEPT !.token = k]}
  /\ sent' = sent + 1
  /\ UNCHANGED <<screen, route, content, snapshotCache, tableCache, timer, forms, form,
                 serverVars, others>>

SignOut ==
  /\ screen = "app"
  /\ token' = None
  /\ DropCaches
  /\ route' = Schemas
  /\ content' = IF route = Schemas THEN content ELSE Notice("error")
  /\ ShowLogin
  /\ UNCHANGED <<forms, requests, sent, serverVars, others>>

(* hashchange, behind the login form too, and the Retry button of an error. *)
Navigate ==
  /\ MaySend
  /\ \E r \in Routes :
       /\ r # route \/ (screen = "app" /\ content.kind = "error")
       /\ route' = r
       /\ timer' = None
       /\ form' = None
       /\ Load(r, snapshotCache, tableCache, requests)
  /\ UNCHANGED <<token, screen, snapshotCache, tableCache, forms, serverVars, others>>

(* Previous and Next.                                                      *)
Page ==
  /\ screen = "app"
  /\ content.kind = "history"
  /\ MaySend
  /\ Load([view |-> "history", table |-> None], snapshotCache, tableCache, requests)
  /\ UNCHANGED <<token, screen, route, snapshotCache, tableCache, timer, forms, form, serverVars,
                 others>>

TimerFires ==
  /\ timer # None
  /\ MaySend
  /\ timer' = None
  /\ Load(timer, snapshotCache, tableCache, requests)
  /\ UNCHANGED <<token, screen, route, snapshotCache, tableCache, forms, form, serverVars,
                 others>>

(* The form's context is the cached model, if the table is still cached.   *)
OpenMutation ==
  /\ screen = "app"
  /\ Len(forms) < MaxForms
  /\ \E method \in Offered(content) \cap Methods :
       /\ method # "createTable" => tableCache[content.table] # None
       /\ forms' = Append(forms,
            [method |-> method, table |-> content.table,
             model |-> IF method = "createTable" THEN None ELSE tableCache[content.table]])
       /\ form' = [no |-> Len(forms) + 1, entry |-> InitialEntry(method), fingerprint |-> None,
                   apply |-> FALSE, dryRun |-> TRUE]
  /\ content' = Notice("form")
  /\ UNCHANGED <<token, screen, route, snapshotCache, tableCache, timer, requests, sent,
                 serverVars, others>>

FormShown == screen = "app" /\ content.kind = "form" /\ form # None

(* revalidateFingerprint disarms Apply when the command is another one.    *)
Edit ==
  /\ FormShown
  /\ \E entry \in Entries(forms[form.no].method) \ {form.entry} :
       LET disarm == form.fingerprint # None /\ form.fingerprint # entry IN
       form' = [form EXCEPT !.entry = entry,
                            !.fingerprint = IF disarm THEN None ELSE @,
                            !.apply = @ /\ ~disarm]
  /\ UNCHANGED <<token, screen, route, content, snapshotCache, tableCache, timer, forms,
                 requests, sent, serverVars, others>>

(* runMutation, up to its await; without a token it fails at once.         *)
Submit(mode) ==
  /\ FormShown
  /\ MaySend
  /\ IF mode = "apply" THEN form.apply ELSE form.dryRun
  /\ IsValid(forms[form.no], form.entry)
  /\ mode = "apply" => form.fingerprint = form.entry
  /\ IF token = None
     THEN Keep(requests) /\ form' = [form EXCEPT !.apply = TRUE, !.dryRun = TRUE]
     ELSE /\ Send(mode, forms[form.no].table, form.no, form.entry, requests)
          /\ form' = [form EXCEPT !.apply = FALSE, !.dryRun = FALSE]
  /\ UNCHANGED <<token, screen, route, content, snapshotCache, tableCache, timer, forms,
                 serverVars, others>>

CancelMutation ==
  /\ FormShown
  /\ form' = None
  /\ LET f == forms[form.no] IN
     Load(IF f.table = None THEN Schemas ELSE Detail(f.table), snapshotCache, tableCache,
          requests)
  /\ UNCHANGED <<token, screen, route, snapshotCache, tableCache, timer, forms, serverVars,
                 others>>

-------------------------------------------------------------------------------
(* The server.                                                             *)

(* The executor's guards that depend on the exposure.                      *)
ExposureRefuses(method, entry, table) ==
  /\ table # None
  /\ IF table.exposed
     THEN \/ method \in FrozenWhenExposed \cup {"expose"}
          \/ method = "addForeignKey" /\ entry = "rewriting"
     ELSE method = "unexpose"

(* The rest of what a command needs.                                       *)
Possible(method, t, entry) ==
  /\ IF method = "createTable" THEN schema[entry] = None ELSE schema[t] # None
  /\ method = "renameTable" => schema[entry] = None
  /\ method = "expose" => schema[t].rls

After(method, t, entry) ==
  CASE method = "createTable" ->
         [schema EXCEPT ![entry] = [exposed |-> FALSE, rls |-> FALSE]]
    [] method = "renameTable" -> [schema EXCEPT ![entry] = schema[t], ![t] = None]
    [] method = "dropTable" -> [schema EXCEPT ![t] = None]
    [] method \in {"expose", "unexpose"} -> [schema EXCEPT ![t].exposed = (method = "expose")]
    [] method \in {"enableRls", "disableRls"} ->
         [schema EXCEPT ![t].rls = (method = "enableRls")]
    [] OTHER -> schema

(* The answer reaches the page, or nobody if the page has given up.        *)
Reply(r, answer, data) ==
  requests' = (requests \ {r}) \cup
    (IF r.phase = "sent" THEN {[r EXCEPT !.phase = "answered", !.answer = answer, !.data = data]}
                         ELSE {})

Unserved(r) == r.phase \in {"sent", "abandoned"}

(* rejectUnlessAdminOperator: rate limit, then token.                      *)
Reject ==
  /\ \E r \in requests, answer \in {"429", "401"} :
       /\ Unserved(r)
       /\ answer = "401" => r.token # OperatorToken
       /\ Reply(r, answer, None)
  /\ UNCHANGED <<pageVars, sent, serverVars, others>>

Admitted(r) == Unserved(r) /\ r.token = OperatorToken

(* What a command that is not on record is answered.  That it may fail for *)
(* other reasons is, for the page, as if no answer came.                   *)
Judge(r) ==
  LET f == forms[r.form] IN
  IF f.table # None /\ ExposureRefuses(f.method, r.entry, schema[f.table]) THEN "refused"
  ELSE IF Possible(f.method, f.table, r.entry) THEN "ok" ELSE "failed"

ServeRead ==
  /\ \E r \in requests :
       /\ Admitted(r)
       /\ \/ r.kind \in {"probe", "history"} /\ Reply(r, "ok", None)
          \/ r.kind = "snapshot" /\ Reply(r, "ok", schema)
          \/ /\ r.kind = "table"
             /\ IF schema[r.table] = None THEN Reply(r, "404", None)
                                          ELSE Reply(r, "ok", schema[r.table])
  /\ UNCHANGED <<pageVars, sent, serverVars, others>>

ServeDryRun ==
  /\ \E r \in requests :
       /\ Admitted(r) /\ r.kind = "dry-run"
       /\ Reply(r, Judge(r), None)
       /\ previewed' = IF Judge(r) = "ok" THEN previewed \cup {<<r.form, r.entry>>} ELSE previewed
  /\ UNCHANGED <<pageVars, sent, schema, log, others>>

Entry(r) == [key |-> r.key, form |-> r.form, entry |-> r.entry]

(* A key on record is replayed, or refused if the command is another one.  *)
ServeApply ==
  /\ \E r \in requests :
       LET f == forms[r.form]
           recorded == {l \in log : l.key = r.key} IN
       /\ Admitted(r) /\ r.kind = "apply"
       /\ \/ /\ recorded # {}
             /\ Reply(r, IF Entry(r) \in recorded THEN "ok" ELSE "failed", None)
             /\ UNCHANGED <<schema, log>>
          \/ /\ recorded = {} /\ Judge(r) # "ok"
             /\ Reply(r, Judge(r), None)
             /\ UNCHANGED <<schema, log>>
          \/ /\ recorded = {} /\ Judge(r) = "ok"
             /\ Reply(r, "ok", None)
             /\ schema' = After(f.method, f.table, r.entry)
             /\ log' = log \cup {Entry(r)}
  /\ UNCHANGED <<pageVars, sent, previewed, others>>

(* Another client of the admin API exposes, unexposes or drops a table.    *)
OthersChange ==
  /\ others < MaxOthers
  /\ \E t \in Tables, method \in {"expose", "unexpose", "dropTable"} :
       /\ ~ExposureRefuses(method, "none", schema[t])
       /\ Possible(method, t, "none")
       /\ schema' = After(method, t, "none")
  /\ others' = others + 1
  /\ UNCHANGED <<pageVars, requests, sent, log, previewed>>

-------------------------------------------------------------------------------
(* Answers.                                                                *)

(* What adminFetch resolves to: the answer, or nothing within its time.    *)
Outcomes(r) == {"network"} \cup (IF r.phase = "answered" THEN {r.answer} ELSE {})

(* A command given up may still be served.                                 *)
Without(r) ==
  (requests \ {r}) \cup
    (IF r.phase = "sent" /\ r.kind \in Mutating THEN {[r EXCEPT !.phase = "abandoned"]} ELSE {})

DeliverProbe ==
  /\ \E r \in requests : \E answer \in Outcomes(r) :
       /\ r.kind = "probe"
       /\ IF answer = "ok"
          THEN /\ DropCaches
               /\ screen' = "app" /\ form' = None /\ timer' = None
               /\ Load(route, None, NoTables, Without(r))
               /\ UNCHANGED token
          ELSE /\ token' = None
               /\ ShowLogin
               /\ Keep(Without(r))
               /\ KeepCaches /\ UNCHANGED content
  /\ UNCHANGED <<route, forms, serverVars, others>>

(* Faulty variant of Retry: the timer is not armed.                        *)
NoRetry(r) == None

(* The view a rate-limited load retries, once the timer fires.             *)
Retry(r) == IF r.kind = "table" THEN Detail(r.table)
            ELSE [view |-> IF r.kind = "snapshot" THEN "schemas" ELSE "history", table |-> None]

(* presentFailure.                                                         *)
PresentFailure(r, answer) ==
  \/ /\ answer = "401"
     /\ token' = None
     /\ DropCaches
     /\ ShowLogin
     /\ UNCHANGED content
  \/ /\ answer = "429"
     /\ content' = Notice("limited")
     /\ timer' = Retry(r)
     /\ KeepCaches /\ UNCHANGED <<token, screen, form>>
  \/ /\ answer \notin {"401", "429"}
     /\ content' = Notice(IF answer = "404" THEN "empty" ELSE "error")
     /\ KeepCaches /\ UNCHANGED <<token, screen, form, timer>>

(* A load's answer is cached and shown whatever the page shows by now.     *)
DeliverRead ==
  /\ \E r \in requests : \E answer \in Outcomes(r) :
       /\ r.kind \in Reading
       /\ Keep(Without(r))
       /\ \/ /\ answer = "ok"
             /\ snapshotCache' = IF r.kind = "snapshot" THEN r.data ELSE snapshotCache
             /\ tableCache' = IF r.kind = "table" THEN [tableCache EXCEPT ![r.table] = r.data]
                                                  ELSE tableCache
             /\ content' = CASE r.kind = "snapshot" -> Notice("schemas")
                             [] r.kind = "table" -> View("table", r.table, r.data)
                             [] OTHER -> Notice("history")
             /\ UNCHANGED <<token, screen, form, timer>>
          \/ answer # "ok" /\ PresentFailure(r, answer)
  /\ UNCHANGED <<route, forms, serverVars, others>>

(* Faulty variant of OwnForm: the form that is open now takes the answer.  *)
AnyForm(r) == form # None

OwnForm(r) == form # None /\ form.no = r.form

(* The buttons of the form now shown come back, whosever the answer is.    *)
Enabled == IF FormShown THEN [form EXCEPT !.apply = TRUE, !.dryRun = TRUE] ELSE form

(* refreshAfterApply.                                                      *)
Landing(f, entry) ==
  CASE f.method = "dropTable" -> Schemas
    [] f.method \in Naming -> Detail(entry)
    [] OTHER -> Detail(f.table)

(* runMutation, after its await.                                           *)
DeliverMutation ==
  /\ \E r \in {q \in requests : q.kind \in Mutating /\ Awaited(q)} : \E answer \in Outcomes(r) :
       LET rest == Without(r)
           f == forms[r.form] IN
       /\ \/ /\ ~OwnForm(r)
             /\ form' = Enabled
             /\ Keep(rest) /\ KeepCaches
             /\ UNCHANGED <<token, screen, route, content, timer>>
          \/ /\ OwnForm(r) /\ answer = "401"
             /\ token' = None
             /\ DropCaches
             /\ ShowLogin
             /\ Keep(rest)
             /\ UNCHANGED <<route, content>>
          \/ /\ OwnForm(r) /\ answer \notin {"401", "ok"}
             /\ form' = Enabled
             /\ Keep(rest) /\ KeepCaches
             /\ UNCHANGED <<token, screen, route, content, timer>>
          \/ /\ OwnForm(r) /\ answer = "ok" /\ r.kind = "dry-run"
             /\ form' = [Enabled EXCEPT !.fingerprint = r.entry]
             /\ Keep(rest) /\ KeepCaches
             /\ UNCHANGED <<token, screen, route, content, timer>>
          \/ /\ OwnForm(r) /\ answer = "ok" /\ r.kind = "apply"
             /\ DropCaches
             /\ form' = None
             /\ route' = IF f.method \in Naming \cup {"dropTable"} THEN Landing(f, r.entry)
                                                                  ELSE route
             /\ Load(Landing(f, r.entry), None, NoTables, rest)
             /\ UNCHANGED <<token, screen, timer>>
  /\ UNCHANGED <<forms, serverVars, others>>

Operator ==
  SubmitLogin \/ SignOut \/ Navigate \/ Page \/ OpenMutation \/ Edit \/ Submit("dry-run")
    \/ Submit("apply") \/ CancelMutation

Server == Reject \/ ServeRead \/ ServeDryRun \/ ServeApply \/ OthersChange

Client == DeliverProbe \/ DeliverRead \/ DeliverMutation \/ TimerFires

Next == Operator \/ Server \/ Client

Spec == Init /\ [][Next]_vars

-------------------------------------------------------------------------------
(* Correctness.                                                            *)

(* Whatever the page offers has a form that fits its route: what passes    *)
(* the form's checks is never refused for its shape, and the route has no  *)
(* field the form cannot fill (view-models.js, api.js and                  *)
(* admin-mutation-routes.ts share no code).                                *)
FormsFitRoutes == Offered(content) \subseteq FittingForms

(* No command is sent for execution before the server has dry-run exactly  *)
(* that command, from that form, whatever the operator edits while answers *)
(* are awaited and whichever form is open when they arrive (runMutation).  *)
AppliedWasPreviewed ==
  \A r \in requests : r.kind = "apply" => <<r.form, r.entry>> \in previewed

(* One form makes at most one change, however often it is submitted again  *)
(* after a lost answer or an edit (one idempotency key per form open).     *)
OneChangePerForm == \A l, m \in log : l.form = m.form => l = m

(* The page never waits for nothing: what says it is loading is awaited,   *)
(* what says it retries has its timer, and disabled buttons come back      *)
(* (loadSchemas, loadTableDetail, loadHistory, presentFailure, runMutation *)
(* with answers arriving over views and forms that replaced theirs).       *)
NeverStuck ==
  screen = "app" =>
    /\ content.kind = "loading" => \E r \in requests : Awaited(r) /\ r.kind \in Reading
    /\ content.kind = "limited" => timer # None
    /\ FormShown /\ ~form.dryRun =>
         \E r \in requests : Awaited(r) /\ r.kind \in Mutating /\ r.form = form.no

(* The executor refuses a form for the table's exposure only if the model  *)
(* the form was opened from is stale (renderTableActions and               *)
(* renderColumnActions mirror the executor), except a rewriting foreign    *)
(* key, which the form offers on exposed tables too.                       *)
RefusedOnlyWhenStale ==
  [][\A r \in requests :
       /\ [r EXCEPT !.phase = "answered", !.answer = "refused"] \in requests' \ requests
       /\ r.entry # "rewriting"
       => forms[r.form].model # schema[r.table]]_vars
=================================================================================
