----------------------------- MODULE AdminUiProofs -----------------------------
(***************************************************************************)
(* Proofs about AdminUi for any tables, values, tokens and forms, and any  *)
(* number of requests, answers out of order or lost, and changes by other  *)
(* clients: what is applied was previewed, one change per form, a page     *)
(* that never waits for nothing, no refusal a fresh model would have       *)
(* spared, and forms that fit their routes.                                *)
(***************************************************************************)
EXTENDS AdminUi, TLAPS

-------------------------------------------------------------------------------
(* The invariant.                                                          *)

Anything == Tables \cup Values \cup {"none", "exact", "plain", "rewriting", "invalid"}

(* The forms a table is offered, when it is exposed and when it is not.    *)
Always == {"createIndex", "addUniqueConstraint", "addForeignKey", "dropIndex", "dropConstraint"}

OfColumns == {"renameColumn", "dropColumn", "setColumnDefault", "dropColumnDefault",
              "setColumnNotNull", "setColumnNullable", "changeColumnType"}

OfUnexposed == {"renameTable", "dropTable", "addColumn", "expose", "createPolicy", "removePolicy",
                "disableRls", "enableRls"}

Kinds == Always \cup OfColumns \cup OfUnexposed \cup {"unexpose", "createTable"}

FormRecord == [method : Kinds, table : Tables \cup {None}, model : TableStates]

OpenRecord(n) ==
  [no : 1..n, entry : Anything, fingerprint : Anything \cup {None},
   apply : BOOLEAN, dryRun : BOOLEAN]

Data == {None} \cup [Tables -> TableStates] \cup TableState

RequestRecord ==
  [id : Nat, kind : Reading \cup Mutating \cup {"probe"}, token : Tokens \cup {None},
   table : Tables \cup {None}, form : Nat, key : Nat, entry : Anything \cup {None},
   phase : {"sent", "answered", "abandoned"}, answer : Answers \cup {None}, data : Data]

PageInv ==
  /\ token \in Tokens \cup {None}
  /\ route \in Routes
  /\ timer \in Routes \cup {None}
  /\ tableCache \in [Tables -> TableStates]

(* What the page shows of a table is what it has cached, if it still has.  *)
ContentInv ==
  /\ content.kind = "schemas" => content.table = None
  /\ content.kind = "table" =>
       /\ content.table \in Tables /\ content.model \in TableState
       /\ tableCache[content.table] \in {None, content.model}

(* A form is of a kind its own model offers.                               *)
FormOK(f) ==
  \/ f.method = "createTable" /\ f.table = None
  \/ /\ f.table \in Tables /\ f.model \in TableState
     /\ f.method \in Offered(View("table", f.table, f.model))

FormsInv == forms \in Seq(FormRecord) /\ \A i \in 1..Len(forms) : FormOK(forms[i])

(* The open form remembers only dry runs of its own.                       *)
OpenInv ==
  form # None =>
    /\ form \in OpenRecord(Len(forms))
    /\ form.entry \in Entries(forms[form.no].method)
    /\ form.fingerprint # None => <<form.no, form.fingerprint>> \in previewed

AnsweredOk(r) == r.phase = "answered" /\ r.answer = "ok"

RequestOK(r, fs, dry) ==
  /\ r.kind = "table" => r.table \in Tables /\ (AnsweredOk(r) => r.data \in TableState)
  /\ r.kind \in Mutating =>
       /\ r.form \in 1..Len(fs) /\ r.key = r.form /\ r.table = fs[r.form].table
       /\ fs[r.form].method \in Naming => r.entry \in Tables
  /\ r.kind = "dry-run" /\ AnsweredOk(r) => <<r.form, r.entry>> \in dry
  /\ r.kind = "apply" => <<r.form, r.entry>> \in dry

RequestsInv ==
  /\ sent \in Nat
  /\ requests \in SUBSET RequestRecord
  /\ \A r \in requests : RequestOK(r, forms, previewed)

(* A key is of one form, and on record once.                               *)
ServerInv ==
  /\ schema \in [Tables -> TableStates]
  /\ \A l \in log : l.key = l.form
  /\ \A l, m \in log : l.key = m.key => l = m

UiInv ==
  PageInv /\ ContentInv /\ FormsInv /\ OpenInv /\ RequestsInv /\ ServerInv /\ NeverStuck

-------------------------------------------------------------------------------
(* Requests and loads.                                                     *)

LEMMA EntriesTyped ==
  ASSUME NEW method
  PROVE  /\ Entries(method) \subseteq Anything
         /\ InitialEntry(method) \in Entries(method)
         /\ method \in Naming => Entries(method) \ {"invalid"} \subseteq Tables
<1>1. CASE method \in Naming
  BY <1>1 DEF Entries, InitialEntry, Anything
<1>2. CASE method \notin Naming
  BY <1>2 DEF Entries, InitialEntry, Anything
<1> QED BY <1>1, <1>2

(* What is asked of the forms and of the dry runs stays true as they grow. *)
LEMMA RequestGrows ==
  ASSUME NEW r, NEW fs, NEW gs, NEW dry, NEW more, RequestOK(r, fs, dry), dry \subseteq more,
         Len(fs) \in Nat, Len(gs) \in Nat, Len(fs) <= Len(gs),
         \A i \in 1..Len(fs) : gs[i] = fs[i]
  PROVE  RequestOK(r, gs, more)
BY DEF RequestOK

LEMMA FormsLength ==
  ASSUME UiInv
  PROVE  Len(forms) \in Nat /\ DOMAIN forms = 1..Len(forms)
         /\ \A i \in 1..Len(forms) : forms[i] \in FormRecord /\ FormOK(forms[i])
BY DEF UiInv, FormsInv

(* A load reads, or shows what is cached.                                  *)
LEMMA LoadShape ==
  ASSUME NEW x \in Routes, NEW shot, NEW cached \in [Tables -> TableStates],
         NEW rest \in SUBSET RequestRecord, sent \in Nat, token \in Tokens \cup {None},
         Load(x, shot, cached, rest)
  PROVE  /\ rest \subseteq requests' /\ requests' \in SUBSET RequestRecord /\ sent' \in Nat
         /\ \A q \in requests' \ rest :
              /\ q.kind \in Reading /\ q.phase = "sent"
              /\ q.kind = "table" => q.table \in Tables
         /\ content'.kind \notin {"form", "limited"}
         /\ content'.kind = "schemas" => content'.table = None
         /\ content'.kind = "table" =>
              /\ content'.table \in Tables /\ content'.model \in TableState
              /\ content'.model = cached[content'.table]
         /\ content'.kind = "loading" => \E q \in requests' : Awaited(q) /\ q.kind \in Reading
<1>1. CASE x.view = "schemas" /\ content' = Notice("schemas") /\ Keep(rest)
  BY <1>1 DEF Notice, View, Keep
<1>2. CASE x.view = "table" /\ cached[x.table] # None /\ Keep(rest)
           /\ content' = View("table", x.table, cached[x.table])
  <2>1. x.table \in Tables
    BY <1>2 DEF Routes
  <2>2. cached[x.table] \in TableState
    BY <1>2, <2>1 DEF TableStates
  <2> QED BY <1>2, <2>1, <2>2 DEF View, Keep
<1>3. CASE token = None /\ content' = Notice("error") /\ Keep(rest)
  BY <1>3 DEF Notice, View, Keep
<1>4. CASE /\ token # None /\ content' = Notice("loading")
           /\ Send(IF x.view = "schemas" THEN "snapshot" ELSE x.view, x.table, 0, None, rest)
  <2> DEFINE kind == IF x.view = "schemas" THEN "snapshot" ELSE x.view
             q == Request(kind, x.table, 0, None)
  <2>1. /\ kind \in Reading /\ x.table \in Tables \cup {None}
        /\ kind = "table" => x.table \in Tables
    BY DEF Routes, Reading
  <2>2. sent' = sent + 1 /\ requests' = rest \cup {q}
    BY <1>4 DEF Send
  <2> HIDE DEF kind
  <2>3. q \in RequestRecord /\ q.kind = kind /\ q.phase = "sent" /\ q.table = x.table
    BY <1>4, <2>1 DEF Request, RequestRecord, Data
  <2> HIDE DEF q
  <2> QED BY <1>4, <2>1, <2>2, <2>3 DEF Notice, View, Awaited
<1> QED BY <1>1, <1>2, <1>3, <1>4 DEF Load

(* The requests that remain once the page has done with one.               *)
LEMMA WithoutShape ==
  ASSUME UiInv, NEW r \in requests
  PROVE  /\ Without(r) \in SUBSET RequestRecord
         /\ \A q \in Without(r) : RequestOK(q, forms, previewed)
         /\ \A q \in requests : q # r => q \in Without(r)
         /\ \A q \in Without(r) : q \in requests \/ q = [r EXCEPT !.phase = "abandoned"]
<1> DEFINE p == [r EXCEPT !.phase = "abandoned"]
<1>1. r \in RequestRecord /\ RequestOK(r, forms, previewed)
  BY DEF UiInv, RequestsInv
<1>2. /\ p \in RequestRecord /\ p.phase = "abandoned" /\ p.kind = r.kind /\ p.table = r.table
      /\ p.form = r.form /\ p.key = r.key /\ p.entry = r.entry
  BY <1>1 DEF RequestRecord
<1> HIDE DEF p
<1>3. RequestOK(p, forms, previewed)
  BY <1>1, <1>2 DEF RequestOK, AnsweredOk
<1>4. \A q \in Without(r) : q \in requests \/ q = p
  BY DEF Without, p
<1>5. \A q \in requests : q # r => q \in Without(r)
  BY DEF Without
<1> QED BY <1>2, <1>3, <1>4, <1>5 DEF UiInv, RequestsInv, p

(* A step that shows another view, from the cache or loading.              *)
LEMMA LoadKeeps ==
  ASSUME UiInv, NEW x \in Routes, NEW shot, NEW cached \in [Tables -> TableStates],
         NEW rest \in SUBSET RequestRecord, Load(x, shot, cached, rest),
         \A q \in rest : RequestOK(q, forms, previewed),
         tableCache' = cached, route' \in Routes, timer' \in Routes \cup {None},
         token' \in Tokens \cup {None}, form' = None \/ form' = form,
         UNCHANGED <<forms, serverVars>>
  PROVE  UiInv'
<1>1. sent \in Nat /\ token \in Tokens \cup {None}
  BY DEF UiInv, RequestsInv, PageInv
<1>2. /\ rest \subseteq requests' /\ requests' \in SUBSET RequestRecord /\ sent' \in Nat
      /\ \A q \in requests' \ rest :
           /\ q.kind \in Reading /\ q.phase = "sent"
           /\ q.kind = "table" => q.table \in Tables
      /\ content'.kind \notin {"form", "limited"}
      /\ content'.kind = "schemas" => content'.table = None
      /\ content'.kind = "table" =>
           /\ content'.table \in Tables /\ content'.model \in TableState
           /\ content'.model = cached[content'.table]
      /\ content'.kind = "loading" => \E q \in requests' : Awaited(q) /\ q.kind \in Reading
  BY <1>1, LoadShape
<1>3. forms' = forms /\ schema' = schema /\ log' = log /\ previewed' = previewed
  BY DEF serverVars
<1>4. PageInv'
  BY DEF PageInv
<1>5. ContentInv'
  BY <1>2 DEF ContentInv
<1>6. FormsInv' /\ OpenInv' /\ ServerInv'
  BY <1>3 DEF UiInv, FormsInv, OpenInv, ServerInv
<1>7. \A q \in requests' \ rest : RequestOK(q, forms, previewed)
  BY <1>2 DEF RequestOK, AnsweredOk, Reading, Mutating
<1>8. RequestsInv'
  BY <1>2, <1>3, <1>7 DEF RequestsInv
<1>9. NeverStuck'
  BY <1>2 DEF NeverStuck, FormShown, Awaited
<1> QED BY <1>4, <1>5, <1>6, <1>8, <1>9 DEF UiInv

-------------------------------------------------------------------------------
(* The operator's steps.                                                   *)

LEMMA RequestsTyped ==
  ASSUME UiInv
  PROVE  /\ sent \in Nat /\ requests \in SUBSET RequestRecord
         /\ \A q \in requests : RequestOK(q, forms, previewed)
         /\ route \in Routes /\ timer \in Routes \cup {None} /\ token \in Tokens \cup {None}
         /\ tableCache \in [Tables -> TableStates]
BY DEF UiInv, RequestsInv, PageInv

LEMMA LoadsKeep ==
  ASSUME UiInv, Navigate \/ Page \/ TimerFires
  PROVE  UiInv'
<1>1. Schemas \in Routes /\ [view |-> "history", table |-> None] \in Routes
      /\ \A t \in Tables : Detail(t) \in Routes
  BY DEF Routes, Schemas, Detail
<1>2. PICK x \in Routes : Load(x, snapshotCache, tableCache, requests)
  BY <1>1, RequestsTyped DEF Navigate, Page, TimerFires
<1>3. /\ tableCache' = tableCache /\ route' \in Routes /\ timer' \in Routes \cup {None}
      /\ token' \in Tokens \cup {None} /\ (form' = None \/ form' = form)
      /\ UNCHANGED <<forms, serverVars>>
  BY RequestsTyped DEF Navigate, Page, TimerFires
<1> QED BY <1>2, <1>3, RequestsTyped, LoadKeeps

LEMMA CancelKeeps ==
  ASSUME UiInv, CancelMutation
  PROVE  UiInv'
<1> DEFINE f == forms[form.no]
           x == IF f.table = None THEN Schemas ELSE Detail(f.table)
<1>1. f.table \in Tables \cup {None}
  <2>1. form.no \in 1..Len(forms)
    BY DEF CancelMutation, FormShown, UiInv, OpenInv, OpenRecord
  <2> QED BY <2>1, FormsLength DEF FormRecord
<1> HIDE DEF f
<1>2. x \in Routes
  BY <1>1 DEF Routes, Schemas, Detail
<1>3. Load(x, snapshotCache, tableCache, requests)
  BY DEF CancelMutation, f
<1>4. /\ tableCache' = tableCache /\ route' = route /\ timer' = timer /\ token' = token
      /\ form' = None /\ UNCHANGED <<forms, serverVars>>
  BY DEF CancelMutation
<1> HIDE DEF x
<1> QED BY <1>2, <1>3, <1>4, RequestsTyped, LoadKeeps

LEMMA SubmitLoginKeeps ==
  ASSUME UiInv, SubmitLogin
  PROVE  UiInv'
<1>1. PICK k \in Tokens : /\ token' = k
        /\ requests' = requests \cup {[Request("probe", None, 0, None) EXCEPT !.token = k]}
  BY DEF SubmitLogin
<1> DEFINE q == [Request("probe", None, 0, None) EXCEPT !.token = k]
<1>2. sent' = sent + 1 /\ screen = "login"
      /\ UNCHANGED <<screen, route, content, tableCache, timer, forms, form, schema, log, previewed>>
  BY DEF SubmitLogin, serverVars
<1>3. q \in RequestRecord /\ q.kind = "probe" /\ sent' \in Nat
  BY <1>1, <1>2, RequestsTyped DEF Request, RequestRecord, Data
<1> HIDE DEF q
<1>4. RequestOK(q, forms, previewed)
  BY <1>3 DEF RequestOK, Mutating
<1>5. RequestsInv'
  BY <1>1, <1>2, <1>3, <1>4, RequestsTyped DEF RequestsInv, q
<1>6. PageInv' /\ ContentInv'
  BY <1>1, <1>2 DEF UiInv, PageInv, ContentInv
<1>7. FormsInv' /\ OpenInv' /\ ServerInv'
  BY <1>2 DEF UiInv, FormsInv, OpenInv, ServerInv
<1>8. NeverStuck'
  BY <1>2 DEF NeverStuck
<1> QED BY <1>5, <1>6, <1>7, <1>8 DEF UiInv

LEMMA SignOutKeeps ==
  ASSUME UiInv, SignOut
  PROVE  UiInv'
<1>1. /\ token' = None /\ tableCache' = NoTables /\ route' = Schemas
      /\ content' = content \/ content' = Notice("error")
      /\ screen' = "login" /\ form' = None /\ timer' = None
      /\ UNCHANGED <<forms, requests, sent, schema, log, previewed>>
  BY DEF SignOut, DropCaches, ShowLogin, serverVars
<1>2. PageInv'
  BY <1>1 DEF PageInv, Routes, Schemas, NoTables, TableStates
<1>3. ContentInv'
  BY <1>1 DEF UiInv, ContentInv, Notice, View, NoTables
<1>4. FormsInv' /\ OpenInv' /\ ServerInv' /\ RequestsInv'
  BY <1>1 DEF UiInv, FormsInv, OpenInv, ServerInv, RequestsInv
<1>5. NeverStuck'
  BY <1>1 DEF NeverStuck
<1> QED BY <1>2, <1>3, <1>4, <1>5 DEF UiInv

LEMMA TableOffers ==
  ASSUME NEW view, view.kind = "table"
  PROVE  /\ view.model.exposed => Offered(view) \subseteq Always \cup {"unexpose"}
         /\ ~view.model.exposed => Offered(view) \subseteq Always \cup OfColumns \cup OfUnexposed
         /\ PerColumn = OfColumns
<1>1. PerColumn = OfColumns
  BY DEF PerColumn, ColumnForms, ColumnRuleForms, OfColumns
<1>2. Offered(view) = TableActions(view.model) \cup ColumnActions(view.model) \cup ObjectActions
  BY DEF Offered
<1>3. KeyActions \cup ObjectActions = Always
  BY DEF KeyActions, ObjectActions, Always
<1>4. StructureActions \cup SecurityActions(view.model.rls) \subseteq OfUnexposed
  BY DEF StructureActions, SecurityActions, OfUnexposed
<1>5. CASE view.model.exposed
  BY <1>1, <1>2, <1>3, <1>5 DEF TableActions, ColumnActions, ExposedActions
<1>6. CASE ~view.model.exposed
  BY <1>1, <1>2, <1>3, <1>4, <1>6 DEF TableActions, ColumnActions
<1> QED BY <1>1, <1>5, <1>6

LEMMA OpenMutationKeeps ==
  ASSUME UiInv, OpenMutation
  PROVE  UiInv'
<1>1. PICK method \in Offered(content) :
        /\ method # "createTable" => tableCache[content.table] # None
        /\ forms' = Append(forms,
             [method |-> method, table |-> content.table,
              model |-> IF method = "createTable" THEN None ELSE tableCache[content.table]])
        /\ form' = [no |-> Len(forms) + 1, entry |-> InitialEntry(method), fingerprint |-> None,
                    apply |-> FALSE, dryRun |-> TRUE]
  BY DEF OpenMutation
<1> DEFINE model == IF method = "createTable" THEN None ELSE tableCache[content.table]
           f == [method |-> method, table |-> content.table, model |-> model]
<1>2. /\ content' = Notice("form")
      /\ UNCHANGED <<token, screen, route, tableCache, timer, requests, sent, schema, log,
                     previewed>>
  BY DEF OpenMutation, serverVars
<1>3. /\ content.kind = "schemas" /\ method = "createTable" /\ content.table = None
      \/ /\ content.kind = "table" /\ content.table \in Tables /\ content.model \in TableState
         /\ method \in Offered(View("table", content.table, content.model))
         /\ method # "createTable" /\ method \in Kinds
         /\ tableCache[content.table] = content.model
  <2>1. CASE content.kind = "schemas"
    BY <2>1 DEF Offered, UiInv, ContentInv
  <2>2. CASE content.kind = "table"
    <3>1. /\ content.table \in Tables /\ content.model \in TableState
          /\ tableCache[content.table] \in {None, content.model}
      BY <2>2 DEF UiInv, ContentInv
    <3>2. method \in Offered(View("table", content.table, content.model))
      BY <2>2 DEF Offered, View
    <3>3. method # "createTable" /\ method \in Kinds
      <4>1. method \in Always \cup {"unexpose"} \cup OfColumns \cup OfUnexposed
        BY <2>2, TableOffers
      <4> QED BY <4>1 DEF Always, OfColumns, OfUnexposed, Kinds
    <3> QED BY <1>1, <2>2, <3>1, <3>2, <3>3
  <2>3. CASE content.kind \notin {"schemas", "table"}
    BY <2>3 DEF Offered
  <2> QED BY <2>1, <2>2, <2>3
<1>4. f \in FormRecord /\ FormOK(f)
  <2>1. f.method = method /\ f.table = content.table /\ f.model = model
    OBVIOUS
  <2>2. f \in FormRecord
    <3>1. method \in Kinds /\ content.table \in Tables \cup {None}
      BY <1>3 DEF Kinds
    <3>2. model \in TableStates
      BY <1>3 DEF TableStates
    <3> HIDE DEF model
    <3> QED BY <3>1, <3>2 DEF FormRecord
  <2>3. model = content.model \/ method = "createTable"
    BY <1>3
  <2> HIDE DEF f, model
  <2>4. FormOK(f)
    BY <1>3, <2>1, <2>3 DEF FormOK
  <2> QED BY <2>2, <2>4
<1>5. forms' = Append(forms, f)
  BY <1>1
<1> HIDE DEF f
<1>6. /\ forms' \in Seq(FormRecord) /\ Len(forms) \in Nat /\ Len(forms') = Len(forms) + 1
      /\ forms'[Len(forms) + 1] = f
      /\ \A i \in 1..Len(forms) : forms'[i] = forms[i]
  BY <1>4, <1>5 DEF UiInv, FormsInv
<1>7. FormsInv'
  <2>1. \A i \in 1..Len(forms') : i \in 1..Len(forms) \/ i = Len(forms) + 1
    BY <1>6
  <2> QED BY <1>4, <1>6, <2>1, FormsLength DEF FormsInv
<1>8. OpenInv'
  <2>1. Len(forms) + 1 \in 1..Len(forms')
    BY <1>6
  <2>2. /\ InitialEntry(method) \in Entries(method) /\ InitialEntry(method) \in Anything
    BY EntriesTyped
  <2>3. form' \in OpenRecord(Len(forms')) /\ form'.no = Len(forms) + 1
        /\ form'.entry = InitialEntry(method) /\ form'.fingerprint = None
    BY <1>1, <2>1, <2>2 DEF OpenRecord
  <2>4. forms'[form'.no].method = method
    BY <1>6, <2>3 DEF f
  <2>5. form'.entry \in Entries(forms'[form'.no].method)
    BY <2>2, <2>3, <2>4
  <2> QED BY <2>3, <2>5 DEF OpenInv
<1>9. PageInv' /\ ContentInv' /\ ServerInv'
  BY <1>2 DEF UiInv, PageInv, ContentInv, ServerInv, Notice, View
<1>10. RequestsInv'
  <2>1. \A q \in requests : RequestOK(q, forms', previewed)
    BY <1>6, RequestsTyped, RequestGrows
  <2> QED BY <1>2, <2>1, RequestsTyped DEF RequestsInv
<1>11. NeverStuck'
  BY <1>1, <1>2 DEF NeverStuck, Notice, View, FormShown
<1> QED BY <1>7, <1>8, <1>9, <1>10, <1>11 DEF UiInv

LEMMA EditKeeps ==
  ASSUME UiInv, Edit
  PROVE  UiInv'
<1>1. PICK entry \in Entries(forms[form.no].method) :
        LET disarm == form.fingerprint # None /\ form.fingerprint # entry IN
        form' = [form EXCEPT !.entry = entry,
                             !.fingerprint = IF disarm THEN None ELSE @,
                             !.apply = @ /\ ~disarm]
  BY DEF Edit
<1> DEFINE disarm == form.fingerprint # None /\ form.fingerprint # entry
<1>2. UNCHANGED <<token, screen, route, content, tableCache, timer, forms, requests, sent,
                  schema, log, previewed>>
  BY DEF Edit, serverVars
<1>3. /\ form \in OpenRecord(Len(forms)) /\ form # None
      /\ form.fingerprint # None => <<form.no, form.fingerprint>> \in previewed
  BY DEF Edit, FormShown, UiInv, OpenInv
<1>4. entry \in Anything
  BY EntriesTyped
<1>5. /\ form' \in OpenRecord(Len(forms)) /\ form'.no = form.no /\ form'.entry = entry
      /\ form'.fingerprint \in {None, form.fingerprint} /\ form'.dryRun = form.dryRun
  <2>1. (form.apply /\ ~disarm) \in BOOLEAN
    BY <1>3 DEF OpenRecord
  <2> QED BY <1>1, <1>3, <1>4, <2>1 DEF OpenRecord
<1>6. OpenInv'
  BY <1>1, <1>2, <1>3, <1>5 DEF OpenInv
<1>7. PageInv' /\ ContentInv' /\ ServerInv' /\ FormsInv' /\ RequestsInv'
  BY <1>2 DEF UiInv, PageInv, ContentInv, ServerInv, FormsInv, RequestsInv
<1>8. NeverStuck'
  BY <1>2, <1>3, <1>5 DEF UiInv, NeverStuck, FormShown, Edit
<1> QED BY <1>6, <1>7, <1>8 DEF UiInv

LEMMA RequestTyped ==
  ASSUME NEW mode \in Mutating, NEW no \in Nat, no # 0, NEW t \in Tables \cup {None},
         NEW e \in Anything, sent \in Nat, token \in Tokens \cup {None},
         NEW q, q = Request(mode, t, no, e)
  PROVE  /\ q \in RequestRecord /\ q.kind = mode /\ q.phase = "sent" /\ q.form = no
         /\ q.key = no /\ q.table = t /\ q.entry = e
<1>1. mode \in Reading \cup Mutating \cup {"probe"}
  OBVIOUS
<1>2. q =
        [id |-> sent + 1, kind |-> mode, token |-> token, table |-> t, form |-> no,
         key |-> no, entry |-> e, phase |-> "sent", answer |-> None, data |-> None]
  BY DEF Request, KeyOf
<1> QED BY <1>1, <1>2 DEF RequestRecord, Data

LEMMA SubmitKeeps ==
  ASSUME UiInv, NEW mode \in Mutating, Submit(mode)
  PROVE  UiInv'
<1> DEFINE f == forms[form.no]
           q == Request(mode, f.table, form.no, form.entry)
<1>1. /\ FormShown /\ IsValid(f, form.entry)
      /\ mode = "apply" => form.fingerprint = form.entry
      /\ UNCHANGED <<token, screen, route, content, tableCache, timer, forms, schema, log,
                     previewed>>
  BY DEF Submit, serverVars
<1>2. /\ form \in OpenRecord(Len(forms)) /\ form # None
      /\ form.entry \in Entries(f.method)
      /\ form.fingerprint # None => <<form.no, form.fingerprint>> \in previewed
  BY <1>1 DEF FormShown, UiInv, OpenInv
<1>3. /\ form.no \in 1..Len(forms) /\ form.no \in Nat /\ form.no # 0
      /\ form.entry \in Anything /\ f \in FormRecord
  BY <1>2, FormsLength DEF OpenRecord
<1>4. form.entry # "invalid" /\ f.table \in Tables \cup {None}
      /\ (f.method \in Naming => form.entry \in Tables)
  BY <1>1, <1>2, <1>3, EntriesTyped DEF IsValid, FormRecord
<1>5. PageInv' /\ ContentInv' /\ FormsInv' /\ ServerInv'
  BY <1>1 DEF UiInv, PageInv, ContentInv, FormsInv, ServerInv
<1>6. CASE /\ token = None /\ Keep(requests)
           /\ form' = [form EXCEPT !.apply = TRUE, !.dryRun = TRUE]
  <2>1. requests' = requests /\ sent' = sent
    BY <1>6 DEF Keep
  <2>2. /\ form' \in OpenRecord(Len(forms)) /\ form'.no = form.no /\ form'.entry = form.entry
        /\ form'.fingerprint = form.fingerprint /\ form'.dryRun = TRUE
    BY <1>2, <1>6 DEF OpenRecord
  <2>3. OpenInv'
    BY <1>1, <1>2, <2>2 DEF OpenInv
  <2>4. RequestsInv'
    BY <1>1, <2>1 DEF UiInv, RequestsInv
  <2>5. NeverStuck'
    BY <1>1, <2>1, <2>2 DEF UiInv, NeverStuck, FormShown
  <2> QED BY <1>5, <2>3, <2>4, <2>5 DEF UiInv
<1>7. CASE /\ token # None /\ Send(mode, f.table, form.no, form.entry, requests)
           /\ form' = [form EXCEPT !.apply = FALSE, !.dryRun = FALSE]
  <2>1. /\ form' \in OpenRecord(Len(forms)) /\ form'.no = form.no /\ form'.entry = form.entry
        /\ form'.fingerprint = form.fingerprint
    BY <1>2, <1>7 DEF OpenRecord
  <2>2. OpenInv'
    BY <1>1, <1>2, <2>1 DEF OpenInv
  <2>3. requests' = requests \cup {q} /\ sent' = sent + 1
    BY <1>7 DEF Send
  <2>4. /\ q \in RequestRecord /\ q.kind = mode /\ q.phase = "sent" /\ q.form = form.no
        /\ q.key = form.no /\ q.table = f.table /\ q.entry = form.entry
    <3>1. f.table \in Tables \cup {None}
      BY <1>4
    <3>2. form.no \in Nat /\ form.no # 0 /\ form.entry \in Anything
      BY <1>3
    <3>3. q = Request(mode, f.table, form.no, form.entry)
      OBVIOUS
    <3> HIDE DEF f, q
    <3> QED BY <3>1, <3>2, <3>3, RequestsTyped, RequestTyped
  <2> HIDE DEF q
  <2>5. mode = "apply" => <<form.no, form.entry>> \in previewed
    <3> SUFFICES ASSUME mode = "apply" PROVE <<form.no, form.entry>> \in previewed
      OBVIOUS
    <3>1. form.fingerprint = form.entry
      BY <1>1
    <3>2. form.entry # None
      BY <1>3, NoneAssumption DEF Anything
    <3> QED BY <1>2, <3>1, <3>2
  <2>6. RequestOK(q, forms, previewed)
    <3>1. q.kind # "table" /\ ~AnsweredOk(q)
      BY <2>4 DEF AnsweredOk, Mutating
    <3>2. q.form = form.no /\ q.key = form.no /\ q.entry = form.entry
      BY <2>4
    <3>3. q.table = forms[form.no].table
      BY <2>4
    <3>4. forms[form.no].method \in Naming => form.entry \in Tables
      BY <1>4
    <3>5. q.kind = "apply" => <<form.no, form.entry>> \in previewed
      BY <2>4, <2>5
    <3>6. form.no \in 1..Len(forms)
      BY <1>3
    <3> HIDE DEF f
    <3> QED BY <3>1, <3>2, <3>3, <3>4, <3>5, <3>6 DEF RequestOK
  <2>7. RequestsInv'
    BY <1>1, <2>3, <2>4, <2>6, RequestsTyped DEF RequestsInv
  <2>8. NeverStuck'
    BY <1>1, <2>1, <2>3, <2>4 DEF UiInv, NeverStuck, FormShown, Awaited
  <2> QED BY <1>5, <2>2, <2>7, <2>8 DEF UiInv
<1> QED BY <1>6, <1>7 DEF Submit

-------------------------------------------------------------------------------
(* The server's steps.                                                     *)

LEMMA ReplyKeeps ==
  ASSUME UiInv, NEW r \in requests, Unserved(r), NEW answer \in Answers, NEW data \in Data,
         Reply(r, answer, data),
         r.kind = "table" /\ answer = "ok" => data \in TableState,
         r.kind = "dry-run" /\ answer = "ok" => <<r.form, r.entry>> \in previewed',
         UNCHANGED <<pageVars, sent>>,
         previewed \subseteq previewed', ServerInv'
  PROVE  UiInv'
<1> DEFINE q == [r EXCEPT !.phase = "answered", !.answer = answer, !.data = data]
<1>1. r \in RequestRecord /\ RequestOK(r, forms, previewed)
  BY RequestsTyped
<1>2. UNCHANGED <<token, screen, route, content, tableCache, timer, forms, form, sent>>
  BY DEF pageVars
<1>3. /\ q \in RequestRecord /\ q.phase = "answered" /\ q.answer = answer /\ q.data = data
      /\ q.kind = r.kind /\ q.table = r.table /\ q.form = r.form /\ q.key = r.key
      /\ q.entry = r.entry
  BY <1>1 DEF RequestRecord
<1> HIDE DEF q
<1>4. RequestOK(r, forms, previewed')
  BY <1>1, FormsLength, RequestGrows
<1>5. RequestOK(q, forms, previewed')
  BY <1>3, <1>4 DEF RequestOK, AnsweredOk
<1>6. /\ \A p \in requests' : p \in requests \/ p = q
      /\ \A p \in requests : p # r => p \in requests'
      /\ r.phase = "sent" => q \in requests'
  BY DEF Reply, q
<1>7. \A p \in requests : RequestOK(p, forms, previewed')
  BY RequestsTyped, FormsLength, RequestGrows
<1>8. RequestsInv'
  BY <1>2, <1>3, <1>5, <1>6, <1>7, RequestsTyped DEF RequestsInv
<1>9. \A p \in requests : Awaited(p) =>
        \E z \in requests' : Awaited(z) /\ z.kind = p.kind /\ z.form = p.form
  BY <1>3, <1>6 DEF Awaited, Unserved
<1>10. NeverStuck'
  BY <1>2, <1>9 DEF UiInv, NeverStuck, FormShown
<1>11. PageInv' /\ ContentInv' /\ FormsInv'
  BY <1>2 DEF UiInv, PageInv, ContentInv, FormsInv
<1>12. OpenInv'
  BY <1>2 DEF UiInv, OpenInv
<1> QED BY <1>8, <1>10, <1>11, <1>12 DEF UiInv

LEMMA ServerStays ==
  ASSUME UiInv, UNCHANGED serverVars
  PROVE  ServerInv' /\ previewed' = previewed
BY DEF UiInv, ServerInv, serverVars

LEMMA JudgeAnswers ==
  ASSUME NEW r
  PROVE  Judge(r) \in {"refused", "ok", "failed"}
BY DEF Judge

LEMMA RejectKeeps ==
  ASSUME UiInv, Reject
  PROVE  UiInv'
<1>1. PICK r \in requests, answer \in {"429", "401"} : Unserved(r) /\ Reply(r, answer, None)
  BY DEF Reject
<1>2. answer \in Answers /\ answer # "ok" /\ None \in Data
  BY DEF Answers, Data
<1>3. UNCHANGED <<pageVars, sent>> /\ UNCHANGED serverVars
  BY DEF Reject
<1> QED BY <1>1, <1>2, <1>3, ServerStays, ReplyKeeps

LEMMA ServeReadKeeps ==
  ASSUME UiInv, ServeRead
  PROVE  UiInv'
<1>1. PICK r \in requests :
        /\ Unserved(r)
        /\ \/ r.kind \in {"probe", "history"} /\ Reply(r, "ok", None)
           \/ r.kind = "snapshot" /\ Reply(r, "ok", schema)
           \/ r.kind = "table" /\ schema[r.table] = None /\ Reply(r, "404", None)
           \/ r.kind = "table" /\ schema[r.table] # None /\ Reply(r, "ok", schema[r.table])
  BY DEF ServeRead, Admitted
<1>2. {"ok", "404"} \subseteq Answers /\ None \in Data /\ schema \in Data
      /\ schema \in [Tables -> TableStates]
  BY DEF Answers, Data, UiInv, ServerInv
<1>3. r.kind = "table" => r.table \in Tables
  BY RequestsTyped DEF RequestOK
<1>4. r.kind = "table" /\ schema[r.table] # None =>
        schema[r.table] \in TableState /\ schema[r.table] \in Data
  BY <1>2, <1>3 DEF TableStates, Data
<1>5. /\ UNCHANGED <<pageVars, sent>> /\ previewed \subseteq previewed' /\ ServerInv'
  BY ServerStays DEF ServeRead
<1>6. \E answer \in Answers, data \in Data :
        /\ Reply(r, answer, data)
        /\ r.kind = "table" /\ answer = "ok" => data \in TableState
        /\ r.kind # "dry-run"
  BY <1>1, <1>2, <1>4
<1> QED BY <1>1, <1>5, <1>6, ReplyKeeps

LEMMA ServeDryRunKeeps ==
  ASSUME UiInv, ServeDryRun
  PROVE  UiInv'
<1>1. PICK r \in requests :
        /\ Unserved(r) /\ r.kind = "dry-run" /\ Reply(r, Judge(r), None)
        /\ previewed' = IF Judge(r) = "ok" THEN previewed \cup {<<r.form, r.entry>>}
                                           ELSE previewed
  BY DEF ServeDryRun, Admitted
<1>2. Judge(r) \in Answers /\ None \in Data
  BY JudgeAnswers DEF Answers, Data
<1>3. UNCHANGED <<pageVars, sent>> /\ ServerInv'
  BY DEF ServeDryRun, UiInv, ServerInv
<1>4. /\ previewed \subseteq previewed'
      /\ Judge(r) = "ok" => <<r.form, r.entry>> \in previewed'
  BY <1>1
<1> QED BY <1>1, <1>2, <1>3, <1>4, ReplyKeeps

(* A command leaves a state of the tables.                                 *)
LEMMA AfterTyped ==
  ASSUME schema \in [Tables -> TableStates], NEW method, NEW t \in Tables \cup {None}, NEW entry,
         method # "createTable" => t \in Tables /\ schema[t] # None
  PROVE  After(method, t, entry) \in [Tables -> TableStates]
<1>1. [exposed |-> FALSE, rls |-> FALSE] \in TableStates /\ None \in TableStates
  BY DEF TableStates, TableState
<1>2. CASE method = "createTable"
  BY <1>1, <1>2 DEF After
<1>3. CASE method # "createTable"
  <2>1. t \in Tables /\ schema[t] \in TableState /\ schema[t] \in TableStates
    BY <1>3 DEF TableStates
  <2>2. \A b \in BOOLEAN : /\ [schema[t] EXCEPT !.exposed = b] \in TableStates
                           /\ [schema[t] EXCEPT !.rls = b] \in TableStates
    BY <2>1 DEF TableState, TableStates
  <2>3. /\ [schema EXCEPT ![entry] = schema[t], ![t] = None] \in [Tables -> TableStates]
        /\ [schema EXCEPT ![t] = None] \in [Tables -> TableStates]
    BY <1>1, <2>1
  <2>4. /\ [schema EXCEPT ![t].exposed = (method = "expose")] \in [Tables -> TableStates]
        /\ [schema EXCEPT ![t].rls = (method = "enableRls")] \in [Tables -> TableStates]
    BY <2>1, <2>2
  <2>5. CASE method = "renameTable"
    BY <2>3, <2>5 DEF After
  <2>6. CASE method = "dropTable"
    BY <2>3, <2>6 DEF After
  <2>7. CASE method \in {"expose", "unexpose"}
    BY <2>4, <2>7 DEF After
  <2>8. CASE method \in {"enableRls", "disableRls"}
    BY <2>4, <2>8 DEF After
  <2>9. CASE method \notin {"createTable", "renameTable", "dropTable", "expose", "unexpose",
                            "enableRls", "disableRls"}
    BY <2>9 DEF After
  <2> QED BY <1>3, <2>5, <2>6, <2>7, <2>8, <2>9
<1> QED BY <1>2, <1>3

LEMMA ServeApplyKeeps ==
  ASSUME UiInv, ServeApply
  PROVE  UiInv'
<1>1. PICK r \in requests :
        /\ Unserved(r) /\ r.kind = "apply"
        /\ \/ \E answer \in {"ok", "failed", Judge(r)} :
                Reply(r, answer, None) /\ UNCHANGED <<schema, log>>
           \/ /\ {l \in log : l.key = r.key} = {} /\ Judge(r) = "ok"
              /\ Reply(r, "ok", None)
              /\ schema' = After(forms[r.form].method, forms[r.form].table, r.entry)
              /\ log' = log \cup {Entry(r)}
  BY DEF ServeApply, Admitted
<1> DEFINE f == forms[r.form]
<1>2. {"ok", "failed", Judge(r)} \subseteq Answers /\ None \in Data
  BY JudgeAnswers DEF Answers, Data
<1>3. UNCHANGED <<pageVars, sent>> /\ previewed' = previewed
  BY DEF ServeApply
<1>4. ServerInv'
  <2>1. CASE UNCHANGED <<schema, log>>
    BY <2>1 DEF UiInv, ServerInv
  <2>2. CASE /\ {l \in log : l.key = r.key} = {} /\ Judge(r) = "ok"
             /\ schema' = After(f.method, f.table, r.entry)
             /\ log' = log \cup {Entry(r)}
    <3>1. r.form \in 1..Len(forms) /\ r.key = r.form
      BY <1>1, RequestsTyped DEF RequestOK, Mutating
    <3>2. f \in FormRecord /\ FormOK(f)
      BY <3>1, FormsLength
    <3>3. Possible(f.method, f.table, r.entry)
      BY <2>2 DEF Judge
    <3>4. /\ f.table \in Tables \cup {None}
          /\ f.method # "createTable" => f.table \in Tables /\ schema[f.table] # None
      BY <3>2, <3>3 DEF FormRecord, FormOK, Possible
    <3>5. schema \in [Tables -> TableStates]
      BY DEF UiInv, ServerInv
    <3> HIDE DEF f
    <3>6. schema' \in [Tables -> TableStates]
      BY <2>2, <3>4, <3>5, AfterTyped
    <3>7. Entry(r).key = r.key /\ Entry(r).form = r.form
      BY DEF Entry
    <3>8. \A l \in log' : l \in log \/ l = Entry(r)
      BY <2>2
    <3>9. \A l \in log : l.key # r.key
      BY <2>2
    <3> QED BY <3>1, <3>6, <3>7, <3>8, <3>9 DEF UiInv, ServerInv
  <2> QED BY <1>1, <2>1, <2>2
<1>5. \E answer \in {"ok", "failed", Judge(r)} : Reply(r, answer, None)
  BY <1>1
<1> QED BY <1>1, <1>2, <1>3, <1>4, <1>5, ReplyKeeps

LEMMA OthersChangeKeeps ==
  ASSUME UiInv, OthersChange
  PROVE  UiInv'
<1>1. PICK t \in Tables, method \in {"expose", "unexpose", "dropTable"} :
        Possible(method, t, "none") /\ schema' = After(method, t, "none")
  BY DEF OthersChange
<1>2. schema[t] # None /\ schema \in [Tables -> TableStates]
  BY <1>1 DEF Possible, UiInv, ServerInv
<1>3. schema' \in [Tables -> TableStates]
  BY <1>1, <1>2, AfterTyped
<1>4. UNCHANGED <<token, screen, route, content, tableCache, timer, forms, form, requests, sent,
                  log, previewed>>
  BY DEF OthersChange, pageVars
<1>5. ServerInv'
  BY <1>3, <1>4 DEF UiInv, ServerInv
<1>6. PageInv' /\ ContentInv' /\ FormsInv' /\ RequestsInv'
  BY <1>4 DEF UiInv, PageInv, ContentInv, FormsInv, RequestsInv
<1>7. OpenInv' /\ NeverStuck'
  BY <1>4 DEF UiInv, OpenInv, NeverStuck, FormShown
<1> QED BY <1>5, <1>6, <1>7 DEF UiInv

-------------------------------------------------------------------------------
(* The answers' steps.                                                     *)

LEMMA CachesDropped == ASSUME DropCaches PROVE tableCache' = NoTables
                                               /\ NoTables \in [Tables -> TableStates]
BY DEF DropCaches, NoTables, TableStates

(* Back to the login form: there is nothing left to wait for.              *)
LEMMA LoginKeeps ==
  ASSUME UiInv, NEW r \in requests, token' = None, ShowLogin, Keep(Without(r)),
         DropCaches \/ KeepCaches, UNCHANGED <<route, content, forms, serverVars>>
  PROVE  UiInv'
<1>1. /\ screen' = "login" /\ form' = None /\ timer' = None /\ requests' = Without(r)
      /\ UNCHANGED <<route, content, forms, schema, log, previewed, sent>>
  BY DEF ShowLogin, Keep, serverVars
<1>2. /\ tableCache' \in [Tables -> TableStates]
      /\ \A t \in Tables : tableCache'[t] \in {None, tableCache[t]}
  BY RequestsTyped DEF DropCaches, KeepCaches, NoTables, TableStates
<1>3. PageInv'
  BY <1>1, <1>2, RequestsTyped DEF PageInv
<1>4. ContentInv'
  BY <1>1, <1>2 DEF UiInv, ContentInv
<1>5. FormsInv' /\ OpenInv' /\ ServerInv'
  BY <1>1 DEF UiInv, FormsInv, OpenInv, ServerInv
<1>6. RequestsInv'
  BY <1>1, RequestsTyped, WithoutShape DEF RequestsInv
<1>7. NeverStuck'
  BY <1>1 DEF NeverStuck
<1> QED BY <1>3, <1>4, <1>5, <1>6, <1>7 DEF UiInv

LEMMA DeliverProbeKeeps ==
  ASSUME UiInv, DeliverProbe
  PROVE  UiInv'
<1>1. PICK r \in requests :
        \/ /\ DropCaches /\ form' = None /\ timer' = None
           /\ Load(route, None, NoTables, Without(r))
           /\ UNCHANGED token
        \/ /\ token' = None /\ ShowLogin /\ Keep(Without(r)) /\ KeepCaches /\ UNCHANGED content
  BY DEF DeliverProbe
<1>2. UNCHANGED <<route, forms, serverVars>>
  BY DEF DeliverProbe
<1>3. CASE /\ DropCaches /\ form' = None /\ timer' = None
           /\ Load(route, None, NoTables, Without(r))
           /\ UNCHANGED token
  <2>1. route' \in Routes /\ timer' \in Routes \cup {None} /\ token' \in Tokens \cup {None}
    BY <1>2, <1>3, RequestsTyped
  <2> QED BY <1>2, <1>3, <2>1, RequestsTyped, WithoutShape, CachesDropped, LoadKeeps
<1>4. CASE token' = None /\ ShowLogin /\ Keep(Without(r)) /\ KeepCaches /\ UNCHANGED content
  BY <1>2, <1>4, LoginKeeps
<1> QED BY <1>1, <1>3, <1>4

(* A read answered: the page shows what came.                              *)
LEMMA ShownKeeps ==
  ASSUME UiInv, NEW r \in requests, r.kind \in Reading, Keep(Without(r)),
         tableCache' \in [Tables -> TableStates],
         timer' \in Routes \cup {None}, content'.kind \notin {"loading", "form"},
         content'.kind = "limited" => timer' # None,
         ContentInv', UNCHANGED <<token, screen, form, route, forms, serverVars>>
  PROVE  UiInv'
<1>1. /\ requests' = Without(r)
      /\ UNCHANGED <<token, screen, form, route, forms, schema, log, previewed, sent>>
  BY DEF Keep, serverVars
<1>2. PageInv'
  BY <1>1, RequestsTyped DEF PageInv
<1>3. FormsInv' /\ OpenInv' /\ ServerInv'
  BY <1>1 DEF UiInv, FormsInv, OpenInv, ServerInv
<1>4. RequestsInv'
  BY <1>1, RequestsTyped, WithoutShape DEF RequestsInv
<1>5. NeverStuck'
  BY DEF NeverStuck, FormShown
<1> QED BY <1>2, <1>3, <1>4, <1>5 DEF UiInv

LEMMA DeliverReadKeeps ==
  ASSUME UiInv, DeliverRead
  PROVE  UiInv'
<1>1. PICK r \in requests : \E answer \in Outcomes(r) :
        /\ r.kind \in Reading
        /\ Keep(Without(r))
        /\ \/ /\ answer = "ok"
              /\ tableCache' = IF r.kind = "table" THEN [tableCache EXCEPT ![r.table] = r.data]
                                                   ELSE tableCache
              /\ content' = CASE r.kind = "snapshot" -> Notice("schemas")
                              [] r.kind = "table" -> View("table", r.table, r.data)
                              [] OTHER -> Notice("history")
              /\ UNCHANGED <<token, screen, form, timer>>
           \/ answer # "ok" /\ PresentFailure(r, answer)
  BY DEF DeliverRead
<1>2. PICK answer \in Outcomes(r) :
        \/ /\ answer = "ok"
           /\ tableCache' = IF r.kind = "table" THEN [tableCache EXCEPT ![r.table] = r.data]
                                                ELSE tableCache
           /\ content' = CASE r.kind = "snapshot" -> Notice("schemas")
                           [] r.kind = "table" -> View("table", r.table, r.data)
                           [] OTHER -> Notice("history")
           /\ UNCHANGED <<token, screen, form, timer>>
        \/ answer # "ok" /\ PresentFailure(r, answer)
  BY <1>1
<1>3. UNCHANGED <<route, forms, serverVars>>
  BY DEF DeliverRead
<1>4. r.kind = "table" => r.table \in Tables /\ (AnsweredOk(r) => r.data \in TableState)
  BY RequestsTyped DEF RequestOK
<1>5. CASE /\ answer = "ok"
           /\ tableCache' = IF r.kind = "table" THEN [tableCache EXCEPT ![r.table] = r.data]
                                                ELSE tableCache
           /\ content' = CASE r.kind = "snapshot" -> Notice("schemas")
                           [] r.kind = "table" -> View("table", r.table, r.data)
                           [] OTHER -> Notice("history")
           /\ UNCHANGED <<token, screen, form, timer>>
  <2>1. AnsweredOk(r)
    BY <1>5 DEF Outcomes, AnsweredOk
  <2>2. CASE r.kind = "table"
    <3>1. r.table \in Tables /\ r.data \in TableState /\ r.data \in TableStates
      BY <1>4, <2>1, <2>2 DEF TableStates
    <3>2. tableCache' = [tableCache EXCEPT ![r.table] = r.data]
      BY <1>5, <2>2
    <3>3. tableCache' \in [Tables -> TableStates] /\ tableCache'[r.table] = r.data
      BY <3>1, <3>2, RequestsTyped
    <3>4. content' = View("table", r.table, r.data)
      BY <1>5, <2>2
    <3>5. content'.kind = "table" /\ content'.table = r.table /\ content'.model = r.data
      BY <3>4 DEF View
    <3>6. ContentInv'
      BY <3>1, <3>3, <3>5 DEF ContentInv
    <3>7. timer' \in Routes \cup {None} /\ UNCHANGED <<token, screen, form>>
      BY <1>5, RequestsTyped
    <3> QED BY <1>1, <1>3, <3>3, <3>5, <3>6, <3>7, ShownKeeps
  <2>3. CASE r.kind # "table"
    <3>1. content' = Notice("schemas") \/ content' = Notice("history")
      BY <1>5, <2>3
    <3>2. content'.kind \in {"schemas", "history"} /\ content'.table = None
      BY <3>1 DEF Notice, View
    <3>3. tableCache' \in [Tables -> TableStates] /\ timer' \in Routes \cup {None}
          /\ UNCHANGED <<token, screen, form>>
      BY <1>5, <2>3, RequestsTyped
    <3>4. ContentInv'
      BY <3>2 DEF ContentInv
    <3> QED BY <1>1, <1>3, <3>2, <3>3, <3>4, ShownKeeps
  <2> QED BY <2>2, <2>3
<1>6. CASE PresentFailure(r, answer)
  <2>1. CASE answer = "401"
    BY <1>1, <1>3, <1>6, <2>1, LoginKeeps DEF PresentFailure
  <2>2. CASE answer # "401"
    <3> DEFINE kind == IF answer = "429" THEN "limited"
                       ELSE IF answer = "404" THEN "empty" ELSE "error"
    <3>1. /\ content' = Notice(kind) /\ KeepCaches /\ UNCHANGED <<token, screen, form>>
          /\ timer' = IF answer = "429" THEN Retry(r) ELSE timer
      BY <1>6, <2>2 DEF PresentFailure
    <3>2. Retry(r) \in Routes /\ Retry(r) # None
      <4>1. Retry(r) \in Routes
        BY <1>1, <1>4 DEF Retry, Routes, Detail
      <4>2. Retry(r) # None
        BY <4>1, NoneAssumption
      <4> QED BY <4>1, <4>2
    <3>3. content'.kind = kind /\ kind \in {"limited", "empty", "error"}
      BY <3>1 DEF Notice, View
    <3>4. timer' \in Routes \cup {None} /\ (content'.kind = "limited" => timer' # None)
      BY <3>1, <3>2, <3>3, RequestsTyped
    <3>5. tableCache' \in [Tables -> TableStates]
      BY <3>1, RequestsTyped DEF KeepCaches
    <3>6. ContentInv'
      BY <3>3 DEF ContentInv
    <3> HIDE DEF kind
    <3> QED BY <1>1, <1>3, <3>1, <3>3, <3>4, <3>5, <3>6, ShownKeeps
  <2> QED BY <2>1, <2>2
<1> QED BY <1>2, <1>5, <1>6

LEMMA EnabledShape ==
  ASSUME UiInv
  PROVE  /\ Enabled # None => form # None
         /\ form # None =>
              /\ Enabled \in OpenRecord(Len(forms)) /\ Enabled.no = form.no
              /\ Enabled.entry = form.entry /\ Enabled.fingerprint = form.fingerprint
         /\ FormShown => Enabled.dryRun = TRUE
<1>1. CASE FormShown
  <2>1. form # None /\ form \in OpenRecord(Len(forms))
    BY <1>1 DEF FormShown, UiInv, OpenInv
  <2> QED BY <1>1, <2>1 DEF Enabled, OpenRecord
<1>2. CASE ~FormShown
  BY <1>2 DEF Enabled, UiInv, OpenInv
<1> QED BY <1>1, <1>2

(* A command answered while the page stays where it is.                    *)
LEMMA StayingKeeps ==
  ASSUME UiInv, NEW r \in requests, r.kind \in Mutating, Keep(Without(r)), KeepCaches,
         UNCHANGED <<token, screen, route, content, timer, forms, serverVars>>,
         OpenInv', FormShown' => form'.dryRun = TRUE
  PROVE  UiInv'
<1>1. /\ requests' = Without(r)
      /\ UNCHANGED <<token, screen, route, content, timer, tableCache, forms, schema, log,
                     previewed, sent>>
  BY DEF Keep, KeepCaches, serverVars
<1>2. PageInv' /\ ContentInv' /\ FormsInv' /\ ServerInv'
  BY <1>1 DEF UiInv, PageInv, ContentInv, FormsInv, ServerInv
<1>3. RequestsInv'
  BY <1>1, RequestsTyped, WithoutShape DEF RequestsInv
<1>4. \A q \in requests : q.kind \in Reading => q \in requests'
  BY <1>1, WithoutShape DEF Reading, Mutating
<1>5. NeverStuck'
  <2>1. screen' = "app" /\ content'.kind = "loading" =>
          \E q \in requests' : Awaited(q) /\ q.kind \in Reading
    BY <1>1, <1>4 DEF UiInv, NeverStuck
  <2>2. screen' = "app" /\ content'.kind = "limited" => timer' # None
    BY <1>1 DEF UiInv, NeverStuck
  <2> QED BY <2>1, <2>2 DEF NeverStuck
<1> QED BY <1>2, <1>3, <1>5 DEF UiInv

LEMMA LandsOnRoute ==
  ASSUME UiInv, NEW r \in requests, r.kind \in Mutating
  PROVE  Landing(forms[r.form], r.entry) \in Routes
<1> DEFINE f == forms[r.form]
<1>1. r.form \in 1..Len(forms) /\ (f.method \in Naming => r.entry \in Tables)
  BY RequestsTyped DEF RequestOK
<1>2. FormOK(f)
  BY <1>1, FormsLength
<1> HIDE DEF f
<1>3. f.method \notin Naming => f.table \in Tables
  BY <1>2 DEF FormOK, Naming
<1>4. Schemas \in Routes /\ \A t \in Tables : Detail(t) \in Routes
  BY DEF Routes, Schemas, Detail
<1>5. Landing(f, r.entry) \in Routes
  <2>1. CASE f.method = "dropTable"
    BY <1>4, <2>1 DEF Landing, Naming
  <2>2. CASE f.method \in Naming
    BY <1>1, <1>4, <2>2 DEF Landing, Naming, f
  <2>3. CASE f.method \notin Naming \cup {"dropTable"}
    BY <1>3, <1>4, <2>3 DEF Landing
  <2> QED BY <2>1, <2>2, <2>3
<1> QED BY <1>5 DEF f

LEMMA DeliverMutationKeeps ==
  ASSUME UiInv, DeliverMutation
  PROVE  UiInv'
<1>1. PICK r \in requests : \E answer \in Outcomes(r) :
        /\ r.kind \in Mutating
        /\ \/ /\ form' = Enabled
              /\ Keep(Without(r)) /\ KeepCaches
              /\ UNCHANGED <<token, screen, route, content, timer>>
           \/ /\ token' = None /\ DropCaches /\ ShowLogin /\ Keep(Without(r))
              /\ UNCHANGED <<route, content>>
           \/ /\ OwnForm(r) /\ answer = "ok" /\ r.kind = "dry-run"
              /\ form' = [Enabled EXCEPT !.fingerprint = r.entry]
              /\ Keep(Without(r)) /\ KeepCaches
              /\ UNCHANGED <<token, screen, route, content, timer>>
           \/ /\ DropCaches /\ form' = None
              /\ route' \in {Landing(forms[r.form], r.entry), route}
              /\ Load(Landing(forms[r.form], r.entry), None, NoTables, Without(r))
              /\ UNCHANGED <<token, screen, timer>>
  BY DEF DeliverMutation
<1>2. UNCHANGED <<forms, serverVars>> /\ previewed' = previewed
  BY DEF DeliverMutation, serverVars
<1>3. CASE /\ form' = Enabled
           /\ Keep(Without(r)) /\ KeepCaches
           /\ UNCHANGED <<token, screen, route, content, timer>>
  <2>1. OpenInv'
    BY <1>2, <1>3, EnabledShape DEF UiInv, OpenInv
  <2>2. FormShown' => form'.dryRun = TRUE
    BY <1>3, EnabledShape DEF FormShown
  <2> QED BY <1>1, <1>2, <1>3, <2>1, <2>2, StayingKeeps
<1>4. CASE /\ token' = None /\ DropCaches /\ ShowLogin /\ Keep(Without(r))
           /\ UNCHANGED <<route, content>>
  BY <1>2, <1>4, LoginKeeps
<1>5. ASSUME NEW answer \in Outcomes(r), OwnForm(r), answer = "ok", r.kind = "dry-run",
             form' = [Enabled EXCEPT !.fingerprint = r.entry],
             Keep(Without(r)), KeepCaches, UNCHANGED <<token, screen, route, content, timer>>
      PROVE  UiInv'
  <2>1. form # None /\ form.no = r.form
    BY <1>5 DEF OwnForm
  <2>2. /\ Enabled \in OpenRecord(Len(forms)) /\ Enabled.no = form.no
        /\ Enabled.entry = form.entry
    BY <2>1, EnabledShape
  <2>3. form.entry \in Entries(forms[form.no].method)
    BY <2>1 DEF UiInv, OpenInv
  <2>4. AnsweredOk(r) /\ r.entry \in Anything \cup {None}
    BY <1>5, RequestsTyped DEF Outcomes, AnsweredOk, RequestRecord
  <2>5. <<r.form, r.entry>> \in previewed
    BY <1>5, <2>4, RequestsTyped DEF RequestOK
  <2>6. /\ form' \in OpenRecord(Len(forms)) /\ form'.no = form.no /\ form'.entry = form.entry
        /\ form'.fingerprint = r.entry /\ form'.dryRun = Enabled.dryRun
    BY <1>5, <2>2, <2>4 DEF OpenRecord
  <2>7. OpenInv'
    BY <1>2, <2>1, <2>3, <2>5, <2>6 DEF OpenInv
  <2>8. FormShown' => form'.dryRun = TRUE
    BY <1>5, <2>1, <2>6, EnabledShape DEF FormShown
  <2> QED BY <1>2, <1>5, <2>7, <2>8, StayingKeeps DEF Mutating
<1>6. CASE /\ DropCaches /\ form' = None
           /\ route' \in {Landing(forms[r.form], r.entry), route}
           /\ Load(Landing(forms[r.form], r.entry), None, NoTables, Without(r))
           /\ UNCHANGED <<token, screen, timer>>
  <2> DEFINE x == Landing(forms[r.form], r.entry)
  <2>1. x \in Routes
    BY <1>1, LandsOnRoute
  <2>2. route' \in Routes /\ timer' \in Routes \cup {None} /\ token' \in Tokens \cup {None}
    BY <1>6, <2>1, RequestsTyped
  <2>3. Load(x, None, NoTables, Without(r)) /\ form' = None
    BY <1>6
  <2>4. tableCache' = NoTables /\ NoTables \in [Tables -> TableStates]
    BY <1>6, CachesDropped
  <2> HIDE DEF x
  <2> QED BY <1>2, <2>1, <2>2, <2>3, <2>4, WithoutShape, LoadKeeps
<1> QED BY <1>1, <1>3, <1>4, <1>5, <1>6

-------------------------------------------------------------------------------
(* The invariant holds.                                                    *)

LEMMA UiInvStarts == Init => UiInv
<1> SUFFICES ASSUME Init PROVE UiInv
  OBVIOUS
<1>1. PageInv
  BY DEF Init, PageInv, Routes, Schemas, NoTables, TableStates
<1>2. ContentInv /\ NeverStuck
  BY DEF Init, ContentInv, NeverStuck, Notice, View
<1>3. FormsInv /\ OpenInv
  BY DEF Init, FormsInv, OpenInv
<1>4. RequestsInv /\ ServerInv
  BY DEF Init, RequestsInv, ServerInv
<1> QED BY <1>1, <1>2, <1>3, <1>4 DEF UiInv

LEMMA UiInvUnchanged == ASSUME UiInv, UNCHANGED vars PROVE UiInv'
BY DEF vars, pageVars, serverVars, UiInv, PageInv, ContentInv, FormsInv, OpenInv, RequestsInv,
       ServerInv, NeverStuck, FormShown

LEMMA UiInvKept == UiInv /\ [Next]_vars => UiInv'
<1> SUFFICES ASSUME UiInv, [Next]_vars PROVE UiInv'
  OBVIOUS
<1>1. CASE Operator
  <2>1. CASE Navigate \/ Page
    BY <2>1, LoadsKeep
  <2>2. CASE Submit("dry-run") \/ Submit("apply")
    BY <2>2, SubmitKeeps DEF Mutating
  <2> QED BY <1>1, <2>1, <2>2, SubmitLoginKeeps, SignOutKeeps, OpenMutationKeeps, EditKeeps,
             CancelKeeps DEF Operator
<1>2. CASE Server
  BY <1>2, RejectKeeps, ServeReadKeeps, ServeDryRunKeeps, ServeApplyKeeps, OthersChangeKeeps
     DEF Server
<1>3. CASE Client
  <2>1. CASE TimerFires
    BY <2>1, LoadsKeep
  <2> QED BY <1>3, <2>1, DeliverProbeKeeps, DeliverReadKeeps, DeliverMutationKeeps DEF Client
<1>4. CASE UNCHANGED vars
  BY <1>4, UiInvUnchanged
<1> QED BY <1>1, <1>2, <1>3, <1>4 DEF Next

LEMMA UiInvHolds == Spec => []UiInv
BY UiInvStarts, UiInvKept, PTL DEF Spec

(* Nothing is sent for execution that the server has not dry-run exactly   *)
(* so, from that form (runMutation, revalidateFingerprint), for any number *)
(* of forms, submissions and answers in any order.                         *)
THEOREM AppliesArePreviewed == Spec => []AppliedWasPreviewed
<1>1. UiInv => AppliedWasPreviewed
  BY RequestsTyped DEF RequestOK, AppliedWasPreviewed
<1> QED BY <1>1, UiInvHolds, PTL

(* A form changes the database at most once: its key is on record once.    *)
THEOREM FormsChangeOnce == Spec => []OneChangePerForm
<1>1. UiInv => OneChangePerForm
  BY DEF UiInv, ServerInv, OneChangePerForm
<1> QED BY <1>1, UiInvHolds, PTL

(* The page never waits for nothing: a loading view has its read awaited,  *)
(* a limited one its timer, disabled buttons their command.                *)
THEOREM PageNeverStuck == Spec => []NeverStuck
<1>1. UiInv => NeverStuck
  BY DEF UiInv
<1> QED BY <1>1, UiInvHolds, PTL

-------------------------------------------------------------------------------
(* Refusals.                                                               *)

(* What a refusal answers is a command the server judged.                  *)
LEMMA RefusalsAreJudged ==
  ASSUME UiInv, Next, NEW q \in requests' \ requests, q.phase = "answered",
         q.answer = "refused"
  PROVE  \E p \in requests : /\ p.kind \in Mutating /\ Judge(p) = "refused"
                             /\ q.form = p.form /\ q.entry = p.entry /\ q.table = p.table
<1>1. ASSUME NEW p \in requests, NEW answer, NEW data, Reply(p, answer, data)
      PROVE  answer = "refused" /\ q.form = p.form /\ q.entry = p.entry /\ q.table = p.table
  <2>1. q = [p EXCEPT !.phase = "answered", !.answer = answer, !.data = data]
    BY <1>1 DEF Reply
  <2>2. p \in RequestRecord
    BY RequestsTyped
  <2> QED BY <2>1, <2>2 DEF RequestRecord
<1>2. \A p \in requests : q \notin Without(p)
  BY WithoutShape, RequestsTyped DEF RequestRecord
<1>3. ASSUME NEW x \in Routes, NEW shot, NEW cached \in [Tables -> TableStates],
             NEW rest \in SUBSET RequestRecord, Load(x, shot, cached, rest)
      PROVE  q \in rest
  BY <1>3, RequestsTyped, LoadShape
<1>4. Schemas \in Routes /\ [view |-> "history", table |-> None] \in Routes
      /\ NoTables \in [Tables -> TableStates]
  BY DEF Routes, Schemas, NoTables, TableStates
<1>5. CASE Operator \/ TimerFires
  <2>1. CASE Navigate \/ Page \/ TimerFires
    <3>1. PICK x \in Routes : Load(x, snapshotCache, tableCache, requests)
      BY <1>4, <2>1, RequestsTyped DEF Navigate, Page, TimerFires
    <3> QED BY <1>3, <3>1, RequestsTyped
  <2>2. CASE CancelMutation
    <3>1. \E x : Load(x, snapshotCache, tableCache, requests)
      BY <2>2 DEF CancelMutation
    <3> QED BY <3>1 DEF Load, Keep, Send, Request
  <2>3. CASE Submit("dry-run") \/ Submit("apply")
    BY <2>3 DEF Submit, Keep, Send, Request
  <2>4. CASE SubmitLogin
    BY <2>4 DEF SubmitLogin, Request
  <2>5. CASE SignOut \/ OpenMutation \/ Edit
    BY <2>5 DEF SignOut, OpenMutation, Edit
  <2> QED BY <1>5, <2>1, <2>2, <2>3, <2>4, <2>5 DEF Operator
<1>6. CASE Server
  <2>1. CASE Reject
    BY <1>1, <2>1 DEF Reject, Answers
  <2>2. CASE ServeRead
    BY <1>1, <2>2 DEF ServeRead, Answers
  <2>3. CASE ServeDryRun
    BY <1>1, <2>3, JudgeAnswers DEF ServeDryRun, Answers, Mutating
  <2>4. CASE ServeApply
    BY <1>1, <2>4, JudgeAnswers DEF ServeApply, Answers, Mutating
  <2>5. CASE OthersChange
    BY <2>5 DEF OthersChange
  <2> QED BY <1>6, <2>1, <2>2, <2>3, <2>4, <2>5 DEF Server
<1>7. CASE DeliverProbe
  <2>1. PICK r \in requests : Load(route, None, NoTables, Without(r)) \/ Keep(Without(r))
    BY <1>7 DEF DeliverProbe
  <2> QED BY <1>2, <1>3, <1>4, <2>1, WithoutShape, RequestsTyped DEF Keep
<1>8. CASE DeliverRead
  BY <1>2, <1>8 DEF DeliverRead, Keep
<1>9. CASE DeliverMutation
  <2>1. PICK r \in requests : /\ r.kind \in Mutating
                              /\ \/ Keep(Without(r))
                                 \/ Load(Landing(forms[r.form], r.entry), None, NoTables,
                                         Without(r))
    BY <1>9 DEF DeliverMutation
  <2>2. CASE Load(Landing(forms[r.form], r.entry), None, NoTables, Without(r))
    <3>1. Landing(forms[r.form], r.entry) \in Routes
      BY <2>1, LandsOnRoute
    <3> QED BY <1>2, <1>3, <1>4, <2>2, <3>1, WithoutShape
  <2> QED BY <1>2, <2>1, <2>2 DEF Keep
<1> QED BY <1>5, <1>6, <1>7, <1>8, <1>9 DEF Next, Client

(* What a form's own model offers, the executor does not refuse while the  *)
(* table is still as the model says.                                       *)
LEMMA FreshIsNotRefused ==
  ASSUME NEW f, FormOK(f), NEW entry, entry # "rewriting", f.table # None
  PROVE  ~ExposureRefuses(f.method, entry, f.model)
<1>1. f.model \in TableState /\ f.method \in Offered(View("table", f.table, f.model))
  BY DEF FormOK
<1> DEFINE view == View("table", f.table, f.model)
<1>2. view.kind = "table" /\ view.model = f.model
  BY DEF View
<1> HIDE DEF view
<1>3. /\ f.model.exposed => f.method \in Always \cup {"unexpose"}
      /\ ~f.model.exposed => f.method \in Always \cup OfColumns \cup OfUnexposed
      /\ FrozenWhenExposed = {"renameTable", "dropTable", "addColumn", "disableRls"} \cup OfColumns
  BY <1>1, <1>2, TableOffers DEF view, FrozenWhenExposed
<1> QED BY <1>3 DEF ExposureRefuses, Always, OfColumns, OfUnexposed

(* The executor refuses a form for the table's exposure only if the model  *)
(* the form was opened from is stale, or for a foreign key that rewrites.  *)
THEOREM RefusalsAreOfStaleForms == Spec => RefusedOnlyWhenStale
<1> DEFINE Refused(r) == [r EXCEPT !.phase = "answered", !.answer = "refused"]
           Step == \A r \in requests :
                     /\ Refused(r) \in requests' \ requests
                     /\ r.entry # "rewriting"
                     => forms[r.form].model # schema[r.table]
<1>1. ASSUME UiInv, Next
      PROVE  Step
  <2> SUFFICES ASSUME NEW r \in requests, Refused(r) \in requests' \ requests,
                      r.entry # "rewriting"
               PROVE  forms[r.form].model # schema[r.table]
    OBVIOUS
  <2>1. r \in RequestRecord
    BY <1>1, RequestsTyped
  <2>2. /\ Refused(r).phase = "answered" /\ Refused(r).answer = "refused"
        /\ Refused(r).form = r.form /\ Refused(r).entry = r.entry /\ Refused(r).table = r.table
    BY <2>1 DEF RequestRecord
  <2> HIDE DEF Refused
  <2>3. PICK p \in requests : /\ p.kind \in Mutating /\ Judge(p) = "refused"
                              /\ r.form = p.form /\ r.entry = p.entry /\ r.table = p.table
    BY <1>1, <2>2, RefusalsAreJudged
  <2>4. p.form \in 1..Len(forms) /\ p.table = forms[p.form].table
    BY <1>1, <2>3, RequestsTyped DEF RequestOK
  <2>5. FormOK(forms[p.form])
    BY <1>1, <2>4, FormsLength
  <2>6. /\ forms[p.form].table # None
        /\ ExposureRefuses(forms[p.form].method, p.entry, schema[forms[p.form].table])
    BY <2>3 DEF Judge
  <2>7. ~ExposureRefuses(forms[p.form].method, p.entry, forms[p.form].model)
    BY <2>3, <2>5, <2>6, FreshIsNotRefused
  <2> QED BY <2>3, <2>4, <2>6, <2>7
<1>2. ASSUME UiInv, [Next]_vars
      PROVE  [Step]_vars
  BY <1>1, <1>2
<1> QED BY <1>2, UiInvHolds, PTL DEF Spec, RefusedOnlyWhenStale

-------------------------------------------------------------------------------
(* The forms and their routes: one record of the fields of each command.   *)

(* The commands, by what their forms and their requests have in common.    *)
Bodyless ==
  {"dropColumnDefault", "setColumnNotNull", "setColumnNullable", "dropIndex", "dropConstraint"}

Renaming == {"renameTable", "renameColumn"}

Dropping == {"dropTable", "dropColumn"}

Listing == {"createIndex", "addUniqueConstraint"}

Naked == {"unexpose", "enableRls"}

Policing == {"createPolicy", "removePolicy"}

Singular == {"createTable", "addColumn", "setColumnDefault", "changeColumnType",
             "addForeignKey", "expose", "disableRls"}

Commands ==
  Bodyless \cup Renaming \cup Dropping \cup Listing \cup Naked \cup Policing \cup Singular

LEMMA FormParts ==
  /\ DOMAIN TableForms = {"createTable", "renameTable", "dropTable", "addColumn"}
  /\ DOMAIN ColumnForms = {"renameColumn", "dropColumn"}
  /\ DOMAIN ColumnRuleForms =
    {"setColumnDefault", "dropColumnDefault", "setColumnNotNull",
     "setColumnNullable", "changeColumnType"}
  /\ DOMAIN IndexForms = {"createIndex", "dropIndex"}
  /\ DOMAIN ConstraintForms = {"addUniqueConstraint", "dropConstraint", "addForeignKey"}
  /\ DOMAIN ExposureForms = {"expose", "unexpose"}
  /\ DOMAIN SecurityForms = {"enableRls", "disableRls", "createPolicy", "removePolicy"}
BY DEF TableForms, ColumnForms, ColumnRuleForms, IndexForms, ConstraintForms, ExposureForms,
    SecurityForms

(* No two lists of forms have a command in common, nor two of routes.      *)
LEMMA FormsFrom ==
  /\ DOMAIN Forms = Commands
  /\ \A m \in DOMAIN TableForms : Forms[m] = TableForms[m]
  /\ \A m \in DOMAIN ColumnForms : Forms[m] = ColumnForms[m]
  /\ \A m \in DOMAIN ColumnRuleForms : Forms[m] = ColumnRuleForms[m]
  /\ \A m \in DOMAIN IndexForms : Forms[m] = IndexForms[m]
  /\ \A m \in DOMAIN ConstraintForms : Forms[m] = ConstraintForms[m]
  /\ \A m \in DOMAIN ExposureForms : Forms[m] = ExposureForms[m]
  /\ \A m \in DOMAIN SecurityForms : Forms[m] = SecurityForms[m]
<1> DEFINE d1 == DOMAIN TableForms
           d2 == d1 \cup DOMAIN ColumnForms
           d3 == d2 \cup DOMAIN ColumnRuleForms
           d4 == d3 \cup DOMAIN IndexForms
           d5 == d4 \cup DOMAIN ConstraintForms
           d6 == d5 \cup DOMAIN ExposureForms
           d7 == d6 \cup DOMAIN SecurityForms
<1>1. DOMAIN Forms = d7
  BY DEF ++, Forms
<1>2. /\ \A m \in DOMAIN TableForms : Forms[m] = TableForms[m]
      /\ \A m \in DOMAIN ColumnForms \ d1 : Forms[m] = ColumnForms[m]
      /\ \A m \in DOMAIN ColumnRuleForms \ d2 : Forms[m] = ColumnRuleForms[m]
      /\ \A m \in DOMAIN IndexForms \ d3 : Forms[m] = IndexForms[m]
      /\ \A m \in DOMAIN ConstraintForms \ d4 : Forms[m] = ConstraintForms[m]
      /\ \A m \in DOMAIN ExposureForms \ d5 : Forms[m] = ExposureForms[m]
      /\ \A m \in DOMAIN SecurityForms \ d6 : Forms[m] = SecurityForms[m]
  BY DEF ++, Forms
<1>3. d7 = Commands
  BY FormParts DEF Commands, Bodyless, Renaming, Dropping, Listing, Naked, Policing, Singular
<1> QED
  BY <1>1, <1>2, <1>3, FormParts

LEMMA RouteParts ==
  /\ DOMAIN TableRoutes = {"createTable", "renameTable", "dropTable"}
  /\ DOMAIN ColumnRoutes = {"addColumn", "renameColumn", "dropColumn"}
  /\ DOMAIN ColumnRuleRoutes =
    {"setColumnDefault", "dropColumnDefault", "setColumnNotNull",
     "setColumnNullable", "changeColumnType"}
  /\ DOMAIN IndexRoutes = {"createIndex", "dropIndex"}
  /\ DOMAIN ConstraintRoutes = {"addUniqueConstraint", "dropConstraint", "addForeignKey"}
  /\ DOMAIN ExposureRoutes = {"expose", "unexpose"}
  /\ DOMAIN SecurityRoutes = {"enableRls", "disableRls", "createPolicy", "removePolicy"}
BY DEF TableRoutes, ColumnRoutes, ColumnRuleRoutes, IndexRoutes, ConstraintRoutes,
    ExposureRoutes, SecurityRoutes

LEMMA RoutesFrom ==
  /\ DOMAIN MutationRoutes = Commands
  /\ \A m \in DOMAIN TableRoutes : MutationRoutes[m] = TableRoutes[m]
  /\ \A m \in DOMAIN ColumnRoutes : MutationRoutes[m] = ColumnRoutes[m]
  /\ \A m \in DOMAIN ColumnRuleRoutes : MutationRoutes[m] = ColumnRuleRoutes[m]
  /\ \A m \in DOMAIN IndexRoutes : MutationRoutes[m] = IndexRoutes[m]
  /\ \A m \in DOMAIN ConstraintRoutes : MutationRoutes[m] = ConstraintRoutes[m]
  /\ \A m \in DOMAIN ExposureRoutes : MutationRoutes[m] = ExposureRoutes[m]
  /\ \A m \in DOMAIN SecurityRoutes : MutationRoutes[m] = SecurityRoutes[m]
<1> DEFINE d1 == DOMAIN TableRoutes
           d2 == d1 \cup DOMAIN ColumnRoutes
           d3 == d2 \cup DOMAIN ColumnRuleRoutes
           d4 == d3 \cup DOMAIN IndexRoutes
           d5 == d4 \cup DOMAIN ConstraintRoutes
           d6 == d5 \cup DOMAIN ExposureRoutes
           d7 == d6 \cup DOMAIN SecurityRoutes
<1>1. DOMAIN MutationRoutes = d7
  BY DEF ++, MutationRoutes
<1>2. /\ \A m \in DOMAIN TableRoutes : MutationRoutes[m] = TableRoutes[m]
      /\ \A m \in DOMAIN ColumnRoutes \ d1 : MutationRoutes[m] = ColumnRoutes[m]
      /\ \A m \in DOMAIN ColumnRuleRoutes \ d2 : MutationRoutes[m] = ColumnRuleRoutes[m]
      /\ \A m \in DOMAIN IndexRoutes \ d3 : MutationRoutes[m] = IndexRoutes[m]
      /\ \A m \in DOMAIN ConstraintRoutes \ d4 : MutationRoutes[m] = ConstraintRoutes[m]
      /\ \A m \in DOMAIN ExposureRoutes \ d5 : MutationRoutes[m] = ExposureRoutes[m]
      /\ \A m \in DOMAIN SecurityRoutes \ d6 : MutationRoutes[m] = SecurityRoutes[m]
  BY DEF ++, MutationRoutes
<1>3. d7 = Commands
  BY RouteParts DEF Commands, Bodyless, Renaming, Dropping, Listing, Naked, Policing, Singular
<1> QED
  BY <1>1, <1>2, <1>3, RouteParts

(* The fields of each form.                                                *)
LEMMA FormsOf ==
  /\ Forms["createTable"] =
       [schema |-> "name", table |-> "name", columns |-> "list"] ++ ColumnFields
  /\ Forms["renameTable"] = [new_name |-> "name"]
  /\ Forms["dropTable"] = [confirm |-> "exact"]
  /\ Forms["addColumn"] = ColumnFields
  /\ Forms["renameColumn"] = [new_name |-> "name"]
  /\ Forms["dropColumn"] = [confirm |-> "exact"]
  /\ Forms["setColumnDefault"] = DefaultFields
  /\ Forms["dropColumnDefault"] = NoFields
  /\ Forms["setColumnNotNull"] = NoFields
  /\ Forms["setColumnNullable"] = NoFields
  /\ Forms["changeColumnType"] = [to_type |-> "choice"]
  /\ Forms["createIndex"] = [columns |-> "list", name |-> "optional"]
  /\ Forms["dropIndex"] = NoFields
  /\ Forms["addUniqueConstraint"] = [columns |-> "list", name |-> "optional"]
  /\ Forms["dropConstraint"] = NoFields
  /\ Forms["addForeignKey"] =
       [columns |-> "list", ref_schema |-> "name", ref_table |-> "name",
        ref_columns |-> "list", on_update |-> "listed", on_delete |-> "listed", name |-> "optional"]
  /\ Forms["expose"] = [alias |-> "name"]
  /\ Forms["unexpose"] = NoFields
  /\ Forms["enableRls"] = NoFields
  /\ Forms["disableRls"] = [confirm |-> "exact"]
  /\ Forms["createPolicy"] = [policy_column |-> "choice", policy_template |-> "listed"]
  /\ Forms["removePolicy"] = [policy_column |-> "choice", policy_template |-> "listed"]
BY FormsFrom, FormParts DEF TableForms, ColumnForms, ColumnRuleForms, IndexForms,
    ConstraintForms, ExposureForms, SecurityForms

(* The fields of each route.                                               *)
LEMMA RoutesOf ==
  /\ MutationRoutes["createTable"] =
       [schema |-> "string", table |-> "string", columns |-> "specs"]
  /\ MutationRoutes["renameTable"] = [new_name |-> "string"]
  /\ MutationRoutes["dropTable"] = [confirm |-> "string"]
  /\ MutationRoutes["addColumn"] = [column |-> "spec"]
  /\ MutationRoutes["renameColumn"] = [new_name |-> "string"]
  /\ MutationRoutes["dropColumn"] = [confirm |-> "string"]
  /\ MutationRoutes["setColumnDefault"] = [default |-> "default"]
  /\ MutationRoutes["dropColumnDefault"] = NoFields
  /\ MutationRoutes["setColumnNotNull"] = NoFields
  /\ MutationRoutes["setColumnNullable"] = NoFields
  /\ MutationRoutes["changeColumnType"] = [to_type |-> "enum"]
  /\ MutationRoutes["createIndex"] = [columns |-> "strings", name |-> "optional"]
  /\ MutationRoutes["dropIndex"] = NoFields
  /\ MutationRoutes["addUniqueConstraint"] = [columns |-> "strings", name |-> "optional"]
  /\ MutationRoutes["dropConstraint"] = NoFields
  /\ MutationRoutes["addForeignKey"] =
       [columns |-> "strings", references |-> "reference", on_update |-> "enum",
        on_delete |-> "enum", name |-> "optional"]
  /\ MutationRoutes["expose"] = [schema |-> "string", table |-> "string", alias |-> "string"]
  /\ MutationRoutes["unexpose"] = [schema |-> "string", table |-> "string"]
  /\ MutationRoutes["enableRls"] = [schema |-> "string", table |-> "string"]
  /\ MutationRoutes["disableRls"] =
       [schema |-> "string", table |-> "string", confirm |-> "string"]
  /\ MutationRoutes["createPolicy"] =
       [schema |-> "string", table |-> "string", column |-> "string", template |-> "enum"]
  /\ MutationRoutes["removePolicy"] =
       [schema |-> "string", table |-> "string", column |-> "string", template |-> "enum"]
BY RoutesFrom, RouteParts DEF TableRoutes, ColumnRoutes, ColumnRuleRoutes, IndexRoutes,
    ConstraintRoutes, ExposureRoutes, SecurityRoutes, PolicyRoute


(* What a field of each kind may hold when the form passes.                *)
FieldKinds ==
  {"name", "exact", "list", "choice", "optional", "default", "literal", "listed", "flag"}

Sound(kind) ==
  CASE kind = "optional" -> {"blank", "good"}
    [] kind = "default" -> {"none", "good", "literal"}
    [] kind = "literal" -> {"bad", "good"}
    [] OTHER -> {"good"}

Filled(m, v) == DOMAIN v = Fields(m) /\ \A f \in Fields(m) : v[f] \in Sound(Forms[m][f])

(* The forms Fits ranges over.                                             *)
Passing(m) == {v \in Contents(m) : Passes(m, v) /\ \A f \in Fields(m) : v[f] # "many"}

LEMMA FormKinds ==
  ASSUME NEW m \in Commands, NEW f \in Fields(m)
  PROVE  Forms[m][f] \in FieldKinds
<1>1. /\ \A k \in DOMAIN ColumnFields : ColumnFields[k] \in FieldKinds
      /\ \A k \in DOMAIN DefaultFields : DefaultFields[k] \in FieldKinds
  BY DEF ++, ColumnFields, DefaultFields, FieldKinds
<1>2. \A k \in DOMAIN Forms["createTable"] : Forms["createTable"][k] \in FieldKinds
  BY <1>1, FormsOf DEF ++, FieldKinds
<1> QED
  BY <1>1, <1>2, FormsOf DEF Fields, FieldKinds, NoFields, Commands, Bodyless,
    Renaming, Dropping, Listing, Naked, Policing, Singular

(* What passes the checks of a form has its fields filled in well.         *)
LEMMA PassingIsFilled ==
  ASSUME NEW m \in Commands, NEW v \in Passing(m)
  PROVE  Filled(m, v)
<1> DEFINE free == Fields(m) \ Constrained(m)
           fixed == [f \in Constrained(m) |-> "good"]
<1>1. PICK w \in [free -> {"none", "blank", "bad", "good", "many", "literal"}] :
        v = w ++ fixed /\ \A f \in free : w[f] \in Fillings(Forms[m][f])
  BY DEF Passing, Contents
<1>2. DOMAIN v = Fields(m)
  BY <1>1 DEF ++, Constrained
<1>3. ASSUME NEW f \in Constrained(m) PROVE v[f] \in Sound(Forms[m][f])
  <2>1. v[f] = "good"
    BY <1>1, <1>3 DEF ++
  <2> QED
    BY <2>1 DEF Constrained, Sound
<1>4. ASSUME NEW f \in free PROVE v[f] \in Sound(Forms[m][f])
  <2>1. v[f] = w[f] /\ v[f] \in Fillings(Forms[m][f])
    BY <1>1, <1>4 DEF ++
  <2>2. /\ v[f] # "many"
        /\ Forms[m][f] # "optional" => v[f] # "blank"
        /\ Forms[m][f] # "literal" => v[f] # "bad"
    BY <1>4 DEF Passing, Passes
  <2>3. Forms[m][f] \in FieldKinds \ {"listed", "flag"}
    BY <1>4, FormKinds DEF Constrained
  <2> QED
    BY <2>1, <2>2, <2>3 DEF FieldKinds, Fillings, Sound
<1> QED
  BY <1>2, <1>3, <1>4 DEF Filled

(* A form with every field filled in well is one of them.                  *)
LEMMA GoodPasses ==
  ASSUME NEW m \in Commands
  PROVE  [f \in Fields(m) |-> "good"] \in Passing(m)
<1> DEFINE free == Fields(m) \ Constrained(m)
           fixed == [f \in Constrained(m) |-> "good"]
           w == [f \in free |-> "good"]
           v == [f \in Fields(m) |-> "good"]
<1>1. \A f \in free : w[f] \in Fillings(Forms[m][f])
  <2> TAKE f \in free
  <2>1. Forms[m][f] \in FieldKinds \ {"listed", "flag"}
    BY FormKinds DEF Constrained
  <2> QED
    BY <2>1 DEF FieldKinds, Fillings
<1>2. v = w ++ fixed
  BY DEF ++, Constrained
<1>3. v \in Contents(m)
  BY <1>1, <1>2 DEF Contents
<1>4. Passes(m, v)
  BY DEF Passes
<1> QED
  BY <1>3, <1>4 DEF Passing

-------------------------------------------------------------------------------
(* A filled form makes a body its route takes.                             *)

BodyOf(m, v) == Body(m, BuildInput(m, v))

Taken(m, body) ==
  /\ DOMAIN body \subseteq DOMAIN MutationRoutes[m]
  /\ \A f \in DOMAIN MutationRoutes[m] :
       \/ f \notin DOMAIN body /\ MutationRoutes[m][f] = "optional"
       \/ f \in DOMAIN body /\ TakesField(MutationRoutes[m][f], body[f])

Fitting(m, v) ==
  /\ Taken(m, BodyOf(m, v))
  /\ (\A f \in Fields(m) : v[f] = "good") => DOMAIN BodyOf(m, v) = DOMAIN MutationRoutes[m]

LEMMA GoodIsTaken ==
  \A as \in {"string", "optional", "enum", "strings"} : TakesField(as, "good")
BY DEF TakesField, TakesStrings

LEMMA BodylessFit ==
  ASSUME NEW m \in Bodyless, NEW v, Filled(m, v) PROVE Fitting(m, v)
<1>1. MutationRoutes[m] = NoFields /\ DOMAIN NoFields = {}
  BY RoutesOf DEF Bodyless, NoFields
<1>2. BodyOf(m, v) = NoFields
  BY DEF BodyOf, Body, Bodyless
<1> QED
  BY <1>1, <1>2 DEF Fitting, Taken

LEMMA RenamingFits ==
  ASSUME NEW m \in Renaming, NEW v, Filled(m, v) PROVE Fitting(m, v)
<1>1. Forms[m] = [new_name |-> "name"] /\ MutationRoutes[m] = [new_name |-> "string"]
  BY FormsOf, RoutesOf DEF Renaming
<1>2. v.new_name = "good"
  BY <1>1 DEF Filled, Fields, Sound
<1>3. CommandInput(m, v) = [newName |-> v.new_name]
  BY DEF CommandInput, Renaming
<1>4. BodyOf(m, v) = [new_name |-> "good"]
  BY <1>2, <1>3 DEF BodyOf, Body, Renaming, RenameBody, BuildInput, ++
<1> QED
  BY <1>1, <1>4, GoodIsTaken DEF Fitting, Taken

LEMMA DroppingFits ==
  ASSUME NEW m \in Dropping, NEW v, Filled(m, v) PROVE Fitting(m, v)
<1>1. Forms[m] = [confirm |-> "exact"] /\ MutationRoutes[m] = [confirm |-> "string"]
  BY FormsOf, RoutesOf DEF Dropping
<1>2. v.confirm = "good" /\ "confirm" \in DOMAIN v
  BY <1>1 DEF Filled, Fields, Sound
<1>3. CommandInput(m, v) = v
  BY DEF CommandInput, Dropping
<1>4. BodyOf(m, v) = [confirm |-> "good"]
  BY <1>2, <1>3 DEF BodyOf, Body, Dropping, Same, BuildInput, ++
<1> QED
  BY <1>1, <1>4, GoodIsTaken DEF Fitting, Taken

LEMMA ListingFits ==
  ASSUME NEW m \in Listing, NEW v, Filled(m, v) PROVE Fitting(m, v)
<1> DEFINE name == NameIfGiven(v)
<1>1. /\ Forms[m] = [columns |-> "list", name |-> "optional"]
      /\ MutationRoutes[m] = [columns |-> "strings", name |-> "optional"]
  BY FormsOf, RoutesOf DEF Listing
<1>2. v.columns = "good" /\ v.name \in {"blank", "good"} /\ "name" \in DOMAIN v
  BY <1>1 DEF Filled, Fields, Sound
<1>3. name = IF v.name = "blank" THEN NoFields ELSE [name |-> "good"]
  BY <1>2 DEF NameIfGiven
<1>4. BuildInput(m, v) = [columns |-> v.columns] ++ name ++ [k \in Target(m) |-> "good"]
  BY DEF BuildInput, CommandInput, Listing
<1>5. Target(m) = {"schema", "table"}
  BY FormParts DEF Target, Listing, PerColumn
<1>6. NameIfGiven(BuildInput(m, v)) = name /\ BuildInput(m, v).columns = "good"
  <2>1. CASE v.name = "blank"
    BY <1>2, <1>3, <1>4, <1>5, <2>1 DEF ++, NameIfGiven, NoFields
  <2>2. CASE v.name = "good"
    BY <1>2, <1>3, <1>4, <1>5, <2>2 DEF ++, NameIfGiven
  <2> QED
    BY <1>2, <2>1, <2>2
<1>7. BodyOf(m, v) = [columns |-> "good"] ++ name
  BY <1>6 DEF BodyOf, Body, Listing, Same
<1> QED
  <2>1. CASE v.name = "blank"
    <3>1. DOMAIN BodyOf(m, v) = {"columns"} /\ BodyOf(m, v).columns = "good"
      BY <1>3, <1>7, <2>1 DEF ++, NoFields
    <3> QED
      BY <1>1, <2>1, <3>1, GoodIsTaken DEF Fitting, Taken, Fields
  <2>2. CASE v.name = "good"
    <3>1. /\ DOMAIN BodyOf(m, v) = {"columns", "name"}
          /\ BodyOf(m, v).columns = "good" /\ BodyOf(m, v).name = "good"
      BY <1>3, <1>7, <2>2 DEF ++
    <3> QED
      BY <1>1, <3>1, GoodIsTaken DEF Fitting, Taken
  <2> QED
    BY <1>2, <2>1, <2>2

LEMMA NakedFit ==
  ASSUME NEW m \in Naked, NEW v, Filled(m, v) PROVE Fitting(m, v)
<1>1. Forms[m] = NoFields /\ MutationRoutes[m] = [schema |-> "string", table |-> "string"]
  BY FormsOf, RoutesOf DEF Naked
<1>2. DOMAIN v = {}
  BY <1>1 DEF Filled, Fields, NoFields
<1>3. BuildInput(m, v) = v ++ [k \in Target(m) |-> "good"]
  BY DEF BuildInput, CommandInput, Naked
<1>4. Target(m) = {"schema", "table"}
  BY FormParts DEF Target, Naked, PerColumn
<1>5. BuildInput(m, v).schema = "good" /\ BuildInput(m, v).table = "good"
  BY <1>2, <1>3, <1>4 DEF ++
<1>6. BodyOf(m, v) = [schema |-> "good", table |-> "good"]
  BY <1>5 DEF BodyOf, Body, Naked, Same
<1> QED
  BY <1>1, <1>6, GoodIsTaken DEF Fitting, Taken

LEMMA PolicingFits ==
  ASSUME NEW m \in Policing, NEW v, Filled(m, v) PROVE Fitting(m, v)
<1>1. /\ Forms[m] = [policy_column |-> "choice", policy_template |-> "listed"]
      /\ MutationRoutes[m] =
           [schema |-> "string", table |-> "string", column |-> "string", template |-> "enum"]
  BY FormsOf, RoutesOf DEF Policing
<1>2. v.policy_column = "good" /\ v.policy_template = "good"
  BY <1>1 DEF Filled, Fields, Sound
<1>3. BuildInput(m, v) = [column |-> "good", template |-> "good"] ++ [k \in Target(m) |-> "good"]
  BY <1>2 DEF BuildInput, CommandInput, Policing
<1>4. Target(m) = {"schema", "table"}
  BY FormParts DEF Target, Policing, PerColumn
<1>5. /\ BuildInput(m, v).schema = "good" /\ BuildInput(m, v).table = "good"
      /\ BuildInput(m, v).column = "good" /\ BuildInput(m, v).template = "good"
  BY <1>3, <1>4 DEF ++
<1>6. BodyOf(m, v) =
        [schema |-> "good", table |-> "good", column |-> "good", template |-> "good"]
  BY <1>5 DEF BodyOf, Body, Policing, Same
<1> QED
  BY <1>1, <1>6, GoodIsTaken DEF Fitting, Taken

LEMMA ExposeFits == ASSUME NEW v, Filled("expose", v) PROVE Fitting("expose", v)
<1>1. v.alias = "good" /\ DOMAIN v = {"alias"}
  BY FormsOf DEF Filled, Fields, Sound
<1>2. BuildInput("expose", v) = v ++ [k \in Target("expose") |-> "good"]
  BY DEF BuildInput, CommandInput
<1>3. Target("expose") = {"schema", "table"}
  BY FormParts DEF Target, PerColumn
<1>4. /\ BuildInput("expose", v).schema = "good" /\ BuildInput("expose", v).table = "good"
      /\ BuildInput("expose", v).alias = "good"
  BY <1>1, <1>2, <1>3 DEF ++
<1>5. BodyOf("expose", v) = [schema |-> "good", table |-> "good", alias |-> "good"]
  BY <1>4 DEF BodyOf, Body, Same
<1> QED
  BY <1>5, RoutesOf, GoodIsTaken DEF Fitting, Taken

LEMMA DisableRlsFits == ASSUME NEW v, Filled("disableRls", v) PROVE Fitting("disableRls", v)
<1>1. v.confirm = "good" /\ DOMAIN v = {"confirm"}
  BY FormsOf DEF Filled, Fields, Sound
<1>2. BuildInput("disableRls", v) = v ++ [k \in Target("disableRls") |-> "good"]
  BY DEF BuildInput, CommandInput
<1>3. Target("disableRls") = {"schema", "table"}
  BY FormParts DEF Target, PerColumn
<1>4. /\ BuildInput("disableRls", v).schema = "good" /\ BuildInput("disableRls", v).table = "good"
      /\ BuildInput("disableRls", v).confirm = "good"
  BY <1>1, <1>2, <1>3 DEF ++
<1>5. BodyOf("disableRls", v) = [schema |-> "good", table |-> "good", confirm |-> "good"]
  BY <1>4 DEF BodyOf, Body, Same
<1> QED
  BY <1>5, RoutesOf, GoodIsTaken DEF Fitting, Taken

LEMMA ChangeTypeFits ==
  ASSUME NEW v, Filled("changeColumnType", v) PROVE Fitting("changeColumnType", v)
<1>1. v.to_type = "good"
  BY FormsOf DEF Filled, Fields, Sound
<1>2. BuildInput("changeColumnType", v).toType = "good"
  BY <1>1 DEF BuildInput, CommandInput, ++
<1>3. BodyOf("changeColumnType", v) = [to_type |-> "good"]
  BY <1>2 DEF BodyOf, Body
<1> QED
  BY <1>3, RoutesOf, GoodIsTaken DEF Fitting, Taken

(* The default a form builds is one the routes take.                       *)
LEMMA DefaultIsTaken ==
  ASSUME NEW v, v.default_kind \in {"none", "good", "literal"}
  PROVE  TakesDefault(DefaultOf(v))
BY DEF TakesDefault, DefaultOf

LEMMA SetDefaultFits ==
  ASSUME NEW v, Filled("setColumnDefault", v) PROVE Fitting("setColumnDefault", v)
<1>1. v.default_kind \in {"none", "good", "literal"}
  BY FormsOf DEF Filled, Fields, Sound, DefaultFields
<1>2. BuildInput("setColumnDefault", v).default = DefaultOf(v)
  BY DEF BuildInput, CommandInput, ++
<1>3. BodyOf("setColumnDefault", v) = [default |-> DefaultOf(v)]
  BY <1>2 DEF BodyOf, Body, Same
<1>4. TakesField("default", DefaultOf(v))
  BY <1>1, DefaultIsTaken DEF TakesField
<1> QED
  BY <1>3, <1>4, RoutesOf DEF Fitting, Taken

LEMMA ColumnIsTaken ==
  ASSUME NEW v, v.name = "good", v.type = "good", v.nullable = "good",
         v.default_kind \in {"none", "good", "literal"}
  PROVE  TakesColumn(ColumnOf(v))
BY DefaultIsTaken DEF TakesColumn, ColumnOf

LEMMA AddColumnFits == ASSUME NEW v, Filled("addColumn", v) PROVE Fitting("addColumn", v)
<1>1. /\ v.name = "good" /\ v.type = "good" /\ v.nullable = "good"
      /\ v.default_kind \in {"none", "good", "literal"}
  BY FormsOf DEF Filled, Fields, Sound, ColumnFields, DefaultFields, ++
<1>2. BuildInput("addColumn", v).column = ColumnOf(v)
  BY DEF BuildInput, CommandInput, ++
<1>3. BodyOf("addColumn", v) = [column |-> ColumnOf(v)]
  BY <1>2 DEF BodyOf, Body, Same
<1>4. TakesField("spec", ColumnOf(v))
  BY <1>1, ColumnIsTaken DEF TakesField
<1> QED
  BY <1>3, <1>4, RoutesOf DEF Fitting, Taken

LEMMA CreateTableFits == ASSUME NEW v, Filled("createTable", v) PROVE Fitting("createTable", v)
<1> DEFINE specs == [rows |-> v.columns, spec |-> ColumnOf(v)]
<1>1. /\ v.schema = "good" /\ v.table = "good" /\ v.columns = "good"
      /\ v.name = "good" /\ v.type = "good" /\ v.nullable = "good"
      /\ v.default_kind \in {"none", "good", "literal"}
  BY FormsOf DEF Filled, Fields, Sound, ColumnFields, DefaultFields, ++
<1>2. /\ BuildInput("createTable", v).schema = "good"
      /\ BuildInput("createTable", v).table = "good"
      /\ BuildInput("createTable", v).columns = specs
  BY <1>1 DEF BuildInput, CommandInput, ++
<1>3. BodyOf("createTable", v) = [schema |-> "good", table |-> "good", columns |-> specs]
  BY <1>2 DEF BodyOf, Body, Same
<1>4. TakesField("specs", specs)
  BY <1>1, ColumnIsTaken DEF TakesField, TakesStrings
<1> QED
  BY <1>3, <1>4, RoutesOf, GoodIsTaken DEF Fitting, Taken

LEMMA ForeignKeyFits ==
  ASSUME NEW v, Filled("addForeignKey", v) PROVE Fitting("addForeignKey", v)
<1> DEFINE m == "addForeignKey"
           named == NameIfGiven(v)
           input == BuildInput(m, v)
           ref == [schema |-> "good", table |-> "good", columns |-> "good"]
           fixed == [columns |-> "good", references |-> ref, onUpdate |-> "good",
                     onDelete |-> "good"]
<1>1. /\ v.columns = "good" /\ v.on_update = "good" /\ v.on_delete = "good"
      /\ v.ref_schema = "good" /\ v.ref_table = "good" /\ v.ref_columns = "good"
      /\ v.name \in {"blank", "good"} /\ "name" \in Fields(m) /\ "name" \in DOMAIN v
  BY FormsOf DEF Filled, Fields, Sound
<1>2. named = IF v.name = "blank" THEN NoFields ELSE [name |-> "good"]
  BY <1>1 DEF NameIfGiven
<1>3. input = fixed ++ named ++ [k \in Target(m) |-> "good"]
  BY <1>1 DEF BuildInput, CommandInput
<1>4. Target(m) = {"schema", "table"}
  BY FormParts DEF Target, PerColumn
<1>5. /\ NameIfGiven(input) = named
      /\ input.columns = "good" /\ input.references = ref
      /\ input.onUpdate = "good" /\ input.onDelete = "good"
  <2>1. CASE v.name = "blank"
    BY <1>1, <1>2, <1>3, <1>4, <2>1 DEF ++, NameIfGiven, NoFields
  <2>2. CASE v.name = "good"
    BY <1>1, <1>2, <1>3, <1>4, <2>2 DEF ++, NameIfGiven
  <2> QED
    BY <1>1, <2>1, <2>2
<1>6. BodyOf(m, v) = [columns |-> "good", references |-> ref] ++ named
                       ++ [on_update |-> "good", on_delete |-> "good"]
  BY <1>5 DEF BodyOf, Body, ForeignKeyBody, Same
<1>7. TakesField("reference", ref)
  BY DEF TakesField, TakesReference, TakesStrings
<1> HIDE DEF ref
<1> QED
  <2>1. CASE v.name = "blank"
    <3>1. /\ DOMAIN BodyOf(m, v) = {"columns", "references", "on_update", "on_delete"}
          /\ BodyOf(m, v).columns = "good" /\ BodyOf(m, v).references = ref
          /\ BodyOf(m, v).on_update = "good" /\ BodyOf(m, v).on_delete = "good"
      BY <1>2, <1>6, <2>1 DEF ++, NoFields
    <3> QED
      BY <1>1, <1>7, <2>1, <3>1, RoutesOf, GoodIsTaken DEF Fitting, Taken
  <2>2. CASE v.name = "good"
    <3>1. /\ DOMAIN BodyOf(m, v) = {"columns", "references", "name", "on_update", "on_delete"}
          /\ BodyOf(m, v).columns = "good" /\ BodyOf(m, v).references = ref
          /\ BodyOf(m, v).name = "good"
          /\ BodyOf(m, v).on_update = "good" /\ BodyOf(m, v).on_delete = "good"
      BY <1>2, <1>6, <2>2 DEF ++
    <3> QED
      BY <1>7, <3>1, RoutesOf, GoodIsTaken DEF Fitting, Taken
  <2> QED
    BY <1>1, <2>1, <2>2

LEMMA EveryFormFits ==
  ASSUME NEW m \in Commands, NEW v, Filled(m, v)
  PROVE  Fitting(m, v)
BY BodylessFit, RenamingFits, DroppingFits, ListingFits, NakedFit, PolicingFits, ExposeFits,
   DisableRlsFits, ChangeTypeFits, SetDefaultFits, AddColumnFits, CreateTableFits,
   ForeignKeyFits DEF Commands, Singular

(* The parameters the client fills into a path are those the route reads.  *)
LEMMA PathsFit == ASSUME NEW m \in Commands PROVE PathParams(m) = RouteParams(m)
<1> DEFINE tableLevel == {"renameTable", "dropTable", "addColumn", "createIndex",
                          "addUniqueConstraint", "addForeignKey"}
           named == {"dropIndex", "dropConstraint"}
           inBody == {"expose", "unexpose", "enableRls", "disableRls", "createPolicy",
                      "removePolicy"}
<1>1. PerColumn = {"renameColumn", "dropColumn", "setColumnDefault", "dropColumnDefault",
                   "setColumnNotNull", "setColumnNullable", "changeColumnType"}
  BY FormParts DEF PerColumn
<1>2. DOMAIN (ExposureForms ++ SecurityForms) = inBody
  BY FormParts DEF ++
<1>3. {"renameColumn", "dropColumn"} \cup DOMAIN ColumnRuleRoutes = PerColumn
  BY <1>1, RouteParts
<1>4. CASE m \in tableLevel
  <2>1. Target(m) = {"schema", "table"} /\ m \notin inBody
    BY <1>1, <1>4 DEF Target
  <2>2. RouteParams(m) = {"schema", "table"}
    BY <1>1, <1>3, <1>4 DEF RouteParams
  <2> QED
    BY <1>2, <2>1, <2>2 DEF PathParams
<1>5. CASE m \in named
  <2>1. Target(m) = {"schema", "table", "name"} /\ m \notin inBody
    BY <1>1, <1>5 DEF Target
  <2>2. RouteParams(m) = {"schema", "table", "name"}
    BY <1>1, <1>3, <1>5 DEF RouteParams
  <2> QED
    BY <1>2, <2>1, <2>2 DEF PathParams
<1>6. CASE m \in PerColumn
  <2>1. Target(m) = {"schema", "table", "column"} /\ m \notin inBody
    BY <1>1, <1>6 DEF Target
  <2>2. RouteParams(m) = {"schema", "table", "column"}
    BY <1>1, <1>3, <1>6 DEF RouteParams
  <2> QED
    BY <1>2, <2>1, <2>2 DEF PathParams
<1>7. CASE m \in inBody \cup {"createTable"}
  <2>1. m = "createTable" => Target(m) = {}
    BY DEF Target
  <2>2. RouteParams(m) = {}
    BY <1>1, <1>3, <1>7 DEF RouteParams
  <2> QED
    BY <1>2, <1>7, <2>1, <2>2 DEF PathParams
<1> QED
  BY <1>1, <1>4, <1>5, <1>6, <1>7 DEF Commands, Bodyless, Renaming, Dropping, Listing, Naked,
    Policing, Singular

(* A route takes a body as a dry run too.                                  *)
LEMMA DryRunIsTaken ==
  ASSUME NEW m \in Commands, NEW body, Taken(m, body), NEW dryRun \in BOOLEAN
  PROVE  Takes(m, PathParams(m), WithDryRun(body, dryRun))
<1> DEFINE wire == WithDryRun(body, dryRun)
<1>1. "dry_run" \notin DOMAIN MutationRoutes[m]
  BY RoutesOf DEF Commands, Bodyless, Renaming, Dropping, Listing, Naked, Policing, Singular,
    NoFields
<1>2. /\ DOMAIN wire \subseteq DOMAIN body \cup {"dry_run"}
      /\ DOMAIN body \subseteq DOMAIN wire
      /\ \A f \in DOMAIN body : wire[f] = body[f]
  BY DEF WithDryRun, ++
<1>3. \A f \in DOMAIN MutationRoutes[m] : f \in DOMAIN wire <=> f \in DOMAIN body
  BY <1>1, <1>2
<1> QED
  BY <1>2, <1>3, PathsFit DEF Taken, Takes

(* Every form fits its route.                                              *)
LEMMA FormsFit == MethodNames \subseteq FittingForms
<1> SUFFICES ASSUME NEW m \in Commands PROVE Fits(m)
  BY FormsFrom, RoutesFrom DEF FittingForms, MethodNames
<1>1. ASSUME NEW v \in Passing(m) PROVE Fitting(m, v)
  BY <1>1, PassingIsFilled, EveryFormFits
<1>2. ASSUME NEW v \in Passing(m), NEW dryRun \in BOOLEAN
      PROVE  Takes(m, PathParams(m), WithDryRun(BodyOf(m, v), dryRun))
  BY <1>1, <1>2, DryRunIsTaken DEF Fitting
<1>3. DOMAIN MutationRoutes[m] = UNION {DOMAIN BodyOf(m, v) : v \in Passing(m)}
  <2> DEFINE good == [f \in Fields(m) |-> "good"]
  <2>1. \A v \in Passing(m) : DOMAIN BodyOf(m, v) \subseteq DOMAIN MutationRoutes[m]
    BY <1>1 DEF Fitting, Taken
  <2>2. good \in Passing(m) /\ DOMAIN BodyOf(m, good) = DOMAIN MutationRoutes[m]
    <3>1. good \in Passing(m)
      BY GoodPasses
    <3> QED
      BY <1>1, <3>1 DEF Fitting
  <2> HIDE DEF good
  <2> QED
    BY <2>1, <2>2
<1> QED
  BY <1>2, <1>3, Zenon DEF Fits, Passing, BodyOf

(* Whatever the page offers, in whatever state, has a form whose checks    *)
(* pass nothing its route refuses for its shape, dry run or not, and that  *)
(* can fill every field of the route.                                      *)
THEOREM FormsAreTaken == Spec => []FormsFitRoutes
<1>1. Offered(content) \subseteq Commands
  <2>1. CASE content.kind = "table"
    <3>1. Offered(content) \subseteq Kinds
      BY <2>1, TableOffers DEF Kinds
    <3> QED
      BY <3>1 DEF Kinds, Always, OfColumns, OfUnexposed, Commands, Bodyless, Renaming, Dropping,
        Listing, Naked, Policing, Singular
  <2>2. CASE content.kind # "table"
    BY <2>2 DEF Offered, Commands, Singular
  <2> QED
    BY <2>1, <2>2
<1>2. FormsFitRoutes
  BY <1>1, FormsFrom, FormsFit DEF FormsFitRoutes, MethodNames
<1> QED
  BY <1>2, PTL

================================================================================
