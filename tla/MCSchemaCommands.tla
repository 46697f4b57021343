---------------------------- MODULE MCSchemaCommands ----------------------------
(***************************************************************************)
(* A small instance of SchemaCommands: two tables, and what races three    *)
(* calls make over them.                                                   *)
(***************************************************************************)
EXTENDS SchemaCommands, Integers, TLC

CONSTANTS c1, c2, c3

Uuid == PlainColumn("uuid", FALSE)

Accounts ==
  [columns |-> [id |-> IdColumn, owner |-> Uuid, n |-> PlainColumn("integer", FALSE), m |-> None],
   objects |-> {Primary("accounts")},
   policies |-> {[name |-> <<"accounts", "owner", "read">>, column |-> "owner"]},
   forced |-> TRUE, owned |-> TRUE]

Notes ==
  [columns |-> [id |-> IdColumn, owner |-> Uuid, n |-> PlainColumn("other", FALSE), m |-> None],
   objects |-> {Primary("notes"),
                [name |-> <<"index", "notes", "owner">>, column |-> "owner",
                 target |-> None, action |-> None]},
   policies |-> {}, forced |-> FALSE, owned |-> TRUE]

MCNames == {"accounts", "notes", "spare"}

(* A table with a key that the operator's own migrations gave it.          *)
Keyed(v, table, target, action) ==
  [v EXCEPT !.objects = @ \cup {[name |-> <<"fkey", table, "owner">>, column |-> "owner",
                                 target |-> target, action |-> action]}]

(* The import may have listed accounts: it is verifiable.                  *)
MCDatabases ==
  {[t \in MCNames |-> CASE t = "accounts" -> d[1] [] t = "notes" -> d[2] [] OTHER -> None] :
     d \in {<<Accounts, Notes>>,
            <<Keyed(Accounts, "accounts", "notes", "cascade"), Notes>>,
            <<Accounts, Keyed(Notes, "notes", "accounts", "set_null")>>}}

Plan(kind, table, column, to, action) ==
  [kind |-> kind, table |-> table, column |-> column, to |-> to, action |-> action,
   name |-> <<>>]

Dropping(kind, table, name) == [Plan(kind, table, "n", "", "") EXCEPT !.name = name]

Ask(key, command) == [command |-> command, key |-> key, dryRun |-> FALSE, confirmed |-> TRUE]

DryRunOf(r) == [r EXCEPT !.dryRun = TRUE]

Unconfirmed(r) == [r EXCEPT !.confirmed = FALSE]

OnAccounts(key, kind) == Ask(key, Plan(kind, "accounts", "n", "", ""))

ExposeIt == OnAccounts("k1", "expose")
UnexposeIt == OnAccounts("k2", "unexpose")
Disable == OnAccounts("k2", "disableRls")
Enable == OnAccounts("k3", "enableRls")
Widen(key, type) == Ask(key, Plan("changeType", "accounts", "n", type, ""))
Reference(key, action) == Ask(key, Plan("addForeignKey", "notes", "owner", "accounts", action))
Unkey(key) == Ask(key, Dropping("dropConstraint", "accounts", <<"fkey", "accounts", "owner">>))
Drop(key) == OnAccounts(key, "dropColumn")
Rename(key, table, to) == Ask(key, Plan("renameTable", table, "n", to, ""))
OnNotes(key, kind) == Ask(key, Plan(kind, "notes", "owner", "read", ""))

MCRaces ==
  {{ExposeIt, Reference("k2", "cascade"), UnexposeIt},
   {ExposeIt, Rename("k2", "accounts", "spare"), Reference("k3", "set_null")},
   {ExposeIt, UnexposeIt, Unkey("k3")},
   {ExposeIt, Disable, Enable},
   {ExposeIt, Drop("k2"), Ask("k3", Plan("addColumn", "accounts", "n", "text", "required"))},
   {ExposeIt, OnAccounts("k1", "setNotNull"), DryRunOf(UnexposeIt)},
   {Widen("k1", "bigint"), Widen("k2", "numeric"), OnAccounts("k3", "setDefault")},
   {Widen("k1", "bigint"), Widen("k1", "numeric"), OnAccounts("k1", "setDefault")},
   {OnAccounts("k1", "createIndex"), Drop("k2"), DryRunOf(Widen("k2", "bigint"))},
   {OnAccounts("k1", "setNotNull"), Unconfirmed(Drop("k1")), OnAccounts("k2", "dropNotNull")},
   {OnAccounts("k1", "dropDefault"), Unconfirmed(DryRunOf(Drop("k1"))),
    Ask("k2", Plan("setDefault", "notes", "n", "", ""))},
   {Ask("k1", Plan("renameColumn", "accounts", "n", "m", "")), OnAccounts("k2", "addUnique"),
    Ask("k3", Dropping("dropConstraint", "accounts", <<"unique", "accounts", "n">>))},
   {Rename("k1", "notes", "spare"), Ask("k2", Plan("createTable", "notes", "n", "text", "")),
    Ask("k3", Dropping("dropIndex", "notes", <<"index", "notes", "owner">>))},
   {Reference("k1", "no_action"), OnAccounts("k2", "dropTable"),
    Ask("k3", Plan("renameColumn", "accounts", "n", "id", ""))},
   {OnNotes("k1", "createPolicy"), OnNotes("k2", "removePolicy"), OnNotes("k3", "enableRls")}}

MCRequests == UNION MCRaces

Asked == {request[c] : c \in Calls}

(* Any two of the requests, one of them perhaps sent twice, and the races. *)
MCInit ==
  /\ Init
  /\ Cardinality(Asked) <= 2 \/ Asked \in MCRaces

MCSpec == MCInit /\ [][Next]_vars

MCSymmetry == Permutations(Calls)
===============================================================================
