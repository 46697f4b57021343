----------------------------- MODULE ManagedTables -----------------------------
(***************************************************************************)
(* The operator tables the schema-admin lane manages, and the durable      *)
(* exposure registry (microjbase.exposure_registry), with the commands of  *)
(* schema-exposure.ts, schema-mutations.ts and schema-rls.ts.  A command   *)
(* checks twice: its service preflights against the catalogue and the      *)
(* served snapshot, without a lock; the guard statement of its sealed plan *)
(* checks again under the advisory lock.  A plan takes effect as a whole   *)
(* or not at all (SchemaDdlExecutor), so the runtime role's grants on a    *)
(* table are there exactly while its registry row says exposed.            *)
(*                                                                         *)
(* SchemaCommands has the same commands over the whole catalogue, and      *)
(* implements this module; RuntimeRegistry interleaves them with refreshes.*)
(***************************************************************************)
CONSTANTS
  Tables,
  Shapes,      \* the column layouts a table may have
  Templates,   \* the ownership policy templates: read, insert, update, delete
  Keys,        \* idempotency keys
  None         \* no table

ASSUME NoneIsNotAShape == None \notin Shapes

VARIABLES
  shape,      \* [Tables -> Shapes \cup {None}], None while it does not exist
  forced,     \* row security enabled and forced
  policies,   \* the templates each table has ownership policies of
  exposed     \* the tables the durable registry lists as exposed

tableVars == <<shape, forced, policies, exposed>>

Kinds == {"expose", "unexpose", "alter", "rename", "drop", "create", "enableRls", "disableRls",
          "addPolicy", "removePolicy"}

ExposureKinds == {"expose", "unexpose"}

(* A command, with the idempotency key its caller chose; `to' is the new   *)
(* name of a table.                                                        *)
Request == [key : Keys, kind : Kinds, table : Tables, to : Tables, shape : Shapes,
            template : Templates]

TablesTypeOK ==
  /\ shape \in [Tables -> Shapes \cup {None}]
  /\ forced \in [Tables -> BOOLEAN]
  /\ policies \in [Tables -> SUBSET Templates]
  /\ exposed \in SUBSET Tables

Exists(t) == shape[t] # None

(* What verifyExposureCandidate asks of a table.                           *)
FullyProtected(t) == forced[t] /\ policies[t] = Templates

(* A database some commands have been applied to already: no row security  *)
(* and no policy without a table, no exposed table without either.         *)
TablesInit ==
  /\ TablesTypeOK
  /\ \A t \in Tables : forced[t] \/ policies[t] # {} => Exists(t)
  /\ \A t \in exposed : forced[t] /\ policies[t] # {}

(* The preflight of a command that is not on record yet; `served' is what  *)
(* the in-memory registry lists.                                           *)
Preflight(r, served) ==
  LET t == r.table IN
  \/ r.kind = "expose" /\ t \notin exposed /\ Exists(t) /\ FullyProtected(t)
  \/ r.kind = "unexpose" /\ t \in exposed /\ Exists(t)
  \/ r.kind \in {"alter", "drop", "disableRls"} /\ Exists(t) /\ t \notin served
  \/ r.kind = "rename" /\ Exists(t) /\ t \notin served /\ ~Exists(r.to)
  \/ r.kind = "create" /\ ~Exists(t)
  \/ r.kind = "enableRls" /\ Exists(t)
  \/ r.kind = "addPolicy" /\ Exists(t) /\ r.template \notin policies[t]
  \/ r.kind = "removePolicy" /\ Exists(t) /\ r.template \in policies[t]

-------------------------------------------------------------------------------
(* A plan commits.  What must hold under the lock for it to run to its end *)
(* are the guard statements (9C003, 9C004) and the errors of the DDL.      *)

(* exposedGuardStatement.                                                  *)
AssertNotExposed(t) == t \notin exposed

Expose(t) ==
  /\ t \notin exposed /\ forced[t] /\ policies[t] # {}
  /\ exposed' = exposed \cup {t}
  /\ UNCHANGED <<shape, forced, policies>>

Unexpose(t) ==
  /\ Exists(t)
  /\ exposed' = exposed \ {t}
  /\ UNCHANGED <<shape, forced, policies>>

(* Faulty variant of Alter: it relies on its preflight alone.              *)
AlterUnguarded(t, layout) ==
  /\ Exists(t)
  /\ shape' = [shape EXCEPT ![t] = layout]
  /\ UNCHANGED <<forced, policies, exposed>>

Alter(t, layout) ==
  /\ AssertNotExposed(t)
  /\ Exists(t)
  /\ shape' = [shape EXCEPT ![t] = layout]
  /\ UNCHANGED <<forced, policies, exposed>>

(* Row security and policies follow the table to its new name.             *)
Rename(t, new) ==
  /\ AssertNotExposed(t)
  /\ Exists(t) /\ ~Exists(new)
  /\ shape' = [shape EXCEPT ![new] = shape[t], ![t] = None]
  /\ forced' = [forced EXCEPT ![new] = forced[t], ![t] = FALSE]
  /\ policies' = [policies EXCEPT ![new] = policies[t], ![t] = {}]
  /\ UNCHANGED exposed

Recreate(t, layout) ==
  /\ shape' = [shape EXCEPT ![t] = layout]
  /\ forced' = [forced EXCEPT ![t] = FALSE]
  /\ policies' = [policies EXCEPT ![t] = {}]
  /\ UNCHANGED exposed

Drop(t) == AssertNotExposed(t) /\ Exists(t) /\ Recreate(t, None)

Create(t, layout) == ~Exists(t) /\ Recreate(t, layout)

SetForced(t, value) ==
  /\ Exists(t)
  /\ forced' = [forced EXCEPT ![t] = value]
  /\ UNCHANGED <<shape, policies, exposed>>

EnableRls(t) == SetForced(t, TRUE)

(* Faulty variant of DisableRls: the plan does not lead with the guard.    *)
DisableRlsUnguarded(t) == SetForced(t, FALSE)

DisableRls(t) == AssertNotExposed(t) /\ SetForced(t, FALSE)

SetPolicies(t, s) ==
  /\ Exists(t)
  /\ policies' = [policies EXCEPT ![t] = s]
  /\ UNCHANGED <<shape, forced, exposed>>

AddPolicy(t, p) == p \notin policies[t] /\ SetPolicies(t, policies[t] \cup {p})

RemovePolicy(t, p) == p \in policies[t] /\ SetPolicies(t, policies[t] \ {p})

TakeEffect(r) ==
  LET t == r.table IN
  \/ r.kind = "expose" /\ Expose(t)
  \/ r.kind = "unexpose" /\ Unexpose(t)
  \/ r.kind = "alter" /\ Alter(t, r.shape)
  \/ r.kind = "rename" /\ Rename(t, r.to)
  \/ r.kind = "drop" /\ Drop(t)
  \/ r.kind = "create" /\ Create(t, r.shape)
  \/ r.kind = "enableRls" /\ EnableRls(t)
  \/ r.kind = "disableRls" /\ DisableRls(t)
  \/ r.kind = "addPolicy" /\ AddPolicy(t, r.template)
  \/ r.kind = "removePolicy" /\ RemovePolicy(t, r.template)

-------------------------------------------------------------------------------
(* The tables by themselves: one plan after the other.  The layout of an   *)
(* alteration or a creation is the one the table then has.                 *)

TableChange(t) ==
  \/ Expose(t) \/ Unexpose(t)
  \/ Drop(t) \/ (\E new \in Tables : Rename(t, new))
  \/ shape'[t] \in Shapes /\ (Alter(t, shape'[t]) \/ Create(t, shape'[t]))
  \/ EnableRls(t) \/ DisableRls(t)
  \/ \E p \in Templates : AddPolicy(t, p) \/ RemovePolicy(t, p)

TablesSpec == TablesInit /\ [][\E t \in Tables : TableChange(t)]_tableVars
===============================================================================
