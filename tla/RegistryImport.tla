----------------------------- MODULE RegistryImport -----------------------------
(***************************************************************************)
(* How server processes start against the durable exposure registry        *)
(* (start() in main.ts, importInitialExposure in exposure-registry.ts, the *)
(* SQL function import_exposure_registry of migration 0006): the first     *)
(* start seeds it from MICROJBASE_TABLES, after that it is the only source *)
(* of exposure.  Several processes may start at once, each with its own    *)
(* configuration; every query is an await of its own, may fail, and the    *)
(* import may take effect after its caller was told it failed.             *)
(***************************************************************************)
EXTENDS Naturals, Sequences

CONSTANTS
  Processes,
  Mappings,      \* alias and target, as MICROJBASE_TABLES pairs them
  Configs,       \* the sets of mappings a process may be configured with
  None,
  MaxLaunches,   \* bound on process starts
  MaxCommands    \* bound on expose and unexpose commands

ASSUME ConfigsTyped == Configs \subseteq SUBSET Mappings /\ \A tables \in Configs : tables # None
ASSUME BoundsAreNat == MaxLaunches \in Nat /\ MaxCommands \in Nat

VARIABLES
  initialized,  \* exposure_registry_state.initialized
  exposed,      \* the rows of exposure_registry with exposed = TRUE
  late,         \* per process: an import it gave up on and the server may still run
  pc,           \* where start() of each process stands
  config,       \* its MICROJBASE_TABLES
  seeding,      \* did its first read find the registry uninitialized
  guard,        \* the initialized flag its latest read returned
  rows,         \* the exposed rows its latest read returned
  launches,
  commands,
  history,      \* ghost: the exposed sets since the initialization
  launchedAt,   \* ghost: the length of history when each process was launched
  decided       \* ghost: the operator's last word on each mapping

registryVars == <<initialized, exposed, history>>
localVars == <<config, seeding, guard, rows, launchedAt>>
vars == <<registryVars, localVars, late, pc, launches, commands, decided>>

(* Migrations 0006 and 0007 have been applied, nothing has started yet.    *)
Init ==
  /\ initialized = FALSE
  /\ exposed = {}
  /\ late = [p \in Processes |-> None]
  /\ pc = [p \in Processes |-> "down"]
  /\ config \in [Processes -> Configs]
  /\ seeding = [p \in Processes |-> FALSE]
  /\ guard = [p \in Processes |-> FALSE]
  /\ rows = [p \in Processes |-> {}]
  /\ launches = 0
  /\ commands = 0
  /\ history = <<>>
  /\ launchedAt = [p \in Processes |-> 0]
  /\ decided = [m \in Mappings |-> "none"]

-------------------------------------------------------------------------------
Goto(p, point) == pc' = [pc EXCEPT ![p] = point]

Starting(p) == pc[p] \notin {"down", "up", "failed", "conflict"}

(* Faulty variant of Import: the guard of the SQL function is missing.     *)
ImportUnguarded(payload) ==
  /\ initialized' = TRUE
  /\ exposed' = exposed \cup payload
  /\ history' = Append(history, exposed \cup payload)

(* The SQL function: under its advisory lock it refuses a second call, or  *)
(* inserts the rows and sets the guard in one statement.                   *)
Import(payload) ==
  /\ ~initialized
  /\ initialized' = TRUE
  /\ exposed' = payload
  /\ history' = Append(history, payload)

(* The operator starts a process, perhaps with a new configuration.        *)
Launch(p) ==
  /\ pc[p] \in {"down", "failed", "conflict"}
  /\ launches < MaxLaunches
  /\ launches' = launches + 1
  /\ \E tables \in Configs : config' = [config EXCEPT ![p] = tables]
  /\ launchedAt' = [launchedAt EXCEPT ![p] = Len(history)]
  /\ Goto(p, "state")
  /\ UNCHANGED <<registryVars, late, seeding, guard, rows, commands, decided>>

(* readExposureRegistryState: the guard row, then the exposed rows.        *)
ReadState(p) ==
  /\ pc[p] = "state"
  /\ guard' = [guard EXCEPT ![p] = initialized]
  /\ seeding' = [seeding EXCEPT ![p] = ~initialized]
  /\ Goto(p, "rows")
  /\ UNCHANGED <<registryVars, config, rows, launchedAt, late, launches, commands, decided>>

ReadRows(p) ==
  /\ pc[p] = "rows"
  /\ rows' = [rows EXCEPT ![p] = exposed]
  /\ Goto(p, IF guard[p] THEN "serve" ELSE "validate")
  /\ UNCHANGED <<registryVars, config, seeding, guard, launchedAt, late, launches, commands,
                 decided>>

(* buildTableRegistry over the configured mappings, before anything is     *)
(* written; when one is not fit, Fails ends the start.                     *)
Validate(p) ==
  /\ pc[p] = "validate"
  /\ Goto(p, "check")
  /\ UNCHANGED <<registryVars, localVars, late, launches, commands, decided>>

(* importInitialExposure reads the guard again before it calls the import. *)
Check(p) ==
  /\ pc[p] = "check"
  /\ Goto(p, IF initialized THEN "conflict" ELSE "import")
  /\ UNCHANGED <<registryVars, localVars, late, launches, commands, decided>>

ImportSucceeds(p) ==
  /\ pc[p] = "import"
  /\ Import(config[p])
  /\ Goto(p, "won")
  /\ UNCHANGED <<localVars, late, launches, commands, decided>>

(* The function raises, the connection fails, or the driver's timeout      *)
(* fires; in the latter cases the server may still run the import.         *)
ImportFails(p) ==
  /\ pc[p] = "import"
  /\ \/ UNCHANGED late
     \/ late' = [late EXCEPT ![p] = config[p]]
  /\ Goto(p, "lost")
  /\ UNCHANGED <<registryVars, localVars, launches, commands, decided>>

ImportArrives(p) ==
  /\ late[p] # None
  /\ Import(late[p])
  /\ late' = [late EXCEPT ![p] = None]
  /\ UNCHANGED <<localVars, pc, launches, commands, decided>>

(* After a successful import the state is read again.                      *)
ReadOwnImport(p) ==
  /\ pc[p] = "won"
  /\ rows' = [rows EXCEPT ![p] = exposed]
  /\ Goto(p, "serve")
  /\ UNCHANGED <<registryVars, config, seeding, guard, launchedAt, late, launches, commands,
                 decided>>

(* After a failed one as well: did another process win the race, and with  *)
(* the same set?                                                           *)
ReadWinnerState(p) ==
  /\ pc[p] = "lost"
  /\ guard' = [guard EXCEPT ![p] = initialized]
  /\ Goto(p, "lostRows")
  /\ UNCHANGED <<registryVars, config, seeding, rows, launchedAt, late, launches, commands,
                 decided>>

(* Faulty variants of AdoptWinner: any winner is adopted; the state read   *)
(* before the import is used.                                              *)
AdoptAnyWinner(p) ==
  /\ pc[p] = "lostRows"
  /\ rows' = [rows EXCEPT ![p] = exposed]
  /\ Goto(p, IF guard[p] THEN "serve" ELSE "failed")
  /\ UNCHANGED <<registryVars, config, seeding, guard, launchedAt, late, launches, commands,
                 decided>>

AdoptStaleRows(p) ==
  /\ pc[p] = "lostRows"
  /\ Goto(p, IF ~guard[p] THEN "failed" ELSE IF exposed = config[p] THEN "serve" ELSE "conflict")
  /\ UNCHANGED <<registryVars, localVars, late, launches, commands, decided>>

AdoptWinner(p) ==
  /\ pc[p] = "lostRows"
  /\ rows' = [rows EXCEPT ![p] = exposed]
  /\ \/ ~guard[p] /\ Goto(p, "failed")
     \/ guard[p] /\ exposed = config[p] /\ Goto(p, "serve")
     \/ guard[p] /\ exposed # config[p] /\ Goto(p, "conflict")
  /\ UNCHANGED <<registryVars, config, seeding, guard, launchedAt, late, launches, commands,
                 decided>>

(* The role and table checks pass, the snapshot is built from the rows     *)
(* read, and the server listens.                                           *)
Serve(p) ==
  /\ pc[p] = "serve"
  /\ Goto(p, "up")
  /\ UNCHANGED <<registryVars, localVars, late, launches, commands, decided>>

(* A query fails or a table does not pass its checks: start() closes its   *)
(* pools and throws.                                                       *)
Fails(p) ==
  /\ Starting(p)
  /\ pc[p] # "import"
  /\ Goto(p, "failed")
  /\ UNCHANGED <<registryVars, localVars, late, launches, commands, decided>>

(* The process dies; an import it has sent may still be run.               *)
Crash(p) ==
  /\ pc[p] = "up" \/ Starting(p)
  /\ \/ UNCHANGED late
     \/ pc[p] = "import" /\ late' = [late EXCEPT ![p] = config[p]]
  /\ Goto(p, "down")
  /\ UNCHANGED <<registryVars, localVars, launches, commands, decided>>

(* An expose or unexpose command through the admin lane of a process that  *)
(* is up (ManagedTables has their checks).                                 *)
Command(m, word) ==
  /\ \E p \in Processes : pc[p] = "up"
  /\ commands < MaxCommands
  /\ commands' = commands + 1
  /\ exposed' = IF word = "exposed" THEN exposed \cup {m} ELSE exposed \ {m}
  /\ history' = Append(history, exposed')
  /\ decided' = [decided EXCEPT ![m] = word]
  /\ UNCHANGED <<initialized, localVars, late, pc, launches>>

StartStep(p) ==
  \/ ReadState(p) \/ ReadRows(p) \/ Validate(p) \/ Check(p)
  \/ ImportSucceeds(p) \/ ImportFails(p) \/ ReadOwnImport(p)
  \/ ReadWinnerState(p) \/ AdoptWinner(p) \/ Serve(p) \/ Fails(p)

Next ==
  \/ \E p \in Processes : Launch(p) \/ StartStep(p) \/ ImportArrives(p) \/ Crash(p)
  \/ \E m \in Mappings, word \in {"exposed", "unexposed"} : Command(m, word)

Spec == Init /\ [][Next]_vars

-------------------------------------------------------------------------------
(***************************************************************************)
(* Properties.                                                             *)
(***************************************************************************)

(* What the operator decided stands: no start, retry or late import ever   *)
(* adds a table or exposes an unexposed one again (D-018, D-028).          *)
DecisionsStand ==
  \A m \in Mappings : decided[m] # "none" => (m \in exposed <=> decided[m] = "exposed")

(* A process serves a state the registry had since it was launched, never  *)
(* its configuration, nor a state from before the initialization.          *)
StartsFromRegistry ==
  \A p \in Processes : pc[p] = "up" =>
    \E n \in 1..Len(history) : n >= launchedAt[p] /\ rows[p] = history[n]

(* A process that meant to seed the registry never serves a mapping that   *)
(* it did not configure and the operator did not decide on.                *)
AdoptsOnlyItsOwn ==
  \A p \in Processes : pc[p] = "up" /\ seeding[p] =>
    \A m \in rows[p] : m \in config[p] \/ decided[m] # "none"

===============================================================================
